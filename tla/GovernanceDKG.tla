--------------------------- MODULE GovernanceDKG ---------------------------
(***************************************************************************)
(* The distributed key generation (DKG) of the governance contract: during *)
(* round Round the notary set of Round + 1 generates that round's          *)
(* threshold key through transactions to the contract, and an attempt that *)
(* fails is reset with a new CRS and so a new notary set.                  *)
(* Sources: core/vm/oracle_contracts.go (the contract), core/governance.go *)
(* (what the nodes read of it), and configuration-chain.go,                *)
(* dkg-tsig-protocol.go, types/dkg/dkg.go and utils/utils.go of the core   *)
(* (what a node sends, and the key it takes away).                         *)
(*                                                                         *)
(* A node's transactions execute in the order it sent them (their nonces); *)
(* any of them may be delayed, past a reset too, or never execute.  A call *)
(* that reverts changes nothing, so a handler is its successful run.       *)
(***************************************************************************)
EXTENDS Integers, FiniteSets

CONSTANTS
    Node,         \* the staked nodes
    PrevSet,      \* the notary set of Round
    Joined,       \* its members whose DKG for Round succeeded
    NotarySets,   \* NotarySets[k]: the notary set the CRS of attempt k draws
    CurSize,      \* the notary set size configured for Round
    NextSize,     \* the notary set size configured for Round + 1
    Faulty,       \* nodes that may send an invalid private share
    Nacked,       \* nodes whose private shares may fail to arrive
    MaxResets     \* bound on the resets of one DKG

ASSUME SetsAssumption ==
    /\ IsFiniteSet(Node)
    /\ Joined \subseteq PrevSet /\ PrevSet \subseteq Node
    /\ MaxResets \in Nat
    /\ NotarySets \in [0..MaxResets -> SUBSET Node]
    /\ CurSize \in Nat \ {0} /\ NextSize \in Nat \ {0}
    /\ Cardinality(PrevSet) <= CurSize
    /\ \A k \in 0..MaxResets : Cardinality(NotarySets[k]) <= NextSize

Round == 2        \* evm.Round, past DKGDelayRound
NoCRS == -1       \* CRSRound is still Round
None  == [reset |-> -1, qual |-> {}]

VARIABLES
    dkgRound,     \* DKGRound: the round the records below are of
    resetCount,   \* DKGResetCount(Round + 1)
    crs,          \* the attempt whose CRS is CRS(Round + 1), or NoCRS
    dkg,          \* the contract's records of a DKG
    fined,        \* the nodes the contract has fined
    running,      \* nodes in the phases of runDKG of the current attempt
    skipped,      \* nodes whose runDKG of the current attempt returned at once
    signer        \* dkgSigner[Round + 1] of each node, with its attempt

contract == <<dkgRound, resetCount, crs, dkg, fined>>
nodes    == <<running, skipped, signer>>
vars     == <<contract, nodes>>

Threshold(size)      == (size * 2) \div 3 + 1
NackThreshold(size)  == size \div 3 + 1
ValidThreshold(size) == (size * 5) \div 6

-----------------------------------------------------------------------------
(* The contract's records: master public keys and complaints with the      *)
(* attempt they were made for, a flag per node and a counter for each of   *)
(* ready, final and success.                                               *)

Complaint == [from : Node, to : Node, nack : BOOLEAN, reset : 0..MaxResets]

Records == [mpks : SUBSET [from : Node, reset : -1..MaxResets],
            complaints : SUBSET Complaint,
            ready : SUBSET Node, final : SUBSET Node, success : SUBSET Node,
            nReady : Nat, nFinal : Nat, nSuccess : Nat]

Members(d) == {mpk.from : mpk \in d.mpks}

Nacking(d, n) == {c.from : c \in {x \in d.complaints : x.to = n /\ x.nack}}

Disqualified(d, threshold) ==
    {n \in Node : \/ \E c \in d.complaints : c.to = n /\ ~c.nack
                  \/ Nacking(d, n) # {} /\ Cardinality(Nacking(d, n)) >= threshold}

\* CalcQualifyNodes returns no error.
Qualifies(d, threshold) ==
    /\ Cardinality(d.mpks) >= threshold
    /\ Cardinality(d.mpks) - Cardinality(Disqualified(d, threshold)) >= threshold

QualifyNodes(d, threshold) == Members(d) \ Disqualified(d, threshold)

\* The notary set of a round: empty while the round has no CRS.
NotarySet(round) ==
    IF round = Round THEN PrevSet
    ELSE IF crs = NoCRS THEN {} ELSE NotarySets[crs]

ClearDKG(d, dkgSet) ==
    [mpks |-> {}, complaints |-> {},
     ready |-> d.ready \ dkgSet, final |-> d.final \ dkgSet,
     success |-> d.success \ dkgSet,
     nReady |-> 0, nFinal |-> 0, nSuccess |-> 0]

\* The records a call for Round + 1 starts from, when it is one that clears
\* those of the round before.
Opened == IF dkgRound = Round THEN ClearDKG(dkg, NotarySet(dkgRound)) ELSE dkg

\* The nodes fineFailStopDKG fines.
FailStop(d, round, threshold) ==
    (NotarySet(round) \ Members(d))
        \union {n \in Node : /\ Nacking(d, n) # {}
                             /\ Cardinality(Nacking(d, n)) >= threshold}

-----------------------------------------------------------------------------
(* What the nodes read of the contract, at the head of the chain.          *)

DKGStarted == dkgRound = Round + 1

IsDKGMPKReady == DKGStarted /\ dkg.nReady >= Threshold(NextSize)

IsDKGFinal == DKGStarted /\ dkg.nFinal >= Threshold(NextSize)

IsDKGSuccess == DKGStarted /\ dkg.nSuccess >= ValidThreshold(NextSize)

IsDKGValid ==
    /\ IsDKGFinal /\ IsDKGSuccess
    /\ Qualifies(dkg, Threshold(NextSize))
    /\ Cardinality(QualifyNodes(dkg, Threshold(NextSize))) >= ValidThreshold(NextSize)

-----------------------------------------------------------------------------
(* Calls of the contract, each with the attempt k its message was made for.*)

\* The checks on a message of the DKG: its attempt and its sender.
BelongsAnyReset(n, k) == n \in NotarySet(Round + 1)
Belongs(n, k) == k = resetCount /\ n \in NotarySet(Round + 1)

\* A member of the notary set of attempt k takes part in that attempt.
Registered(n, k) == k <= resetCount /\ n \in NotarySets[k]

ProposeCRS ==
    /\ crs = NoCRS
    /\ Qualifies(dkg, Threshold(NextSize))
    /\ crs' = 0
    /\ UNCHANGED <<dkgRound, resetCount, dkg, fined, nodes>>

AddDKGMasterPublicKey(n, k) ==
    /\ Registered(n, k)
    /\ n \notin Members(Opened)
    /\ n \notin Opened.ready
    /\ Opened.nReady < Threshold(CurSize)
    /\ Belongs(n, k)
    /\ dkgRound' = Round + 1
    /\ dkg' = [Opened EXCEPT !.mpks = @ \union {[from |-> n, reset |-> k]}]
    /\ UNCHANGED <<resetCount, crs, fined, nodes>>

\* Sent after the node's master public key, which was added or came too late.
AddDKGMPKReady(n, k) ==
    /\ Registered(n, k)
    /\ DKGStarted /\ (n \in Members(dkg) \/ dkg.nReady >= Threshold(CurSize))
    /\ Belongs(n, k)
    /\ n \notin dkg.ready
    /\ dkg' = [dkg EXCEPT !.ready = @ \union {n}, !.nReady = @ + 1]
    /\ UNCHANGED <<dkgRound, resetCount, crs, fined, nodes>>

\* Complaints are open for a node that has not finalized, until 2f+1 have.
ComplaintsNeverClose(n) == n \notin dkg.final
ComplaintsOpen(n) == n \notin dkg.final /\ dkg.nFinal < Threshold(CurSize)

\* The node sends it from the phases two to seven, about a node whose master
\* public key it has read: no share came, or one that fails its check.
AddDKGComplaint(n, to, nack, k) ==
    /\ Registered(n, k)
    /\ n \in running \cap Members(dkg) \cap dkg.ready /\ IsDKGMPKReady
    /\ to \in Members(dkg) \ {n}
    /\ to \in IF nack THEN Nacked ELSE Faulty
    /\ ComplaintsOpen(n)
    /\ ~ \E c \in dkg.complaints : c.from = n /\ c.to = to /\ c.nack = nack
    /\ Belongs(n, k)
    /\ fined' = IF nack THEN fined ELSE fined \union {to}
    /\ dkg' = [dkg EXCEPT !.complaints =
                  @ \union {[from |-> n, to |-> to, nack |-> nack, reset |-> k]}]
    /\ UNCHANGED <<dkgRound, resetCount, crs, nodes>>

\* Sent in phase eight of a running DKG.
AddDKGFinalize(n, k) ==
    /\ Registered(n, k)
    /\ n \in running \cap dkg.ready /\ IsDKGMPKReady
    /\ Belongs(n, k)
    /\ n \notin dkg.final
    /\ dkg' = [dkg EXCEPT !.final = @ \union {n}, !.nFinal = @ + 1]
    /\ fined' = IF dkg'.nFinal = Threshold(CurSize)
                THEN fined \union FailStop(dkg, dkgRound, NackThreshold(CurSize))
                ELSE fined
    /\ UNCHANGED <<dkgRound, resetCount, crs, nodes>>

\* Sent in phase nine by a node that holds the key of attempt k.
AddDKGSuccess(n, k) ==
    /\ signer[n].reset = k /\ n \in dkg.final
    /\ Belongs(n, k)
    /\ n \notin dkg.success
    /\ dkg' = [dkg EXCEPT !.success = @ \union {n}, !.nSuccess = @ + 1]
    /\ UNCHANGED <<dkgRound, resetCount, crs, fined, nodes>>

\* resetDKG goes on: the DKG has not succeeded.
DKGFailedAlways(d) == TRUE
DKGFailed(d) ==
    \/ d.nSuccess < ValidThreshold(NextSize)
    \/ d.nFinal < Threshold(NextSize)
    \/ ~Qualifies(d, Threshold(NextSize))
    \/ Cardinality(QualifyNodes(d, Threshold(NextSize))) < ValidThreshold(NextSize)

\* The set whose flags resetDKG clears: the CRS has not changed yet.
ResetSetAfterCRS == NotarySets[resetCount + 1]
ResetSet == NotarySet(Round + 1)

\* The signature is over the CRS of Round hashed resetCount + 1 times, so a
\* call made for an earlier attempt does not verify.  The nodes of the DKG
\* abort the attempt and register the next one.
ResetDKG(k) ==
    /\ resetCount < MaxResets
    /\ DKGFailed(Opened)
    /\ k = resetCount
    /\ fined' = fined \union FailStop(Opened, Round + 1, NackThreshold(NextSize))
    /\ dkg' = ClearDKG(Opened, ResetSet)
    /\ dkgRound' = Round + 1
    /\ crs' = k + 1
    /\ resetCount' = resetCount + 1
    /\ running' = {} /\ skipped' = {}
    /\ UNCHANGED signer

-----------------------------------------------------------------------------
(* Steps of a node.                                                        *)

\* runDKG returns at once when the node holds a signer for the round.
RunDKG(n) ==
    /\ n \in NotarySet(Round + 1) \ (running \union skipped)
    /\ IF signer[n] # None
       THEN skipped' = skipped \union {n} /\ UNCHANGED running
       ELSE running' = running \union {n} /\ UNCHANGED skipped
    /\ UNCHANGED <<contract, signer>>

\* Phase nine, for a qualified node that recovers its share of the key.
RunDKGPhaseNine(n) ==
    /\ n \in running /\ signer[n] = None
    /\ IsDKGFinal
    /\ Qualifies(dkg, Threshold(NextSize))
    /\ n \in QualifyNodes(dkg, Threshold(NextSize))
    /\ signer' = [signer EXCEPT ![n] =
                    [reset |-> resetCount,
                     qual  |-> QualifyNodes(dkg, Threshold(NextSize))]]
    /\ UNCHANGED <<contract, running, skipped>>

-----------------------------------------------------------------------------
\* The records are those of the finished DKG of Round.
Init ==
    /\ dkgRound = Round /\ resetCount = 0 /\ crs = NoCRS
    /\ dkg = [mpks |-> {[from |-> n, reset |-> -1] : n \in Joined},
              complaints |-> {},
              ready |-> Joined, final |-> Joined, success |-> Joined,
              nReady |-> Cardinality(Joined), nFinal |-> Cardinality(Joined),
              nSuccess |-> Cardinality(Joined)]
    /\ fined = {}
    /\ running = {} /\ skipped = {}
    /\ signer = [n \in Node |-> None]

Next ==
    \/ ProposeCRS
    \/ \E k \in 0..MaxResets :
         \/ ResetDKG(k)
         \/ \E n \in Node :
              \/ AddDKGMasterPublicKey(n, k)
              \/ AddDKGMPKReady(n, k)
              \/ AddDKGFinalize(n, k)
              \/ AddDKGSuccess(n, k)
              \/ \E to \in Node, nack \in BOOLEAN : AddDKGComplaint(n, to, nack, k)
    \/ \E n \in Node : RunDKG(n) \/ RunDKGPhaseNine(n)

Spec == Init /\ [][Next]_vars

-----------------------------------------------------------------------------
TypeOK ==
    /\ dkgRound \in {Round, Round + 1}
    /\ resetCount \in 0..MaxResets /\ crs \in NoCRS..MaxResets
    /\ dkg \in Records /\ fined \subseteq Node
    /\ running \subseteq Node /\ skipped \subseteq Node
    /\ signer \in [Node -> [reset : -1..MaxResets, qual : SUBSET Node]]

\* The three counters the thresholds are compared with count exactly the flags
\* that are set, and the flags are those of the notary set at work, although
\* clearDKG zeroes the counters but clears the flags of a recomputed set only.
CountsExact ==
    LET set == NotarySet(dkgRound) IN
    /\ TypeOK
    /\ dkg.nReady = Cardinality(dkg.ready)     /\ dkg.ready \subseteq set
    /\ dkg.nFinal = Cardinality(dkg.final)     /\ dkg.final \subseteq set
    /\ dkg.nSuccess = Cardinality(dkg.success) /\ dkg.success \subseteq set

\* The records the group key is computed from are of one attempt, however late
\* a transaction executes, and each complaint is about a node whose master
\* public key is among them (CalcQualifyNodes subtracts the counts).
OneAttempt ==
    LET at == IF DKGStarted THEN resetCount ELSE -1 IN
    /\ \A mpk \in dkg.mpks : mpk.reset = at
    /\ Cardinality(dkg.mpks) = Cardinality(Members(dkg))
    /\ \A c \in dkg.complaints : c.reset = at /\ c.to \in Members(dkg)

\* A node counted as a success holds its share of the very key the contract's
\* records give: same attempt, same qualified nodes.  Needs a notary set that
\* does not shrink from Round to Round + 1.
SuccessMeansKey ==
    CurSize <= NextSize /\ DKGStarted =>
        \A n \in dkg.success :
            signer[n] = [reset |-> resetCount,
                         qual  |-> QualifyNodes(dkg, Threshold(NextSize))]

\* A DKG the nodes have once seen valid stays valid until its round begins: no
\* late key, complaint or reset (sent when it was not yet valid) undoes it.
ValidStays == [][CurSize <= NextSize /\ IsDKGValid => IsDKGValid']_vars

\* A node that skips the DKG of an attempt holds the signer of that attempt
\* (runDKG: "Check if corresponding DKG signer is ready").
SkipsWithItsSigner == \A n \in skipped : signer[n].reset = resetCount
=============================================================================
