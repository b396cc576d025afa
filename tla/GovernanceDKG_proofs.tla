----------------------- MODULE GovernanceDKG_proofs -----------------------
(***************************************************************************)
(* Proofs about GovernanceDKG, for any nodes, notary sets, sizes and       *)
(* number of resets.  The inductive invariant adds to CountsExact and      *)
(* OneAttempt what ties the nodes' keys to the contract's records: a key   *)
(* of the current attempt was taken after enough nodes had finalized, and  *)
(* nobody finalizes before enough nodes are ready.                         *)
(***************************************************************************)
EXTENDS GovernanceDKG, Functions, FiniteSetTheorems, TLAPS

Flags(d, set) ==
    /\ d.nReady = Cardinality(d.ready)     /\ d.ready \subseteq set
    /\ d.nFinal = Cardinality(d.final)     /\ d.final \subseteq set
    /\ d.nSuccess = Cardinality(d.success) /\ d.success \subseteq set

Dated(d, at) ==
    /\ \A mpk \in d.mpks : mpk.reset = at
    /\ \A c \in d.complaints : c.reset = at /\ c.to \in Members(d)

Attempt == IF DKGStarted THEN resetCount ELSE -1

KeysInv ==
    /\ DKGStarted /\ dkg.nFinal > 0 => dkg.nReady >= Threshold(NextSize)
    /\ \A n \in Node : signer[n].reset <= resetCount
    /\ \A n \in Node :
          signer[n].reset = resetCount =>
             /\ IsDKGFinal
             /\ CurSize <= NextSize =>
                   signer[n].qual = QualifyNodes(dkg, Threshold(NextSize))
    /\ DKGStarted => \A n \in dkg.success : signer[n].reset = resetCount

IInv ==
    /\ TypeOK
    /\ Flags(dkg, NotarySet(dkgRound))
    /\ Dated(dkg, Attempt)
    /\ KeysInv

-----------------------------------------------------------------------------
(* Lemmas on the operators of the model.                                   *)

\* The thresholds of a positive size are positive, and grow with the size.
LEMMA ThresholdGrows ==
  ASSUME NEW s \in Nat \ {0}, NEW t \in Nat \ {0}
  PROVE  /\ Threshold(s) \in Nat /\ Threshold(s) > 0
         /\ s <= t => Threshold(s) <= Threshold(t)
BY DEF Threshold

\* A notary set has only nodes.
LEMMA NotaryNodes ==
  ASSUME TypeOK, NEW r
  PROVE  NotarySet(r) \subseteq Node
<1>1. CASE r = Round
  BY Zenon, <1>1, SetsAssumption DEF NotarySet
<1>2. CASE r # Round /\ crs = NoCRS
  BY Zenon, <1>2 DEF NotarySet
<1>3. CASE r # Round /\ crs # NoCRS
  <2>1. crs \in 0..MaxResets
    BY <1>3, SetsAssumption DEF TypeOK, NoCRS
  <2> QED  BY Zenon, <1>3, <2>1, SetsAssumption DEF NotarySet
<1> QED  BY Zenon, <1>1, <1>2, <1>3

\* One more flag is one more for the counter.
LEMMA OneMore ==
  ASSUME NEW S \in SUBSET Node, NEW n \in Node, n \notin S
  PROVE  Cardinality(S \union {n}) = Cardinality(S) + 1
BY Zenon, FS_Subset, FS_AddElement, SetsAssumption

\* The qualified nodes depend on the master public keys and complaints only.
LEMMA QualifySame ==
  ASSUME NEW d, NEW e, NEW t, d.mpks = e.mpks, d.complaints = e.complaints
  PROVE  /\ QualifyNodes(d, t) = QualifyNodes(e, t)
         /\ Qualifies(d, t) = Qualifies(e, t)
         /\ Members(d) = Members(e)
<1>1. Members(d) = Members(e) /\ \A n : Nacking(d, n) = Nacking(e, n)
  BY Zenon DEF Members, Nacking
<1>2. Disqualified(d, t) = Disqualified(e, t)
  BY <1>1 DEF Disqualified
<1> QED  BY Zenon, <1>1, <1>2 DEF QualifyNodes, Qualifies

\* Master public keys of one attempt are as many as their senders.
LEMMA OneKeyEach ==
  ASSUME TypeOK, NEW at, \A mpk \in dkg.mpks : mpk.reset = at
  PROVE  Cardinality(dkg.mpks) = Cardinality(Members(dkg))
<1> DEFINE M == Members(dkg)
           f == [n \in M |-> [from |-> n, reset |-> at]]
<1>1. dkg.mpks \subseteq [from : Node, reset : -1..MaxResets]
  BY Zenon DEF TypeOK, Records
<1>2. \A mpk \in dkg.mpks : mpk = [from |-> mpk.from, reset |-> at] /\ mpk.from \in M
  BY <1>1 DEF Members
<1>3. \A n \in M : [from |-> n, reset |-> at] \in dkg.mpks
  BY Zenon, <1>2 DEF Members
<1>4. M \subseteq Node
  BY Zenon, <1>1 DEF Members
<1> HIDE DEF M
<1>5. f \in Bijection(M, dkg.mpks)
  <2>1. f \in [M -> dkg.mpks]
    BY Zenon, <1>3
  <2>2. \A x, y \in M : f[x] = f[y] => x = y
    BY Zenon
  <2>3. \A m \in dkg.mpks : \E x \in M : f[x] = m
    BY Zenon, <1>2
  <2> QED  BY Zenon, <2>1, <2>2, <2>3 DEF Bijection, Injection, Surjection, IsInjective
<1>6. IsFiniteSet(M)
  BY Zenon, <1>4, FS_Subset, SetsAssumption
<1>7. ExistsBijection(M, dkg.mpks)
  BY Zenon, <1>5 DEF ExistsBijection
<1>8. Cardinality(dkg.mpks) = Cardinality(M)
  BY Zenon, <1>6, <1>7, FS_Bijection
<1> QED  BY Zenon, <1>8 DEF M

\* What a cleared record is.
LEMMA Cleared ==
  ASSUME NEW d, NEW set
  PROVE  LET c == ClearDKG(d, set) IN
         /\ c.mpks = {} /\ c.complaints = {}
         /\ c.nReady = 0 /\ c.nFinal = 0 /\ c.nSuccess = 0
         /\ c.ready = d.ready \ set /\ c.final = d.final \ set
         /\ c.success = d.success \ set
BY Zenon DEF ClearDKG

\* The records a call starts from are those of the attempt: of the DKG of
\* Round nothing is left.
LEMMA OpenedFresh ==
  ASSUME TypeOK, Flags(dkg, NotarySet(dkgRound)), Dated(dkg, Attempt)
  PROVE  /\ Opened \in Records
         /\ Flags(Opened, NotarySet(Round + 1))
         /\ Dated(Opened, resetCount)
         /\ DKGStarted => Opened = dkg
         /\ ~DKGStarted => Opened.nFinal = 0 /\ Opened.success = {}
<1>1. CASE DKGStarted
  <2>1. Opened = dkg
    BY <1>1 DEF Opened, DKGStarted, Round
  <2> QED  BY Zenon, <1>1, <2>1 DEF DKGStarted, Attempt, TypeOK
<1>2. CASE ~DKGStarted
  <2>1. dkgRound = Round /\ Opened = ClearDKG(dkg, NotarySet(Round))
    BY Zenon, <1>2 DEF DKGStarted, TypeOK, Opened
  <2>2. /\ Opened.mpks = {} /\ Opened.complaints = {}
        /\ Opened.nReady = 0 /\ Opened.nFinal = 0 /\ Opened.nSuccess = 0
        /\ Opened.ready = {} /\ Opened.final = {} /\ Opened.success = {}
    BY <2>1, Cleared DEF Flags
  <2>3. Opened \in Records
    BY Zenon, <2>1, <2>2 DEF ClearDKG, Records
  <2>4. Cardinality({}) = 0
    BY Zenon, FS_EmptySet
  <2> QED  BY Zenon, <1>2, <2>2, <2>3, <2>4 DEF Flags, Dated
<1> QED  BY Zenon, <1>1, <1>2

-----------------------------------------------------------------------------
LEMMA InitIInv == Init => IInv
<1> SUFFICES ASSUME Init PROVE IInv
  BY Zenon
<1>1. Joined \subseteq Node /\ IsFiniteSet(Joined) /\ Cardinality(Joined) \in Nat
  BY Zenon, SetsAssumption, FS_Subset, FS_CardinalityType
<1>2. dkg \in Records
  BY <1>1, SetsAssumption DEF Init, Records
<1>3. signer \in [Node -> [reset : -1..MaxResets, qual : SUBSET Node]]
  BY SetsAssumption DEF Init, None
<1>4. TypeOK
  BY <1>2, <1>3, SetsAssumption DEF Init, TypeOK, NoCRS
<1>5. ~DKGStarted /\ Attempt = -1 /\ NotarySet(dkgRound) = PrevSet
  <2>1. dkgRound = Round /\ Round # Round + 1
    BY DEF Init, Round
  <2>2. ~DKGStarted
    BY Zenon, <2>1 DEF DKGStarted
  <2>3. Attempt = -1
    BY Zenon, <2>2 DEF Attempt
  <2>4. NotarySet(dkgRound) = PrevSet
    BY Zenon, <2>1 DEF NotarySet
  <2> QED  BY Zenon, <2>2, <2>3, <2>4
<1>6. Flags(dkg, NotarySet(dkgRound))
  BY Zenon, <1>5, SetsAssumption DEF Init, Flags
<1>7. Dated(dkg, Attempt)
  BY <1>5 DEF Init, Dated
<1>8. KeysInv
  BY <1>5 DEF Init, KeysInv, None
<1> QED  BY Zenon, <1>4, <1>6, <1>7, <1>8 DEF IInv

\* No key is added to the records once 2f+1 nodes have finalized.
LEMMA KeysClosed ==
  ASSUME IInv, CurSize <= NextSize, IsDKGFinal,
         NEW n \in Node, NEW k \in 0..MaxResets
  PROVE  ~AddDKGMasterPublicKey(n, k)
<1>1. Opened = dkg
  BY Zenon, OpenedFresh DEF IInv, IsDKGFinal
<1>2. Threshold(CurSize) <= Threshold(NextSize) /\ Threshold(NextSize) > 0
      /\ Threshold(CurSize) \in Nat /\ Threshold(NextSize) \in Nat
  BY Zenon, ThresholdGrows, SetsAssumption
<1>3. dkg.nFinal \in Nat /\ dkg.nReady \in Nat
  BY Zenon DEF IInv, TypeOK, Records
<1>4. dkg.nReady >= Threshold(NextSize)
  BY <1>2, <1>3 DEF IInv, KeysInv, IsDKGFinal
<1> QED  BY <1>1, <1>2, <1>3, <1>4 DEF AddDKGMasterPublicKey

\* Nor is a complaint.
LEMMA ComplaintsClosed ==
  ASSUME IInv, CurSize <= NextSize, IsDKGFinal,
         NEW n \in Node, NEW to \in Node, NEW nack \in BOOLEAN,
         NEW k \in 0..MaxResets
  PROVE  ~AddDKGComplaint(n, to, nack, k)
<1>1. Threshold(CurSize) <= Threshold(NextSize)
      /\ Threshold(CurSize) \in Nat /\ Threshold(NextSize) \in Nat
  BY Zenon, ThresholdGrows, SetsAssumption
<1>2. dkg.nFinal \in Nat
  BY Zenon DEF IInv, TypeOK, Records
<1> QED  BY <1>1, <1>2 DEF AddDKGComplaint, ComplaintsOpen, IsDKGFinal

\* A step that leaves master public keys, complaints, attempt and signers alone
\* and only raises counters preserves what is known of the keys.
LEMMA RaiseKeys ==
  ASSUME IInv, TypeOK',
         dkgRound' = dkgRound, resetCount' = resetCount, signer' = signer,
         dkg'.mpks = dkg.mpks, dkg'.complaints = dkg.complaints,
         dkg'.nReady >= dkg.nReady, dkg'.nFinal >= dkg.nFinal,
         DKGStarted /\ dkg'.nFinal > dkg.nFinal => dkg.nReady >= Threshold(NextSize),
         DKGStarted => \A n \in dkg'.success : signer[n].reset = resetCount
  PROVE  Dated(dkg, Attempt)' /\ KeysInv'
<1>1. QualifyNodes(dkg', Threshold(NextSize)) = QualifyNodes(dkg, Threshold(NextSize))
      /\ Members(dkg') = Members(dkg)
  BY Zenon, QualifySame
<1>2. DKGStarted' = DKGStarted /\ Attempt' = Attempt
  BY Zenon DEF DKGStarted, Attempt
<1>3. Dated(dkg, Attempt)'
  BY Zenon, <1>1, <1>2 DEF Dated, IInv
<1>4. /\ dkg.nReady \in Nat /\ dkg.nFinal \in Nat /\ dkg'.nReady \in Nat
      /\ dkg'.nFinal \in Nat /\ Threshold(NextSize) \in Nat
  BY Zenon, ThresholdGrows, SetsAssumption DEF IInv, TypeOK, Records
<1>5. IsDKGFinal => IsDKGFinal'
  BY <1>2, <1>4 DEF IsDKGFinal
<1>6. DKGStarted /\ dkg'.nFinal > 0 => dkg'.nReady >= Threshold(NextSize)
  BY <1>4 DEF IInv, KeysInv
<1>7. \A n \in Node : signer[n].reset = resetCount =>
        /\ IsDKGFinal'
        /\ CurSize <= NextSize =>
              signer[n].qual = QualifyNodes(dkg', Threshold(NextSize))
  BY Zenon, <1>1, <1>5 DEF IInv, KeysInv
<1> QED  BY Zenon, <1>2, <1>3, <1>6, <1>7 DEF IInv, KeysInv

LEMMA ProposeCRSStep == IInv /\ ProposeCRS => IInv'
<1> SUFFICES ASSUME IInv, ProposeCRS PROVE IInv'
  BY Zenon
<1>1. TypeOK'
  BY SetsAssumption DEF IInv, TypeOK, ProposeCRS, nodes, NoCRS
<1>2. Flags(dkg, NotarySet(dkgRound))'
  <2>1. NotarySet(dkgRound) \subseteq NotarySet(dkgRound)'
    BY Zenon DEF ProposeCRS, NotarySet
  <2> QED  BY Zenon, <2>1 DEF IInv, ProposeCRS, Flags
<1>3. (Dated(dkg, Attempt) /\ KeysInv)'
  <2>1. dkg.nReady \in Nat /\ dkg.nFinal \in Nat
    BY Zenon DEF IInv, TypeOK, Records
  <2> QED  BY <1>1, <2>1, RaiseKeys DEF ProposeCRS, nodes, IInv, KeysInv
<1> QED  BY Zenon, <1>1, <1>2, <1>3 DEF IInv

LEMMA MasterPublicKeyStep ==
  ASSUME IInv, NEW n \in Node, NEW k \in 0..MaxResets, AddDKGMasterPublicKey(n, k)
  PROVE  IInv'
<1> DEFINE mpk == [from |-> n, reset |-> k]
<1>1. /\ Opened \in Records /\ Flags(Opened, NotarySet(Round + 1))
      /\ Dated(Opened, resetCount)
      /\ DKGStarted => Opened = dkg
      /\ ~DKGStarted => Opened.nFinal = 0 /\ Opened.success = {}
  BY Zenon, OpenedFresh DEF IInv
<1>2. /\ dkg' = [Opened EXCEPT !.mpks = @ \union {mpk}]
      /\ dkgRound' = Round + 1 /\ resetCount' = resetCount /\ crs' = crs
      /\ fined' = fined /\ running' = running /\ skipped' = skipped
      /\ signer' = signer /\ k = resetCount
  BY Zenon DEF AddDKGMasterPublicKey, nodes, Belongs
<1>3. mpk \in [from : Node, reset : -1..MaxResets]
  BY SetsAssumption
<1>4. /\ dkg'.mpks = Opened.mpks \union {mpk} /\ dkg'.complaints = Opened.complaints
      /\ dkg'.ready = Opened.ready /\ dkg'.final = Opened.final
      /\ dkg'.success = Opened.success /\ dkg'.nReady = Opened.nReady
      /\ dkg'.nFinal = Opened.nFinal /\ dkg'.nSuccess = Opened.nSuccess
      /\ dkg' \in Records
  BY Zenon, <1>1, <1>2, <1>3 DEF Records
<1>5. TypeOK'
  BY Zenon, <1>2, <1>4 DEF IInv, TypeOK
<1>6. DKGStarted' /\ Attempt' = resetCount /\ NotarySet(dkgRound)' = NotarySet(Round + 1)
  BY Zenon, <1>2 DEF DKGStarted, Attempt, NotarySet
<1>7. Flags(dkg, NotarySet(dkgRound))'
  BY Zenon, <1>1, <1>4, <1>6 DEF Flags
<1>8. Dated(dkg, Attempt)'
  <2>1. Members(Opened) \subseteq Members(dkg')
    BY Zenon, <1>4 DEF Members
  <2> QED  BY <1>1, <1>2, <1>4, <1>6, <2>1 DEF Dated
<1>9. KeysInv'
  <2>0. Threshold(NextSize) \in Nat /\ Threshold(NextSize) > 0 /\ resetCount \in Nat
    BY ThresholdGrows, SetsAssumption DEF IInv, TypeOK
  <2>1. CASE DKGStarted
    <3>1. dkg'.nFinal = dkg.nFinal /\ dkg'.nReady = dkg.nReady
          /\ dkg'.success = dkg.success
      BY Zenon, <1>1, <1>4, <2>1
    <3>2. IsDKGFinal' = IsDKGFinal
      BY Zenon, <1>6, <2>1, <3>1 DEF IsDKGFinal
    <3>3. CurSize <= NextSize => \A m \in Node : signer[m].reset # resetCount
      BY Zenon, KeysClosed DEF IInv, KeysInv
    <3> QED  BY ZenonT(20), <1>2, <1>6, <2>1, <3>1, <3>2, <3>3 DEF IInv, KeysInv
  <2>2. CASE ~DKGStarted
    <3>1. \A m \in Node : signer[m].reset # resetCount
      BY Zenon, <2>2 DEF IInv, KeysInv, IsDKGFinal
    <3>2. dkg'.nFinal = 0 /\ dkg'.success = {}
      BY Zenon, <1>1, <1>4, <2>2
    <3> QED  BY <1>2, <3>1, <3>2 DEF IInv, KeysInv
  <2> QED  BY Zenon, <2>1, <2>2
<1> QED  BY Zenon, <1>5, <1>7, <1>8, <1>9 DEF IInv

LEMMA MPKReadyStep ==
  ASSUME IInv, NEW n \in Node, NEW k \in 0..MaxResets, AddDKGMPKReady(n, k)
  PROVE  IInv'
<1>0. /\ dkg \in Records /\ dkg.ready \subseteq Node /\ dkg.nReady \in Nat
      /\ dkg.nFinal \in Nat
  BY Zenon DEF IInv, TypeOK, Records
<1>1. /\ dkg' = [dkg EXCEPT !.ready = @ \union {n}, !.nReady = @ + 1]
      /\ dkgRound' = dkgRound /\ resetCount' = resetCount /\ crs' = crs
      /\ fined' = fined /\ running' = running /\ skipped' = skipped
      /\ signer' = signer
      /\ n \notin dkg.ready /\ DKGStarted /\ n \in NotarySet(Round + 1)
  BY Zenon DEF AddDKGMPKReady, nodes, Belongs
<1>2. /\ dkg'.mpks = dkg.mpks /\ dkg'.complaints = dkg.complaints
      /\ dkg'.ready = dkg.ready \union {n} /\ dkg'.nReady = dkg.nReady + 1
      /\ dkg'.final = dkg.final /\ dkg'.nFinal = dkg.nFinal
      /\ dkg'.success = dkg.success /\ dkg'.nSuccess = dkg.nSuccess
  BY Zenon, <1>0, <1>1 DEF Records
<1>2a. dkg' \in Records
  <2>1. dkg' = [mpks |-> dkg.mpks, complaints |-> dkg.complaints,
                ready |-> dkg.ready \union {n}, final |-> dkg.final,
                success |-> dkg.success, nReady |-> dkg.nReady + 1,
                nFinal |-> dkg.nFinal, nSuccess |-> dkg.nSuccess]
    BY ZenonT(20), <1>0, <1>1 DEF Records
  <2>2. /\ dkg.mpks \in SUBSET [from : Node, reset : -1..MaxResets]
        /\ dkg.complaints \in SUBSET Complaint
        /\ dkg.ready \in SUBSET Node /\ dkg.final \in SUBSET Node
        /\ dkg.success \in SUBSET Node
        /\ dkg.nReady \in Nat /\ dkg.nFinal \in Nat /\ dkg.nSuccess \in Nat
    BY Zenon, <1>0 DEF Records
  <2> QED  BY <2>1, <2>2 DEF Records
<1>3. TypeOK'
  BY Zenon, <1>1, <1>2a DEF IInv, TypeOK
<1>4. Cardinality(dkg.ready \union {n}) = Cardinality(dkg.ready) + 1
  BY Zenon, <1>0, <1>1, OneMore
<1>5. NotarySet(dkgRound)' = NotarySet(Round + 1) /\ NotarySet(dkgRound) = NotarySet(Round + 1)
  BY Zenon, <1>1 DEF DKGStarted, NotarySet
<1>6. Flags(dkg, NotarySet(dkgRound))'
  BY Zenon, <1>1, <1>2, <1>4, <1>5 DEF IInv, Flags
<1>7. DKGStarted => \A m \in dkg'.success : signer[m].reset = resetCount
  BY Zenon, <1>2 DEF IInv, KeysInv
<1>8. dkg'.nReady >= dkg.nReady /\ dkg'.nFinal >= dkg.nFinal /\ ~(dkg'.nFinal > dkg.nFinal)
  BY <1>0, <1>2
<1>9. (Dated(dkg, Attempt) /\ KeysInv)'
  BY Zenon, <1>1, <1>2, <1>3, <1>7, <1>8, RaiseKeys
<1> QED  BY Zenon, <1>3, <1>6, <1>9 DEF IInv

LEMMA ComplaintStep ==
  ASSUME IInv, NEW n \in Node, NEW to \in Node, NEW nack \in BOOLEAN,
         NEW k \in 0..MaxResets, AddDKGComplaint(n, to, nack, k)
  PROVE  IInv'
<1> DEFINE c == [from |-> n, to |-> to, nack |-> nack, reset |-> k]
<1>0. dkg \in Records
  BY Zenon DEF IInv, TypeOK
<1>1. /\ dkg' = [dkg EXCEPT !.complaints = @ \union {c}]
      /\ dkgRound' = dkgRound /\ resetCount' = resetCount /\ crs' = crs
      /\ running' = running /\ skipped' = skipped /\ signer' = signer
      /\ (fined' = fined \/ fined' = fined \union {to})
      /\ to \in Members(dkg) /\ DKGStarted /\ k = resetCount
  BY Zenon DEF AddDKGComplaint, nodes, Belongs, IsDKGMPKReady
<1>2. c \in Complaint
  BY Zenon DEF Complaint
<1>3. /\ dkg'.mpks = dkg.mpks /\ dkg'.complaints = dkg.complaints \union {c}
      /\ dkg'.ready = dkg.ready /\ dkg'.nReady = dkg.nReady
      /\ dkg'.final = dkg.final /\ dkg'.nFinal = dkg.nFinal
      /\ dkg'.success = dkg.success /\ dkg'.nSuccess = dkg.nSuccess
      /\ dkg' \in Records
  BY Zenon, <1>0, <1>1, <1>2 DEF Records
<1>4. TypeOK'
  BY Zenon, <1>1, <1>3 DEF IInv, TypeOK
<1>5. /\ NotarySet(dkgRound)' = NotarySet(dkgRound)
      /\ DKGStarted' /\ Attempt' = resetCount /\ Attempt = resetCount
  BY Zenon, <1>1 DEF NotarySet, DKGStarted, Attempt
<1>6. Flags(dkg, NotarySet(dkgRound))'
  BY Zenon, <1>3, <1>5 DEF IInv, Flags
<1>7. Dated(dkg, Attempt)'
  <2>1. Members(dkg') = Members(dkg)
    BY Zenon, <1>3 DEF Members
  <2>2. c.reset = resetCount /\ c.to \in Members(dkg)
    BY Zenon, <1>1
  <2> QED  BY Zenon, <1>3, <1>5, <2>1, <2>2 DEF IInv, Dated
<1>8. KeysInv'
  <2>1. IsDKGFinal' = IsDKGFinal
    BY ZenonT(20), <1>1, <1>3 DEF IsDKGFinal, DKGStarted
  <2>2. CurSize <= NextSize => \A m \in Node : signer[m].reset # resetCount
    BY Zenon, ComplaintsClosed DEF IInv, KeysInv
  <2> QED  BY Zenon, <1>1, <1>3, <1>5, <2>1, <2>2 DEF IInv, KeysInv
<1> QED  BY Zenon, <1>4, <1>6, <1>7, <1>8 DEF IInv

LEMMA FinalizeStep ==
  ASSUME IInv, NEW n \in Node, NEW k \in 0..MaxResets, AddDKGFinalize(n, k)
  PROVE  IInv'
<1>0. /\ TypeOK /\ dkg \in Records /\ dkg.final \subseteq Node /\ dkg.nReady \in Nat
      /\ dkg.nFinal \in Nat
  BY Zenon DEF IInv, TypeOK, Records
<1>1. /\ dkg' = [dkg EXCEPT !.final = @ \union {n}, !.nFinal = @ + 1]
      /\ dkgRound' = dkgRound /\ resetCount' = resetCount /\ crs' = crs
      /\ running' = running /\ skipped' = skipped /\ signer' = signer
      /\ n \notin dkg.final /\ IsDKGMPKReady /\ n \in NotarySet(Round + 1)
  BY Zenon DEF AddDKGFinalize, nodes, Belongs
<1>2. /\ dkg'.mpks = dkg.mpks /\ dkg'.complaints = dkg.complaints
      /\ dkg'.ready = dkg.ready /\ dkg'.nReady = dkg.nReady
      /\ dkg'.final = dkg.final \union {n} /\ dkg'.nFinal = dkg.nFinal + 1
      /\ dkg'.success = dkg.success /\ dkg'.nSuccess = dkg.nSuccess
  BY Zenon, <1>0, <1>1 DEF Records
<1>2a. dkg' \in Records
  <2>1. dkg' = [mpks |-> dkg.mpks, complaints |-> dkg.complaints,
                ready |-> dkg.ready, final |-> dkg.final \union {n},
                success |-> dkg.success, nReady |-> dkg.nReady,
                nFinal |-> dkg.nFinal + 1, nSuccess |-> dkg.nSuccess]
    BY ZenonT(20), <1>0, <1>1 DEF Records
  <2>2. /\ dkg.mpks \in SUBSET [from : Node, reset : -1..MaxResets]
        /\ dkg.complaints \in SUBSET Complaint
        /\ dkg.ready \in SUBSET Node /\ dkg.final \in SUBSET Node
        /\ dkg.success \in SUBSET Node
        /\ dkg.nReady \in Nat /\ dkg.nFinal \in Nat /\ dkg.nSuccess \in Nat
    BY Zenon, <1>0 DEF Records
  <2> QED  BY <2>1, <2>2 DEF Records
<1>3. fined' \subseteq Node
  <2>1. FailStop(dkg, dkgRound, NackThreshold(CurSize)) \subseteq Node
    BY Zenon, <1>0, NotaryNodes DEF FailStop
  <2> QED  BY Zenon, <1>0, <2>1 DEF AddDKGFinalize, TypeOK
<1>4. TypeOK'
  BY Zenon, <1>0, <1>1, <1>2a, <1>3 DEF TypeOK
<1>5. Cardinality(dkg.final \union {n}) = Cardinality(dkg.final) + 1
  BY Zenon, <1>0, <1>1, OneMore
<1>6. NotarySet(dkgRound)' = NotarySet(Round + 1) /\ NotarySet(dkgRound) = NotarySet(Round + 1)
  BY Zenon, <1>1 DEF IsDKGMPKReady, DKGStarted, NotarySet
<1>7. Flags(dkg, NotarySet(dkgRound))'
  BY Zenon, <1>1, <1>2, <1>5, <1>6 DEF IInv, Flags
<1>8. DKGStarted => \A m \in dkg'.success : signer[m].reset = resetCount
  BY Zenon, <1>2 DEF IInv, KeysInv
<1>9. /\ dkg'.nReady >= dkg.nReady /\ dkg'.nFinal >= dkg.nFinal
      /\ dkg.nReady >= Threshold(NextSize)
  BY <1>0, <1>1, <1>2 DEF IsDKGMPKReady
<1>10. (Dated(dkg, Attempt) /\ KeysInv)'
  BY Zenon, <1>1, <1>2, <1>4, <1>8, <1>9, RaiseKeys
<1> QED  BY Zenon, <1>4, <1>7, <1>10 DEF IInv

LEMMA SuccessStep ==
  ASSUME IInv, NEW n \in Node, NEW k \in 0..MaxResets, AddDKGSuccess(n, k)
  PROVE  IInv'
<1>0. /\ TypeOK /\ dkg \in Records /\ dkg.success \subseteq Node /\ dkg.nReady \in Nat
      /\ dkg.nFinal \in Nat
  BY Zenon DEF IInv, TypeOK, Records
<1>1. /\ dkg' = [dkg EXCEPT !.success = @ \union {n}, !.nSuccess = @ + 1]
      /\ dkgRound' = dkgRound /\ resetCount' = resetCount /\ crs' = crs
      /\ fined' = fined /\ running' = running /\ skipped' = skipped
      /\ signer' = signer
      /\ n \notin dkg.success /\ n \in NotarySet(Round + 1)
      /\ signer[n].reset = resetCount
  BY Zenon DEF AddDKGSuccess, nodes, Belongs
<1>2. /\ dkg'.mpks = dkg.mpks /\ dkg'.complaints = dkg.complaints
      /\ dkg'.ready = dkg.ready /\ dkg'.nReady = dkg.nReady
      /\ dkg'.final = dkg.final /\ dkg'.nFinal = dkg.nFinal
      /\ dkg'.success = dkg.success \union {n} /\ dkg'.nSuccess = dkg.nSuccess + 1
  BY Zenon, <1>0, <1>1 DEF Records
<1>2a. dkg' \in Records
  <2>1. dkg' = [mpks |-> dkg.mpks, complaints |-> dkg.complaints,
                ready |-> dkg.ready, final |-> dkg.final,
                success |-> dkg.success \union {n}, nReady |-> dkg.nReady,
                nFinal |-> dkg.nFinal, nSuccess |-> dkg.nSuccess + 1]
    BY ZenonT(20), <1>0, <1>1 DEF Records
  <2>2. /\ dkg.mpks \in SUBSET [from : Node, reset : -1..MaxResets]
        /\ dkg.complaints \in SUBSET Complaint
        /\ dkg.ready \in SUBSET Node /\ dkg.final \in SUBSET Node
        /\ dkg.success \in SUBSET Node
        /\ dkg.nReady \in Nat /\ dkg.nFinal \in Nat /\ dkg.nSuccess \in Nat
    BY Zenon, <1>0 DEF Records
  <2> QED  BY <2>1, <2>2 DEF Records
<1>3. TypeOK'
  BY Zenon, <1>0, <1>1, <1>2a DEF TypeOK
<1>4. DKGStarted
  BY Zenon, <1>1 DEF IInv, KeysInv, IsDKGFinal
<1>5. Cardinality(dkg.success \union {n}) = Cardinality(dkg.success) + 1
  BY Zenon, <1>0, <1>1, OneMore
<1>6. NotarySet(dkgRound)' = NotarySet(Round + 1) /\ NotarySet(dkgRound) = NotarySet(Round + 1)
  BY Zenon, <1>1, <1>4 DEF DKGStarted, NotarySet
<1>7. Flags(dkg, NotarySet(dkgRound))'
  BY Zenon, <1>1, <1>2, <1>5, <1>6 DEF IInv, Flags
<1>8. DKGStarted => \A m \in dkg'.success : signer[m].reset = resetCount
  BY Zenon, <1>1, <1>2 DEF IInv, KeysInv
<1>9. dkg'.nReady >= dkg.nReady /\ dkg'.nFinal >= dkg.nFinal /\ ~(dkg'.nFinal > dkg.nFinal)
  BY <1>0, <1>2
<1>10. (Dated(dkg, Attempt) /\ KeysInv)'
  BY Zenon, <1>1, <1>2, <1>3, <1>8, <1>9, RaiseKeys
<1> QED  BY Zenon, <1>3, <1>7, <1>10 DEF IInv

LEMMA ResetStep ==
  ASSUME IInv, NEW k \in 0..MaxResets, ResetDKG(k)
  PROVE  IInv'
<1>0. TypeOK /\ resetCount \in Nat /\ resetCount < MaxResets
  BY SetsAssumption DEF IInv, TypeOK, ResetDKG
<1>1. /\ Opened \in Records /\ Flags(Opened, NotarySet(Round + 1))
  BY Zenon, OpenedFresh DEF IInv
<1>2. /\ dkg' = ClearDKG(Opened, NotarySet(Round + 1))
      /\ dkgRound' = Round + 1 /\ resetCount' = resetCount + 1
      /\ crs' = resetCount + 1 /\ running' = {} /\ skipped' = {}
      /\ signer' = signer
      /\ fined' = fined \union FailStop(Opened, Round + 1, NackThreshold(NextSize))
  BY Zenon DEF ResetDKG, ResetSet
<1>3. /\ dkg'.mpks = {} /\ dkg'.complaints = {}
      /\ dkg'.nReady = 0 /\ dkg'.nFinal = 0 /\ dkg'.nSuccess = 0
      /\ dkg'.ready = {} /\ dkg'.final = {} /\ dkg'.success = {}
  BY <1>1, <1>2, Cleared DEF Flags
<1>4. dkg' \in Records
  BY Zenon, <1>2, <1>3 DEF ClearDKG, Records
<1>5. fined' \subseteq Node
  <2>1. FailStop(Opened, Round + 1, NackThreshold(NextSize)) \subseteq Node
    BY Zenon, <1>0, NotaryNodes DEF FailStop
  <2> QED  BY Zenon, <1>0, <1>2, <2>1 DEF TypeOK
<1>6. TypeOK'
  BY <1>0, <1>2, <1>4, <1>5, SetsAssumption DEF TypeOK, NoCRS
<1>7. Flags(dkg, NotarySet(dkgRound))'
  BY Zenon, <1>3, FS_EmptySet DEF Flags
<1>8. Dated(dkg, Attempt)'
  BY Zenon, <1>3 DEF Dated
<1>9. KeysInv'
  <2>1. \A n \in Node : signer[n].reset \in Int /\ signer[n].reset <= resetCount
    BY <1>0 DEF TypeOK, IInv, KeysInv
  <2>2. \A n \in Node : signer'[n].reset < resetCount'
    BY <1>0, <1>2, <2>1
  <2>3. \A n \in Node : signer'[n].reset <= resetCount' /\ signer'[n].reset # resetCount'
    BY <1>0, <1>2, <2>1
  <2> QED  BY <1>3, <2>3 DEF KeysInv
<1> QED  BY Zenon, <1>6, <1>7, <1>8, <1>9 DEF IInv

LEMMA RunDKGStep ==
  ASSUME IInv, NEW n \in Node, RunDKG(n)
  PROVE  IInv'
<1>1. TypeOK'
  BY Zenon DEF IInv, TypeOK, RunDKG, contract
<1>2. /\ dkg' = dkg /\ dkgRound' = dkgRound /\ resetCount' = resetCount
      /\ crs' = crs /\ signer' = signer
  BY Zenon DEF RunDKG, contract
<1>3. (Flags(dkg, NotarySet(dkgRound)) /\ Dated(dkg, Attempt))'
  BY Zenon, <1>2 DEF IInv, Flags, Dated, NotarySet, Attempt, DKGStarted
<1>4. KeysInv'
  BY Zenon, <1>2 DEF IInv, KeysInv, IsDKGFinal, DKGStarted
<1> QED  BY Zenon, <1>1, <1>3, <1>4 DEF IInv

LEMMA PhaseNineStep ==
  ASSUME IInv, NEW n \in Node, RunDKGPhaseNine(n)
  PROVE  IInv'
<1> DEFINE q == QualifyNodes(dkg, Threshold(NextSize))
           key == [reset |-> resetCount, qual |-> q]
<1>0. TypeOK
  BY Zenon DEF IInv
<1>1. /\ dkg' = dkg /\ dkgRound' = dkgRound /\ resetCount' = resetCount
      /\ crs' = crs /\ signer' = [signer EXCEPT ![n] = key]
      /\ fined' = fined /\ running' = running /\ skipped' = skipped
      /\ IsDKGFinal
  BY Zenon DEF RunDKGPhaseNine, contract
<1>2. q \subseteq Node
  BY <1>0 DEF TypeOK, Records, QualifyNodes, Members
<1>3. TypeOK'
  BY SMTT(30), <1>0, <1>1, <1>2 DEF TypeOK
<1>4. (Flags(dkg, NotarySet(dkgRound)) /\ Dated(dkg, Attempt))'
  BY Zenon, <1>1 DEF IInv, Flags, Dated, NotarySet, Attempt, DKGStarted
<1>5. IsDKGFinal' /\ DKGStarted' /\ DKGStarted
  BY Zenon, <1>1 DEF IsDKGFinal, DKGStarted
<1>6. QualifyNodes(dkg, Threshold(NextSize))' = q
  BY Zenon, <1>1
<1>7. \A m \in Node : signer'[m] = IF m = n THEN key ELSE signer[m]
  BY Zenon, <1>0, <1>1 DEF TypeOK
<1>8. resetCount <= resetCount /\ dkg.success \subseteq Node
  BY <1>0, SetsAssumption DEF TypeOK, Records
<1> HIDE DEF q
<1>9. KeysInv'
  BY <1>1, <1>5, <1>6, <1>7, <1>8 DEF IInv, KeysInv
<1> QED  BY Zenon, <1>3, <1>4, <1>9 DEF IInv

LEMMA StepIInv == IInv /\ [Next]_vars => IInv'
<1> SUFFICES ASSUME IInv, [Next]_vars PROVE IInv'
  BY ZenonT(20)
<1>1. CASE UNCHANGED vars
  BY Zenon, <1>1 DEF vars, contract, nodes, IInv, TypeOK, Flags, Dated, KeysInv, NotarySet,
              Attempt, DKGStarted, IsDKGFinal
<1>2. CASE Next
  BY Zenon, <1>2, ProposeCRSStep, ResetStep, MasterPublicKeyStep, MPKReadyStep, FinalizeStep,
     SuccessStep, ComplaintStep, RunDKGStep, PhaseNineStep DEF Next
<1> QED  BY Zenon, <1>1, <1>2

-----------------------------------------------------------------------------
\* The counters of ready, final and success are the numbers of set flags, all
\* of nodes of the notary set at work, through every clearing and reset.
THEOREM CountsStayExact == Spec => []CountsExact
<1>1. IInv => CountsExact
  BY Zenon DEF IInv, CountsExact, Flags
<1> QED  BY <1>1, InitIInv, StepIInv, PTL DEF Spec

\* The keys and complaints on record are those of the current attempt, one key
\* per node, and every complaint is about a node with a key.
THEOREM RecordsOfOneAttempt == Spec => []OneAttempt
<1>1. IInv => OneAttempt
  <2> SUFFICES ASSUME IInv PROVE OneAttempt
    BY Zenon
  <2>1. Dated(dkg, Attempt) /\ TypeOK
    BY Zenon DEF IInv
  <2>2. Cardinality(dkg.mpks) = Cardinality(Members(dkg))
    BY Zenon, <2>1, OneKeyEach DEF Dated
  <2> QED  BY Zenon, <2>1, <2>2 DEF OneAttempt, Dated, Attempt
<1> QED  BY <1>1, InitIInv, StepIInv, PTL DEF Spec

\* A node counted as a success holds a share of the key the records give.
THEOREM SuccessIsOfTheKey == Spec => []SuccessMeansKey
<1>1. IInv => SuccessMeansKey
  <2> SUFFICES ASSUME IInv, CurSize <= NextSize, DKGStarted, NEW n \in dkg.success
               PROVE  signer[n] = [reset |-> resetCount,
                                   qual  |-> QualifyNodes(dkg, Threshold(NextSize))]
    BY Zenon DEF SuccessMeansKey
  <2>1. n \in Node /\ signer[n] \in [reset : -1..MaxResets, qual : SUBSET Node]
    BY Zenon DEF IInv, TypeOK, Records
  <2>2. /\ signer[n].reset = resetCount
        /\ signer[n].qual = QualifyNodes(dkg, Threshold(NextSize))
    BY Zenon, <2>1 DEF IInv, KeysInv
  <2> QED  BY Zenon, <2>1, <2>2
<1> QED  BY <1>1, InitIInv, StepIInv, PTL DEF Spec

\* A DKG once valid stays valid: keys and complaints are closed, the counters
\* only grow, and resetDKG refuses.
THEOREM ValidDKGStays == Spec => ValidStays
<1>1. IInv /\ [Next]_vars => (CurSize <= NextSize /\ IsDKGValid => IsDKGValid')
  <2> SUFFICES ASSUME IInv, [Next]_vars, CurSize <= NextSize, IsDKGValid
               PROVE  IsDKGValid'
    BY Zenon
  <2> DEFINE T == Threshold(NextSize)
             V == ValidThreshold(NextSize)
  <2>0. /\ DKGStarted /\ IsDKGFinal /\ IsDKGSuccess /\ Opened = dkg
        /\ dkg \in Records /\ dkg.nFinal \in Nat /\ dkg.nSuccess \in Nat
        /\ T \in Nat /\ V \in Nat
    <3>1. DKGStarted /\ IsDKGFinal /\ IsDKGSuccess
      BY Zenon DEF IsDKGValid, IsDKGFinal
    <3>2. Opened = dkg
      BY Zenon, <3>1, OpenedFresh DEF IInv
    <3>3. dkg \in Records /\ dkg.nFinal \in Nat /\ dkg.nSuccess \in Nat
      BY Zenon DEF IInv, TypeOK, Records
    <3>4. T \in Nat
      BY Zenon, ThresholdGrows, SetsAssumption
    <3>5. V \in Nat
      BY SetsAssumption DEF ValidThreshold
    <3> QED  BY Zenon, <3>1, <3>2, <3>3, <3>4, <3>5
  <2>1. ASSUME dkgRound' = dkgRound, dkg'.mpks = dkg.mpks,
               dkg'.complaints = dkg.complaints,
               dkg'.nFinal >= dkg.nFinal, dkg'.nSuccess >= dkg.nSuccess,
               dkg'.nFinal \in Nat, dkg'.nSuccess \in Nat
        PROVE  IsDKGValid'
    <3>1. /\ QualifyNodes(dkg', T) = QualifyNodes(dkg, T)
          /\ Qualifies(dkg', T) = Qualifies(dkg, T)
      BY Zenon, <2>1, QualifySame
    <3>2. IsDKGFinal' /\ IsDKGSuccess'
      BY <2>0, <2>1 DEF IsDKGFinal, IsDKGSuccess, DKGStarted
    <3> QED  BY Zenon, <3>1, <3>2 DEF IsDKGValid
  <2>2. CASE dkg' = dkg /\ dkgRound' = dkgRound
    BY <2>0, <2>1, <2>2
  <2>3. ASSUME NEW n \in Node, NEW k \in 0..MaxResets,
               AddDKGMPKReady(n, k) \/ AddDKGFinalize(n, k) \/ AddDKGSuccess(n, k)
        PROVE  IsDKGValid'
    <3>1. /\ dkgRound' = dkgRound /\ dkg'.mpks = dkg.mpks
          /\ dkg'.complaints = dkg.complaints
          /\ dkg'.nFinal = dkg.nFinal \/ dkg'.nFinal = dkg.nFinal + 1
          /\ dkg'.nSuccess = dkg.nSuccess \/ dkg'.nSuccess = dkg.nSuccess + 1
      BY ZenonT(20), <2>0, <2>3 DEF AddDKGMPKReady, AddDKGFinalize, AddDKGSuccess, Records
    <3> QED  BY <2>0, <2>1, <3>1
  <2>4. ASSUME NEW k \in 0..MaxResets PROVE ~ResetDKG(k)
    <3>1. /\ Qualifies(dkg, T) /\ dkg.nFinal >= T /\ dkg.nSuccess >= V
          /\ Cardinality(QualifyNodes(dkg, T)) >= V
      BY Zenon DEF IsDKGValid, IsDKGFinal, IsDKGSuccess
    <3>2. QualifyNodes(dkg, T) \subseteq Node
      BY Zenon, <2>0 DEF Records, QualifyNodes, Members
    <3>3. Cardinality(QualifyNodes(dkg, T)) \in Nat
      BY Zenon, <3>2, FS_Subset, FS_CardinalityType, SetsAssumption
    <3> HIDE DEF T, V
    <3>4. ~(Cardinality(QualifyNodes(dkg, T)) < V) /\ ~(dkg.nFinal < T)
          /\ ~(dkg.nSuccess < V)
      BY <2>0, <3>1, <3>3
    <3>5. ~DKGFailed(dkg)
      BY Zenon, <3>1, <3>4 DEF DKGFailed, T, V
    <3> QED  BY Zenon, <2>0, <3>5 DEF ResetDKG
  <2>5. ASSUME NEW n \in Node, RunDKG(n) \/ RunDKGPhaseNine(n)
        PROVE  dkg' = dkg /\ dkgRound' = dkgRound
    BY Zenon, <2>5 DEF RunDKG, RunDKGPhaseNine, contract
  <2>6. CASE UNCHANGED vars
    BY Zenon, <2>2, <2>6 DEF vars, contract
  <2>7. CASE ProposeCRS
    BY Zenon, <2>2, <2>7 DEF ProposeCRS
  <2> QED  BY Zenon, <2>0, <2>2, <2>3, <2>4, <2>5, <2>6, <2>7, KeysClosed, ComplaintsClosed
              DEF Next
<1> QED  BY <1>1, InitIInv, StepIInv, PTL DEF Spec, ValidStays
=============================================================================
