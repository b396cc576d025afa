------------------------ MODULE MessageCache_proofs ------------------------
(***************************************************************************)
(* Proofs about MessageCache, for any size, votes, blocks and number of    *)
(* handlers.  The votes and the blocks share no state: each part has its   *)
(* own inductive invariant.                                                *)
(***************************************************************************)
EXTENDS MessageCache, FiniteSetTheorems, TLAPS

-----------------------------------------------------------------------------
(* Votes *)

\* The votes of a map from positions to votes.
VotesOf(f) == UNION {f[pos] : pos \in DOMAIN f}

\* The list has every position of the map once.
Lists(s, f) ==
    /\ s \in Seq(Positions)
    /\ {s[i] : i \in 1..Len(s)} = DOMAIN f
    /\ \A i, j \in 1..Len(s) : s[i] = s[j] => i = j

\* Each vote is in the map under its position; no position is empty.
Filed(f) ==
    /\ DOMAIN f \subseteq Positions
    /\ \A pos \in DOMAIN f :
          /\ f[pos] \subseteq Votes /\ f[pos] # {}
          /\ \A vote \in f[pos] : Position[vote] = pos
    /\ IsFiniteSet(VotesOf(f))

VotesInv ==
    /\ Filed(voteCache)
    /\ Lists(votePosition, voteCache)
    /\ voteSize = Cardinality(VotesOf(voteCache))
    /\ voteSize <= Size

\* A full cache has an oldest position to drop.
LEMMA FullHasHead ==
  ASSUME VotesInv, Full
  PROVE  /\ Len(votePosition) \in Nat /\ Len(votePosition) > 0
         /\ Head(votePosition) = votePosition[1]
         /\ Head(votePosition) \in DOMAIN voteCache
<1>1. VotesOf(voteCache) # {}
  BY FS_EmptySet, CacheAssumption DEF VotesInv, Full
<1>2. PICK pos \in DOMAIN voteCache : TRUE
  BY Zenon, <1>1 DEF VotesOf
<1>3. PICK i \in 1..Len(votePosition) : votePosition[i] = pos
  BY Zenon, <1>2 DEF VotesInv, Lists
<1>4. votePosition \in Seq(Positions) /\ Len(votePosition) \in Nat
  BY DEF VotesInv, Lists
<1>5. Len(votePosition) > 0
  BY <1>3, <1>4
<1>6. Head(votePosition) = votePosition[1]
  BY <1>4, <1>5
<1>7. 1 \in 1..Len(votePosition)
  BY <1>4, <1>5
<1> QED  BY Zenon, <1>4, <1>5, <1>6, <1>7 DEF VotesInv, Lists

\* What is kept is filed and listed, is counted by what remains of voteSize,
\* and leaves room for one vote.
LEMMA KeptFits ==
  ASSUME VotesInv
  PROVE  /\ Filed(Kept) /\ Lists(KeptPosition, Kept)
         /\ Cardinality(VotesOf(Kept)) \in Nat
         /\ voteSize - Evicted = Cardinality(VotesOf(Kept))
         /\ voteSize - Evicted < Size
<1>0. /\ IsFiniteSet(VotesOf(voteCache))
      /\ voteSize = Cardinality(VotesOf(voteCache)) /\ voteSize \in Nat
      /\ Size \in Nat /\ voteSize <= Size
  BY Zenon, FS_CardinalityType, CacheAssumption DEF VotesInv, Filed
<1>1. CASE ~Full
  <2>1. Kept = voteCache /\ KeptPosition = votePosition /\ Evicted = 0
    BY Zenon, <1>1 DEF Kept, KeptPosition, Evicted
  <2> QED  BY <1>0, <1>1, <2>1 DEF VotesInv, Full
<1>2. CASE Full
  <2> DEFINE h == Head(votePosition)
             s == votePosition
  <2>1. /\ Len(s) \in Nat /\ Len(s) > 0 /\ h = s[1] /\ h \in DOMAIN voteCache
    BY Zenon, <1>2, FullHasHead
  <2>2. /\ Kept = Without(voteCache, h) /\ KeptPosition = Tail(s)
        /\ Evicted = Cardinality(voteCache[h])
    BY Zenon, <1>2 DEF Kept, KeptPosition, Evicted
  <2> HIDE DEF h
  <2>3. /\ DOMAIN Kept = DOMAIN voteCache \ {h}
        /\ \A pos \in DOMAIN Kept : Kept[pos] = voteCache[pos]
    BY Zenon, <2>2 DEF Without
  <2>4. VotesOf(Kept) = VotesOf(voteCache) \ voteCache[h]
    BY <2>1, <2>3 DEF VotesOf, VotesInv, Filed
  <2>5. /\ voteCache[h] \subseteq VotesOf(voteCache)
        /\ VotesOf(voteCache) \cap voteCache[h] = voteCache[h]
    BY Zenon, <2>1 DEF VotesOf
  <2>6. /\ IsFiniteSet(voteCache[h]) /\ Cardinality(voteCache[h]) \in Nat
        /\ Cardinality(voteCache[h]) # 0
    BY Zenon, <1>0, <2>1, <2>5, FS_Subset, FS_CardinalityType, FS_EmptySet
       DEF VotesInv, Filed
  <2>7. /\ IsFiniteSet(VotesOf(Kept))
        /\ Cardinality(VotesOf(Kept)) = voteSize - Cardinality(voteCache[h])
    BY ZenonT(20), <1>0, <2>4, <2>5, FS_Difference
  <2>8. Cardinality(VotesOf(Kept)) \in Nat
    BY Zenon, <2>7, FS_CardinalityType
  <2>9. Filed(Kept)
    BY Zenon, <2>3, <2>7 DEF Filed, VotesInv
  <2>10. Lists(Tail(s), Kept)
    <3>1. s \in Seq(Positions) /\ s # <<>>
      BY <2>1 DEF VotesInv, Lists
    <3>2. /\ Tail(s) \in Seq(Positions) /\ Len(Tail(s)) = Len(s) - 1
          /\ \A i \in 1..Len(Tail(s)) : Tail(s)[i] = s[i + 1]
      BY <2>1, <3>1
    <3>3. \A i, j \in 1..Len(s) : s[i] = s[j] => i = j
      BY Zenon DEF VotesInv, Lists
    <3>4. \A i, j \in 1..Len(Tail(s)) : Tail(s)[i] = Tail(s)[j] => i = j
      BY <2>1, <3>2, <3>3
    <3>5. {s[i] : i \in 1..Len(s)} = DOMAIN voteCache
      BY Zenon DEF VotesInv, Lists
    <3>6. ASSUME NEW i \in 1..Len(Tail(s))
          PROVE  Tail(s)[i] \in DOMAIN Kept
      <4>1. i + 1 \in 1..Len(s) /\ i + 1 # 1 /\ 1 \in 1..Len(s)
        BY <2>1, <3>2
      <4>2. s[i + 1] \in DOMAIN voteCache /\ s[i + 1] # h
        BY Zenon, <2>1, <3>3, <3>5, <4>1
      <4> QED  BY Zenon, <2>3, <3>2, <4>2
    <3>7. ASSUME NEW pos \in DOMAIN Kept
          PROVE  \E i \in 1..Len(Tail(s)) : Tail(s)[i] = pos
      <4>1. PICK i \in 1..Len(s) : s[i] = pos
        BY Zenon, <2>3, <3>5
      <4>2. i # 1
        BY Zenon, <2>1, <2>3, <4>1
      <4>3. i - 1 \in 1..Len(Tail(s)) /\ Tail(s)[i - 1] = s[i]
        BY <2>1, <3>2, <4>2
      <4> QED  BY Zenon, <4>1, <4>3
    <3>8. {Tail(s)[i] : i \in 1..Len(Tail(s))} = DOMAIN Kept
      BY ZenonT(20), <3>6, <3>7
    <3> QED  BY ZenonT(20), <3>2, <3>4, <3>8 DEF Lists
  <2> QED  BY <1>0, <2>2, <2>6, <2>7, <2>8, <2>9, <2>10
<1> QED  BY Zenon, <1>1, <1>2

\* addVote keeps the map, the list and the counter in step.
LEMMA AddVoteInv ==
  ASSUME VotesInv, NEW vote \in Votes, AddVote(vote)
  PROVE  VotesInv'
<1> DEFINE pos == Position[vote]
           cached == IF pos \in DOMAIN Kept THEN Kept[pos] ELSE {}
           K == Kept
           KP == KeptPosition
<1>1. /\ voteCache' = Put(K, pos, cached \cup {vote})
      /\ votePosition' = IF pos \in DOMAIN K THEN KP ELSE Append(KP, pos)
      /\ voteSize' = voteSize - Evicted + (IF vote \in cached THEN 0 ELSE 1)
  BY Zenon DEF AddVote
<1>2. /\ Filed(K) /\ Lists(KP, K) /\ Cardinality(VotesOf(K)) \in Nat
      /\ voteSize - Evicted = Cardinality(VotesOf(K))
      /\ voteSize - Evicted < Size
  BY Zenon, KeptFits
<1>3. cached = (IF pos \in DOMAIN K THEN K[pos] ELSE {}) /\ pos \in Positions
  BY Zenon DEF Positions
<1> HIDE DEF K, KP, cached, pos
<1>4. /\ DOMAIN voteCache' = DOMAIN K \cup {pos}
      /\ voteCache'[pos] = cached \cup {vote}
      /\ \A p \in DOMAIN K : p # pos => voteCache'[p] = K[p]
  BY Zenon, <1>1 DEF Put
<1>5. VotesOf(voteCache') = VotesOf(K) \cup {vote}
  BY <1>3, <1>4 DEF VotesOf
<1>6. vote \in cached <=> vote \in VotesOf(K)
  <2>1. pos = Position[vote]
    BY Zenon DEF pos
  <2> QED  BY <1>2, <1>3, <2>1 DEF VotesOf, Filed
<1>7. /\ IsFiniteSet(VotesOf(voteCache'))
      /\ Cardinality(VotesOf(voteCache')) = voteSize'
  <2>1. /\ IsFiniteSet(VotesOf(K) \cup {vote})
        /\ Cardinality(VotesOf(K) \cup {vote}) =
             IF vote \in VotesOf(K) THEN Cardinality(VotesOf(K))
             ELSE Cardinality(VotesOf(K)) + 1
    BY Zenon, <1>2, FS_AddElement DEF Filed
  <2>2. voteSize' = IF vote \in VotesOf(K) THEN Cardinality(VotesOf(K))
                    ELSE Cardinality(VotesOf(K)) + 1
    BY <1>1, <1>2, <1>6
  <2> QED  BY Zenon, <1>5, <2>1, <2>2
<1>8. voteSize' <= Size
  BY <1>1, <1>2, CacheAssumption
<1>9. Filed(voteCache')
  <2>1. pos = Position[vote]
    BY Zenon DEF pos
  <2> QED  BY <1>2, <1>3, <1>4, <1>7, <2>1 DEF Filed
<1>10. Lists(votePosition', voteCache')
  <2>1. CASE pos \in DOMAIN K
    <3>1. DOMAIN voteCache' = DOMAIN K /\ votePosition' = KP
      BY Zenon, <1>1, <1>4, <2>1
    <3> QED  BY <1>2, <3>1 DEF Lists
  <2>2. CASE pos \notin DOMAIN K
    <3>1. /\ votePosition' = Append(KP, pos) /\ KP \in Seq(Positions)
          /\ Len(KP) \in Nat
      BY <1>1, <1>2, <2>2 DEF Lists
    <3>2. /\ Append(KP, pos) \in Seq(Positions)
          /\ Len(Append(KP, pos)) = Len(KP) + 1
          /\ Append(KP, pos)[Len(KP) + 1] = pos
          /\ \A i \in 1..Len(KP) : Append(KP, pos)[i] = KP[i]
      BY <1>3, <3>1
    <3>3. /\ {KP[i] : i \in 1..Len(KP)} = DOMAIN K
          /\ \A i, j \in 1..Len(KP) : KP[i] = KP[j] => i = j
      BY Zenon, <1>2 DEF Lists
    <3>4. \A i \in 1..(Len(KP) + 1) : i = Len(KP) + 1 \/ i \in 1..Len(KP)
      BY <3>1
    <3>5. \A i \in 1..Len(KP) : KP[i] # pos
      BY Zenon, <2>2, <3>3
    <3>6. \A i, j \in 1..(Len(KP) + 1) :
            Append(KP, pos)[i] = Append(KP, pos)[j] => i = j
      BY Zenon, <3>2, <3>3, <3>4, <3>5
    <3>7. {Append(KP, pos)[i] : i \in 1..(Len(KP) + 1)} = DOMAIN K \cup {pos}
      BY <3>1, <3>2, <3>3, <3>4
    <3> QED  BY <1>4, <3>1, <3>2, <3>6, <3>7 DEF Lists
  <2> QED  BY Zenon, <2>1, <2>2
<1> QED  BY Zenon, <1>7, <1>8, <1>9, <1>10 DEF VotesInv

-----------------------------------------------------------------------------
(* Blocks *)

\* Both maps are within the size, a finalized block is filed under its own
\* position, and if it is cached by its hash, it has its randomness.
CacheOK(c) ==
    /\ c = [blocks |-> c.blocks, finalized |-> c.finalized]
    /\ DOMAIN c.blocks \subseteq Hashes /\ IsFiniteSet(DOMAIN c.blocks)
    /\ \A hash \in DOMAIN c.blocks : c.blocks[hash] \in BOOLEAN
    /\ Cardinality(DOMAIN c.blocks) <= Size
    /\ DOMAIN c.finalized \subseteq Positions /\ IsFiniteSet(DOMAIN c.finalized)
    /\ Cardinality(DOMAIN c.finalized) <= Size
    /\ \A pos \in DOMAIN c.finalized :
          /\ c.finalized[pos] \in Hashes /\ Position[c.finalized[pos]] = pos
          /\ c.finalized[pos] \in DOMAIN c.blocks => c.blocks[c.finalized[pos]]

HandlingType == [Handlers -> [step : {"idle"}]
                             \cup [step : {"found", "set"}, hash : Hashes]]

BlocksInv ==
    /\ CacheOK(Cache)
    /\ receiveCoreMessage \in BOOLEAN
    /\ handling \in HandlingType

\* A map that made room has an entry less than its size, and lost at most one.
LEMMA RoomFits ==
  ASSUME NEW f, IsFiniteSet(DOMAIN f), Cardinality(DOMAIN f) <= Size,
         NEW g \in MakeRoom(f)
  PROVE  /\ DOMAIN g \subseteq DOMAIN f
         /\ \A x \in DOMAIN g : g[x] = f[x]
         /\ IsFiniteSet(DOMAIN g) /\ Cardinality(DOMAIN g) \in Nat
         /\ Cardinality(DOMAIN g) < Size
<1>1. Cardinality(DOMAIN f) \in Nat /\ Size \in Nat
  BY Zenon, FS_CardinalityType, CacheAssumption
<1>2. CASE Cardinality(DOMAIN f) >= Size
  <2>1. PICK k \in DOMAIN f : g = Without(f, k)
    BY Zenon, <1>2 DEF MakeRoom
  <2>2. DOMAIN g = DOMAIN f \ {k} /\ \A x \in DOMAIN g : g[x] = f[x]
    BY Zenon, <2>1 DEF Without
  <2>3. /\ IsFiniteSet(DOMAIN f \ {k})
        /\ Cardinality(DOMAIN f \ {k}) = Cardinality(DOMAIN f) - 1
    BY Zenon, <2>1, FS_RemoveElement
  <2>4. Cardinality(DOMAIN g) \in Nat
    BY Zenon, <2>2, <2>3, FS_CardinalityType
  <2> QED  BY <1>1, <2>2, <2>3, <2>4
<1>3. CASE ~(Cardinality(DOMAIN f) >= Size)
  BY <1>1, <1>3 DEF MakeRoom
<1> QED  BY Zenon, <1>2, <1>3

\* A map that made room stays within its size when it gets an entry.
LEMMA PutFits ==
  ASSUME NEW f, IsFiniteSet(DOMAIN f), Cardinality(DOMAIN f) <= Size,
         NEW g \in MakeRoom(f), NEW k, NEW v
  PROVE  /\ DOMAIN Put(g, k, v) \subseteq DOMAIN f \cup {k}
         /\ k \in DOMAIN Put(g, k, v) /\ Put(g, k, v)[k] = v
         /\ \A x \in DOMAIN Put(g, k, v) :
              x # k => x \in DOMAIN f /\ Put(g, k, v)[x] = f[x]
         /\ IsFiniteSet(DOMAIN Put(g, k, v))
         /\ Cardinality(DOMAIN Put(g, k, v)) <= Size
<1>1. /\ DOMAIN g \subseteq DOMAIN f
      /\ \A x \in DOMAIN g : g[x] = f[x]
      /\ IsFiniteSet(DOMAIN g) /\ Cardinality(DOMAIN g) \in Nat
      /\ Cardinality(DOMAIN g) < Size
  BY Zenon, RoomFits
<1>2. DOMAIN Put(g, k, v) = DOMAIN g \cup {k}
  BY Zenon DEF Put
<1>3. /\ IsFiniteSet(DOMAIN g \cup {k})
      /\ \/ Cardinality(DOMAIN g \cup {k}) = Cardinality(DOMAIN g)
         \/ Cardinality(DOMAIN g \cup {k}) = Cardinality(DOMAIN g) + 1
  BY Zenon, <1>1, FS_AddElement
<1>4. Cardinality(DOMAIN Put(g, k, v)) <= Size
  BY <1>1, <1>2, <1>3, CacheAssumption
<1>5. /\ Put(g, k, v)[k] = v
      /\ \A x \in DOMAIN Put(g, k, v) :
              x # k => x \in DOMAIN f /\ Put(g, k, v)[x] = f[x]
  BY Zenon, <1>1 DEF Put
<1> QED  BY Zenon, <1>1, <1>2, <1>3, <1>4, <1>5

\* addBlock keeps the two maps right: it does not touch a block whose
\* position has a finalized one.
LEMMA AddBlockOK ==
  ASSUME NEW c, CacheOK(c), NEW hash \in Hashes, NEW d \in AddBlockNoLock(c, hash)
  PROVE  CacheOK(d)
<1>1. CASE Position[hash] \in DOMAIN c.finalized
  BY Zenon, <1>1 DEF AddBlockNoLock
<1>2. CASE Position[hash] \notin DOMAIN c.finalized
  <2>1. PICK f \in MakeRoom(c.blocks) : d = [c EXCEPT !.blocks = Put(f, hash, FALSE)]
    BY ZenonT(20), <1>2 DEF AddBlockNoLock
  <2> DEFINE b == Put(f, hash, FALSE)
  <2>2. d = [blocks |-> b, finalized |-> c.finalized]
    BY ZenonT(20), <2>1 DEF CacheOK
  <2>3. /\ DOMAIN b \subseteq DOMAIN c.blocks \cup {hash}
        /\ hash \in DOMAIN b /\ b[hash] = FALSE
        /\ \A x \in DOMAIN b : x # hash => x \in DOMAIN c.blocks /\ b[x] = c.blocks[x]
        /\ IsFiniteSet(DOMAIN b) /\ Cardinality(DOMAIN b) <= Size
    BY ZenonT(20), PutFits DEF CacheOK
  <2> HIDE DEF b
  <2>4. \A pos \in DOMAIN c.finalized : c.finalized[pos] # hash
    BY <1>2 DEF CacheOK
  <2>5. d.blocks = b /\ d.finalized = c.finalized
    BY Zenon, <2>2
  <2>6. \A x \in DOMAIN b : b[x] \in BOOLEAN
    BY ZenonT(20), <2>3 DEF CacheOK
  <2>7. \A pos \in DOMAIN c.finalized :
          c.finalized[pos] \in DOMAIN b => b[c.finalized[pos]]
    BY Zenon, <2>3, <2>4 DEF CacheOK
  <2> QED  BY Zenon, <2>2, <2>3, <2>5, <2>6, <2>7 DEF CacheOK
<1> QED  BY Zenon, <1>1, <1>2

\* addFinalizedBlock keeps the two maps right.
LEMMA AddFinalizedBlockOK ==
  ASSUME NEW c, CacheOK(c), NEW hash \in Hashes,
         NEW d \in AddFinalizedBlockNoLock(c, hash)
  PROVE  CacheOK(d)
<1>1. PICK f \in MakeRoom(c.blocks), g \in MakeRoom(c.finalized) :
        d = [blocks |-> Put(f, hash, TRUE), finalized |-> Put(g, Position[hash], hash)]
  BY ZenonT(20) DEF AddFinalizedBlockNoLock
<1> DEFINE b == Put(f, hash, TRUE)
           p == Position[hash]
           e == Put(g, p, hash)
<1>2. d = [blocks |-> b, finalized |-> e] /\ p = Position[hash] /\ p \in Positions
  BY Zenon, <1>1 DEF Positions
<1>3. /\ DOMAIN b \subseteq DOMAIN c.blocks \cup {hash}
      /\ hash \in DOMAIN b /\ b[hash] = TRUE
      /\ \A x \in DOMAIN b : x # hash => x \in DOMAIN c.blocks /\ b[x] = c.blocks[x]
      /\ IsFiniteSet(DOMAIN b) /\ Cardinality(DOMAIN b) <= Size
  BY ZenonT(20), PutFits DEF CacheOK
<1>4. /\ DOMAIN e \subseteq DOMAIN c.finalized \cup {p}
      /\ p \in DOMAIN e /\ e[p] = hash
      /\ \A x \in DOMAIN e : x # p => x \in DOMAIN c.finalized /\ e[x] = c.finalized[x]
      /\ IsFiniteSet(DOMAIN e) /\ Cardinality(DOMAIN e) <= Size
  BY Zenon, PutFits DEF CacheOK
<1> HIDE DEF b, p, e
<1>5. d.blocks = b /\ d.finalized = e
  BY Zenon, <1>2
<1>6. \A x \in DOMAIN b : b[x] \in BOOLEAN
  BY ZenonT(20), <1>3 DEF CacheOK
<1>7. \A pos \in DOMAIN e :
        /\ e[pos] \in Hashes /\ Position[e[pos]] = pos
        /\ e[pos] \in DOMAIN b => b[e[pos]]
  BY <1>2, <1>3, <1>4 DEF CacheOK
<1> QED  BY <1>2, <1>3, <1>4, <1>5, <1>6, <1>7 DEF CacheOK

\* addBlocks of two blocks keeps the two maps right.
LEMMA AddBlocksOK ==
  ASSUME NEW c, CacheOK(c),
         NEW b1 \in [hash : Hashes, finalized : BOOLEAN],
         NEW b2 \in [hash : Hashes, finalized : BOOLEAN],
         NEW d \in AddBlocks(c, b1, b2)
  PROVE  CacheOK(d)
<1>1. PICK m \in Add(c, b1) : d \in Add(m, b2)
  BY Zenon DEF AddBlocks
<1>2. CacheOK(m)
  BY Zenon, <1>1, AddBlockOK, AddFinalizedBlockOK DEF Add
<1> QED  BY Zenon, <1>1, <1>2, AddBlockOK, AddFinalizedBlockOK DEF Add

\* A step that replaces the two maps by right ones leaves them right.
LEMMA ReplaceOK ==
  ASSUME NEW caches, \A c \in caches : CacheOK(c), Replace(caches)
  PROVE  CacheOK(Cache)'
<1>1. PICK c \in caches : blockCache' = c.blocks /\ finalizedBlockCache' = c.finalized
  BY Zenon DEF Replace
<1>2. Cache' = c
  BY Zenon, <1>1 DEF Cache, CacheOK
<1> QED  BY <1>1, <1>2 DEF CacheOK, Cache

-----------------------------------------------------------------------------
LEMMA InitInv == Init => VotesInv /\ BlocksInv
<1> SUFFICES ASSUME Init PROVE VotesInv /\ BlocksInv
  BY Zenon
<1>1. /\ voteCache = <<>> /\ votePosition = <<>> /\ voteSize = 0
      /\ blockCache = <<>> /\ finalizedBlockCache = <<>>
      /\ receiveCoreMessage = FALSE /\ handling = [h \in Handlers |-> Idle]
  BY Zenon DEF Init
<1>2. DOMAIN <<>> = {} /\ Len(<<>>) = 0 /\ 1..0 = {} /\ <<>> \in Seq(Positions)
  OBVIOUS
<1>3. IsFiniteSet({}) /\ Cardinality({}) = 0 /\ 0 <= Size
  BY FS_EmptySet, CacheAssumption
<1>4. VotesOf(<<>>) = {}
  BY Zenon, <1>2 DEF VotesOf
<1>5. VotesInv
  BY ZenonT(20), <1>1, <1>2, <1>3, <1>4 DEF VotesInv, Filed, Lists
<1>6. CacheOK(Cache)
  BY Zenon, <1>1, <1>2, <1>3 DEF CacheOK, Cache
<1>7. handling \in HandlingType
  BY Zenon, <1>1 DEF HandlingType, Idle
<1> QED  BY ZenonT(20), <1>1, <1>5, <1>6, <1>7 DEF BlocksInv

LEMMA StepVotesInv == VotesInv /\ [Next]_vars => VotesInv'
<1> SUFFICES ASSUME VotesInv, [Next]_vars PROVE VotesInv'
  BY Zenon
<1>1. CASE UNCHANGED voteVars
  BY <1>1 DEF voteVars, VotesInv, Filed, Lists, VotesOf
<1>2. ASSUME NEW vote \in Votes, HandleVote(vote) \/ BroadcastVote(vote)
      PROVE  VotesInv'
  BY Zenon, <1>2, AddVoteInv DEF HandleVote, BroadcastVote
<1>3. \/ UNCHANGED voteVars
      \/ \E vote \in Votes : HandleVote(vote) \/ BroadcastVote(vote)
  BY Zenon DEF Next, vars, HandleCoreBlocks, BroadcastCoreBlock, BroadcastFinalizedBlock,
         LookUp, SetRandomness, AddFinalizedBlock, SetReceiveCoreMessage
<1> QED  BY Zenon, <1>1, <1>2, <1>3

LEMMA StepBlocksInv == BlocksInv /\ [Next]_vars => BlocksInv'
<1> SUFFICES ASSUME BlocksInv, [Next]_vars PROVE BlocksInv'
  BY Zenon
<1>0. CacheOK(Cache) /\ receiveCoreMessage \in BOOLEAN /\ handling \in HandlingType
  BY Zenon DEF BlocksInv
<1>1. ASSUME UNCHANGED blockVars PROVE CacheOK(Cache)'
  BY Zenon, <1>0, <1>1 DEF blockVars, CacheOK, Cache
<1>2. ASSUME NEW vote \in Votes, HandleVote(vote) \/ BroadcastVote(vote)
      PROVE  BlocksInv'
  BY Zenon, <1>0, <1>1, <1>2 DEF HandleVote, BroadcastVote, BlocksInv
<1>3. ASSUME NEW b1 \in [hash : Hashes, finalized : BOOLEAN],
             NEW b2 \in [hash : Hashes, finalized : BOOLEAN],
             HandleCoreBlocks(b1, b2)
      PROVE  BlocksInv'
  <2>1. \A c \in AddBlocks(Cache, b1, b2) : CacheOK(c)
    BY Zenon, <1>0, AddBlocksOK
  <2>2. CacheOK(Cache)'
    BY Zenon, <1>3, <2>1, ReplaceOK DEF HandleCoreBlocks
  <2> QED  BY Zenon, <1>0, <1>3, <2>2 DEF HandleCoreBlocks, BlocksInv
<1>4. ASSUME NEW hash \in Hashes, BroadcastCoreBlock(hash)
      PROVE  BlocksInv'
  <2>1. \A c \in AddBlockNoLock(Cache, hash) : CacheOK(c)
    BY Zenon, <1>0, AddBlockOK
  <2>2. CacheOK(Cache)'
    BY Zenon, <1>4, <2>1, ReplaceOK DEF BroadcastCoreBlock
  <2> QED  BY Zenon, <1>0, <1>4, <2>2 DEF BroadcastCoreBlock, BlocksInv
<1>5. ASSUME NEW hash \in Hashes, BroadcastFinalizedBlock(hash)
      PROVE  BlocksInv'
  <2>1. \A c \in AddFinalizedBlockNoLock(Cache, hash) : CacheOK(c)
    BY Zenon, <1>0, AddFinalizedBlockOK
  <2>2. CacheOK(Cache)'
    BY Zenon, <1>5, <2>1, ReplaceOK DEF BroadcastFinalizedBlock
  <2> QED  BY Zenon, <1>0, <1>5, <2>2 DEF BroadcastFinalizedBlock, BlocksInv
<1>6. ASSUME NEW h \in Handlers, NEW hash \in Hashes, LookUp(h, hash)
      PROVE  BlocksInv'
  <2>1. handling' \in HandlingType
    BY Zenon, <1>0, <1>6 DEF LookUp, HandlingType
  <2> QED  BY Zenon, <1>0, <1>1, <1>6, <2>1 DEF LookUp, BlocksInv
<1>7. ASSUME NEW h \in Handlers, SetRandomness(h)
      PROVE  BlocksInv'
  <2> DEFINE x == handling[h].hash
  <2>1. handling[h] \in [step : {"found", "set"}, hash : Hashes]
    BY Zenon, <1>0, <1>7 DEF SetRandomness, HandlingType
  <2>2. handling' \in HandlingType
    BY Zenon, <1>0, <1>7, <2>1 DEF SetRandomness, HandlingType
  <2>3. /\ DOMAIN blockCache' = DOMAIN blockCache
        /\ \A y \in DOMAIN blockCache :
              blockCache'[y] = blockCache[y] \/ blockCache'[y] = TRUE
        /\ finalizedBlockCache' = finalizedBlockCache
    BY Zenon, <1>7 DEF SetRandomness
  <2>4. CacheOK(Cache)'
    BY ZenonT(20), <1>0, <2>3 DEF CacheOK, Cache
  <2> QED  BY Zenon, <1>0, <1>7, <2>2, <2>4 DEF SetRandomness, BlocksInv
<1>8. ASSUME NEW h \in Handlers, AddFinalizedBlock(h)
      PROVE  BlocksInv'
  <2>1. handling[h] \in [step : {"found", "set"}, hash : Hashes]
    BY Zenon, <1>0, <1>8 DEF AddFinalizedBlock, HandlingType
  <2>2. handling[h].hash \in Hashes
    BY Zenon, <2>1
  <2>3. \A c \in AddFinalizedBlockNoLock(Cache, handling[h].hash) : CacheOK(c)
    BY Zenon, <1>0, <2>2, AddFinalizedBlockOK
  <2>4. CacheOK(Cache)'
    BY Zenon, <1>8, <2>3, ReplaceOK DEF AddFinalizedBlock
  <2>5. handling' \in HandlingType
    BY Zenon, <1>0, <1>8 DEF AddFinalizedBlock, HandlingType, Idle
  <2> QED  BY Zenon, <1>0, <1>8, <2>4, <2>5 DEF AddFinalizedBlock, BlocksInv
<1>9. ASSUME NEW enabled \in BOOLEAN, SetReceiveCoreMessage(enabled)
      PROVE  BlocksInv'
  BY Zenon, <1>0, <1>1, <1>9 DEF SetReceiveCoreMessage, BlocksInv
<1>10. CASE UNCHANGED vars
  BY Zenon, <1>0, <1>1, <1>10 DEF vars, BlocksInv
<1> QED  BY Zenon, <1>2, <1>3, <1>4, <1>5, <1>6, <1>7, <1>8, <1>9, <1>10 DEF Next

-----------------------------------------------------------------------------
\* addVote: voteSize counts the cached votes, the list has every cached
\* position once, and the votes never outgrow the cache.
THEOREM VotesStayAccounted == Spec => []VotesAccounted
<1>1. VotesInv /\ BlocksInv => VotesAccounted
  <2> SUFFICES ASSUME VotesInv, BlocksInv PROVE VotesAccounted
    BY Zenon
  <2>1. VotesOf(voteCache) = CachedVotes
    BY Zenon DEF VotesOf, CachedVotes
  <2>2. voteSize \in Nat
    BY Zenon, FS_CardinalityType DEF VotesInv, Filed
  <2>3. TypeOK
    BY Zenon, <2>2 DEF VotesInv, Filed, Lists, BlocksInv, CacheOK, Cache, HandlingType, TypeOK
  <2> QED  BY Zenon, <2>1, <2>3 DEF VotesAccounted, VotesInv, Filed, Lists
<1> QED  BY <1>1, InitInv, StepVotesInv, StepBlocksInv, PTL DEF Spec

\* addBlock, addFinalizedBlock, addBlocks: no map of blocks outgrows the cache.
THEOREM BlocksStayBounded == Spec => []BlocksBounded
<1>1. BlocksInv => BlocksBounded
  BY Zenon DEF BlocksInv, CacheOK, Cache, BlocksBounded
<1> QED  BY <1>1, InitInv, StepBlocksInv, PTL DEF Spec

\* A cached finalized block is not served without its randomness, whatever
\* copies arrive and whatever the handlers of agreement results are at.
THEOREM FinalizedStaysServed == Spec => []FinalizedServed
<1>1. BlocksInv => FinalizedServed
  BY Zenon DEF BlocksInv, CacheOK, Cache, FinalizedServed
<1> QED  BY <1>1, InitInv, StepBlocksInv, PTL DEF Spec
=============================================================================
