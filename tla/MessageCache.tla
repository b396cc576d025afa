---------------------------- MODULE MessageCache ----------------------------
(***************************************************************************)
(* The cache of core messages (dex/cache.go) and the handlers that fill it *)
(* (dex/handler.go).  Every peer has a handler of its own and the core     *)
(* broadcasts from another goroutine; each call of the cache holds its     *)
(* lock, a handler that calls it twice does not in between.                *)
(*                                                                         *)
(* A block is its hash, its position and whether it is finalized, that is, *)
(* has its randomness.  Peers' agreement results carry a randomness; the   *)
(* consensus core checks it.                                               *)
(***************************************************************************)
EXTENDS Integers, Sequences, FiniteSets

CONSTANTS
    Size,        \* the size of the cache
    Votes,       \* votes of type VotePreCom or later
    Hashes,      \* hashes of blocks
    Position,    \* the position of each vote and of each block hash
    Handlers     \* the goroutines that handle agreement results

ASSUME CacheAssumption == Size \in Nat \ {0}

Positions == {Position[m] : m \in Votes \cup Hashes}

VARIABLES
    voteCache,            \* position -> votes
    votePosition,         \* positions of voteCache, oldest first
    voteSize,
    blockCache,           \* hash -> is the cached block finalized
    finalizedBlockCache,  \* position -> hash
    receiveCoreMessage,
    handling              \* per handler: the agreement result it is at

voteVars == <<voteCache, votePosition, voteSize>>
blockVars == <<blockCache, finalizedBlockCache>>
vars == <<voteVars, blockVars, receiveCoreMessage, handling>>

Idle == [step |-> "idle"]

Without(f, k) == [x \in DOMAIN f \ {k} |-> f[x]]

Put(f, k, v) == [x \in DOMAIN f \cup {k} |-> IF x = k THEN v ELSE f[x]]

-----------------------------------------------------------------------------
(* Votes *)

Full == voteSize >= Size

(* What the cache keeps when the oldest position makes room.               *)
Kept == IF Full THEN Without(voteCache, Head(votePosition)) ELSE voteCache

KeptPosition == IF Full THEN Tail(votePosition) ELSE votePosition

EvictedOne == IF Full THEN 1 ELSE 0

Evicted == IF Full THEN Cardinality(voteCache[Head(votePosition)]) ELSE 0

AddVote(vote) ==
    LET pos == Position[vote]
        cached == IF pos \in DOMAIN Kept THEN Kept[pos] ELSE {}
    IN  /\ voteCache' = Put(Kept, pos, cached \cup {vote})
        /\ votePosition' = IF pos \in DOMAIN Kept THEN KeptPosition
                           ELSE Append(KeptPosition, pos)
        /\ voteSize' = voteSize - Evicted + (IF vote \in cached THEN 0 ELSE 1)

-----------------------------------------------------------------------------
(* Blocks.  An operation on the two maps gives the set of its outcomes,    *)
(* since a full map loses an entry at random.                              *)
Cache == [blocks |-> blockCache, finalized |-> finalizedBlockCache]

MakeRoomLate(f) ==
    IF Cardinality(DOMAIN f) > Size THEN {Without(f, k) : k \in DOMAIN f} ELSE {f}

MakeRoom(f) ==
    IF Cardinality(DOMAIN f) >= Size THEN {Without(f, k) : k \in DOMAIN f} ELSE {f}

AddBlockUnchecked(c, hash) ==
    {[c EXCEPT !.blocks = Put(f, hash, FALSE)] : f \in MakeRoom(c.blocks)}

AddBlockNoLock(c, hash) ==
    IF Position[hash] \in DOMAIN c.finalized THEN {c}
    ELSE {[c EXCEPT !.blocks = Put(f, hash, FALSE)] : f \in MakeRoom(c.blocks)}

AddFinalizedBlockNoLock(c, hash) ==
    UNION {{[blocks |-> Put(f, hash, TRUE), finalized |-> Put(g, Position[hash], hash)] :
               g \in MakeRoom(c.finalized)} : f \in MakeRoom(c.blocks)}

(* addBlocks of two blocks, under one lock.                                *)
Add(c, b) == IF b.finalized THEN AddFinalizedBlockNoLock(c, b.hash)
             ELSE AddBlockNoLock(c, b.hash)

AddBlocks(c, b1, b2) == UNION {Add(d, b2) : d \in Add(c, b1)}

Replace(caches) ==
    \E c \in caches : blockCache' = c.blocks /\ finalizedBlockCache' = c.finalized

-----------------------------------------------------------------------------
(* VoteMsg, and BroadcastVote of the node's own votes.                     *)
HandleVote(vote) ==
    /\ receiveCoreMessage
    /\ AddVote(vote)
    /\ UNCHANGED <<blockVars, receiveCoreMessage, handling>>

BroadcastVote(vote) ==
    /\ AddVote(vote)
    /\ UNCHANGED <<blockVars, receiveCoreMessage, handling>>

(* CoreBlockMsg.                                                           *)
HandleCoreBlocks(b1, b2) ==
    /\ receiveCoreMessage
    /\ Replace(AddBlocks(Cache, b1, b2))
    /\ UNCHANGED <<voteVars, receiveCoreMessage, handling>>

BroadcastCoreBlock(hash) ==
    /\ Replace(AddBlockNoLock(Cache, hash))
    /\ UNCHANGED <<voteVars, receiveCoreMessage, handling>>

BroadcastFinalizedBlock(hash) ==
    /\ Replace(AddFinalizedBlockNoLock(Cache, hash))
    /\ UNCHANGED <<voteVars, receiveCoreMessage, handling>>

(* AgreementMsg and BroadcastAgreementResult: the block is looked up, ...  *)
LookUp(h, hash) ==
    /\ handling[h] = Idle
    /\ hash \in DOMAIN blockCache
    /\ handling' = [handling EXCEPT ![h] = [step |-> "found", hash |-> hash]]
    /\ UNCHANGED <<voteVars, blockVars, receiveCoreMessage>>

(* ... gets its randomness, without the lock and in the cached object      *)
(* itself, unless another object has taken its place, ...                  *)
SetRandomness(h) ==
    /\ handling[h].step = "found"
    /\ handling' = [handling EXCEPT ![h].step = "set"]
    /\ \E inPlace \in BOOLEAN :
          blockCache' = IF inPlace /\ handling[h].hash \in DOMAIN blockCache
                        THEN [blockCache EXCEPT ![handling[h].hash] = TRUE]
                        ELSE blockCache
    /\ UNCHANGED <<voteVars, finalizedBlockCache, receiveCoreMessage>>

(* ... and is cached as finalized.                                         *)
AddFinalizedBlock(h) ==
    /\ handling[h].step = "set"
    /\ Replace(AddFinalizedBlockNoLock(Cache, handling[h].hash))
    /\ handling' = [handling EXCEPT ![h] = Idle]
    /\ UNCHANGED <<voteVars, receiveCoreMessage>>

SetReceiveCoreMessage(enabled) ==
    /\ receiveCoreMessage' = enabled
    /\ UNCHANGED <<voteVars, blockVars, handling>>

Init ==
    /\ voteCache = <<>>
    /\ votePosition = <<>>
    /\ voteSize = 0
    /\ blockCache = <<>>
    /\ finalizedBlockCache = <<>>
    /\ receiveCoreMessage = FALSE
    /\ handling = [h \in Handlers |-> Idle]

Next ==
    \/ \E vote \in Votes : HandleVote(vote) \/ BroadcastVote(vote)
    \/ \E b1, b2 \in [hash : Hashes, finalized : BOOLEAN] : HandleCoreBlocks(b1, b2)
    \/ \E hash \in Hashes : BroadcastCoreBlock(hash) \/ BroadcastFinalizedBlock(hash)
    \/ \E h \in Handlers, hash \in Hashes : LookUp(h, hash)
    \/ \E h \in Handlers : SetRandomness(h) \/ AddFinalizedBlock(h)
    \/ \E enabled \in BOOLEAN : SetReceiveCoreMessage(enabled)

Spec == Init /\ [][Next]_vars

-----------------------------------------------------------------------------
TypeOK ==
    /\ DOMAIN voteCache \subseteq Positions
    /\ \A pos \in DOMAIN voteCache : voteCache[pos] \subseteq Votes
    /\ votePosition \in Seq(Positions)
    /\ voteSize \in Nat
    /\ DOMAIN blockCache \subseteq Hashes
    /\ \A hash \in DOMAIN blockCache : blockCache[hash] \in BOOLEAN
    /\ DOMAIN finalizedBlockCache \subseteq Positions
    /\ \A pos \in DOMAIN finalizedBlockCache : finalizedBlockCache[pos] \in Hashes
    /\ receiveCoreMessage \in BOOLEAN
    /\ handling \in [Handlers -> [step : {"idle"}]
                                  \cup [step : {"found", "set"}, hash : Hashes]]

CachedVotes == UNION {voteCache[pos] : pos \in DOMAIN voteCache}

(* voteSize is the number of cached votes, each cached under its position  *)
(* (so that none is counted twice), and votePosition lists every           *)
(* cached position once: addVote, which drops all votes of the oldest      *)
(* position when it is full and ignores a vote it has, never indexes an    *)
(* empty list nor leaves a position that is never dropped, and the votes   *)
(* never outgrow the size of the cache.                                    *)
VotesAccounted ==
    /\ TypeOK
    /\ voteSize <= Size
    /\ voteSize = Cardinality(CachedVotes)
    /\ \A pos \in DOMAIN voteCache :
          voteCache[pos] # {} /\ \A vote \in voteCache[pos] : Position[vote] = pos
    /\ {votePosition[i] : i \in 1..Len(votePosition)} = DOMAIN voteCache
    /\ \A i, j \in 1..Len(votePosition) : votePosition[i] = votePosition[j] => i = j

(* No map of blocks outgrows the size of the cache, also when a block is   *)
(* finalized again or two handlers finalize the same one.                  *)
BlocksBounded ==
    /\ Cardinality(DOMAIN blockCache) <= Size
    /\ Cardinality(DOMAIN finalizedBlockCache) <= Size

(* While a position's finalized block is cached, a pull of that block by   *)
(* its hash does not get a version without randomness: a late copy from a  *)
(* peer never replaces it, whatever a handler is in the middle of.         *)
FinalizedServed ==
    \A pos \in DOMAIN finalizedBlockCache :
        finalizedBlockCache[pos] \in DOMAIN blockCache =>
            blockCache[finalizedBlockCache[pos]]
=============================================================================
