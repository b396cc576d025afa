---------------------------- MODULE CoreNode_proofs ----------------------------
(*****************************************************************************)
(* Proofs about CoreNode.  Three invariants and the progress of the agreement *)
(* are proved for any number of heights, any first height of a round, any set *)
(* of empty heights and any capacity of the channels.                         *)
(*                                                                            *)
(* The first part is about the block chain alone: what sanityCheck,           *)
(* checkIfBlocksConfirmed, ExtractBlocks and the ways to add a block keep     *)
(* (Keeps: what was confirmed stays confirmed) and what they establish        *)
(* (Sound).                                                                   *)
(*                                                                            *)
(* GapsPulled is not inductive: that somebody works on the parent of a        *)
(* pending block depends on what put the blocks into the queue, into the      *)
(* pulled ones and into the message loop.  CoreInv says of each of them why   *)
(* it is there (Fits, Origin), and Covered is what those reasons keep alive   *)
(* until the parent is confirmed.                                             *)
(*****************************************************************************)
EXTENDS CoreNode, WellFoundedInduction, TLAPS

\* A set of natural numbers that is not empty has a least one.
LEMMA LeastNatural ==
  ASSUME NEW T, T \subseteq Nat, T # {}
  PROVE  \E x \in T : \A y \in T : x <= y
<1> DEFINE R == OpToRel(<, Nat)
<1>1. PICK x \in T : \A y \in T : ~ (<<y, x>> \in R)
  BY ZenonT(20), WFMin, NatLessThanWellFounded
<1>2. \A u, v \in Nat : v < u => <<v, u>> \in R
  BY Zenon DEF OpToRel
<1> HIDE DEF R
<1>3. ASSUME NEW y \in T PROVE x <= y
  <2>1. x \in Nat /\ y \in Nat /\ ~(y < x)
    BY <1>1, <1>2, Zenon
  <2> QED  BY <2>1, SMT
<1> QED  BY Zenon, <1>3

\* The heights of S that follow h end somewhere.
LEMMA LastOfFacts ==
  ASSUME NEW h \in 0..LastHeight, NEW S, S \subseteq Heights
  PROVE  /\ LastOf(h, S) \in h..LastHeight
         /\ (h + 1)..LastOf(h, S) \subseteq S
         /\ LastOf(h, S) + 1 \notin S
<1> DEFINE T == {t \in h..LastHeight : t + 1 \notin S}
<1>1. LastHeight \in Nat /\ h \in Nat
  BY HeightsAssumption
<1>2. T \subseteq Nat /\ LastHeight \in T
  BY <1>1 DEF Heights
<1>3. PICK t \in T : \A y \in T : t <= y
  <2> HIDE DEF T
  <2> QED  BY ZenonT(20), <1>2, LeastNatural
<1>4. ASSUME NEW y \in (h + 1)..t PROVE y \in S
  <2>1. y - 1 \in h..LastHeight /\ (y - 1) + 1 = y /\ ~(t <= y - 1)
    BY <1>1, <1>3
  <2> QED  BY Zenon, <1>3, <2>1
<1>5. t \in h..LastHeight /\ (h + 1)..t \subseteq S /\ t + 1 \notin S
  BY Zenon, <1>3, <1>4
<1> QED  BY <1>5, Zenon DEF LastOf

-----------------------------------------------------------------------------
(* What the operations of the chain do. *)

Confirms(c, h) == h <= c.tip \/ h \in c.pending

\* A chain whose records are ahead of its tip by two heights or more.
Sound(c) ==
  /\ c \in Chains /\ c.delivered <= c.tip
  /\ \A h \in c.pending \cup c.missing : h > c.tip + 1

\* What d keeps of c: confirmed blocks, and the randomness of the others.
Keeps(c, d) ==
  /\ \A h \in 0..LastHeight : Confirms(c, h) => Confirms(d, h)
  /\ \A h \in c.pendingRandomness : Confirms(d, h) \/ h \in d.pendingRandomness

\* The heights are natural numbers.
LEMMA HeightTypes ==
  /\ LastHeight \in Nat /\ Heights = 1..LastHeight
  /\ \A h \in Heights : h \in Nat /\ h >= 1 /\ h <= LastHeight
  /\ \A h \in 0..LastHeight : h \in Nat /\ h <= LastHeight
  /\ RoundStart \in Nat /\ MaxUint64 = LastHeight + 2
BY HeightsAssumption DEF Heights, MaxUint64

\* The fields of a chain have their types.
LEMMA ChainFields ==
  ASSUME NEW c \in Chains
  PROVE  /\ c.tip \in 0..LastHeight /\ c.delivered \in 0..LastHeight
         /\ c.random \subseteq Heights /\ c.pending \subseteq Heights
         /\ c.missing \subseteq Heights /\ c.pendingRandomness \subseteq Heights
         /\ c.lastPosition \in 0..LastHeight
         /\ c = [tip |-> c.tip, delivered |-> c.delivered, random |-> c.random,
                 pending |-> c.pending, missing |-> c.missing,
                 pendingRandomness |-> c.pendingRandomness,
                 lastPosition |-> c.lastPosition]
BY Zenon DEF Chains

\* checkIfBlocksConfirmed: the pending blocks that follow the tip are appended,
\* so those that remain are beyond the next height.
LEMMA CheckSound ==
  ASSUME NEW c \in Chains, c.delivered <= c.tip,
         \A h \in c.pending \cup c.missing : h > c.tip
  PROVE  /\ Sound(checkIfBlocksConfirmed(c)) /\ Keeps(c, checkIfBlocksConfirmed(c))
         /\ checkIfBlocksConfirmed(c).pending \subseteq c.pending
<1>1. PICK t : t = LastOf(c.tip, c.pending \cup c.missing)
  BY Zenon
<1>2. PICK d : d = checkIfBlocksConfirmed(c)
  BY Zenon
<1>3. /\ t \in c.tip..LastHeight
      /\ t < LastHeight => t + 1 \notin c.pending \cup c.missing
      /\ t \in Nat /\ c.tip \in Nat /\ c.delivered \in Nat
  BY SMTT(30), <1>1, LastOfFacts, ChainFields, HeightTypes
<1> DEFINE r == c.random \cup {h \in c.pending : h <= t}
           p == {h \in c.pending : h > t}
           m == {h \in c.missing : h > t}
<1>4. /\ d.tip = t /\ d.delivered = c.delivered /\ d.pending = p
      /\ d.missing = m /\ d.pendingRandomness = c.pendingRandomness
      /\ d \in Chains
  <2>1. d = [c EXCEPT !.tip = t, !.random = r, !.pending = p, !.missing = m]
    BY Zenon, <1>1, <1>2 DEF checkIfBlocksConfirmed
  <2>2. r \subseteq Heights /\ p \subseteq Heights /\ m \subseteq Heights
    BY Zenon, ChainFields
  <2>3. t \in 0..LastHeight
    BY <1>3, HeightTypes
  <2> HIDE DEF r, p, m
  <2>4. /\ d.tip = t /\ d.delivered = c.delivered /\ d.pending = p
        /\ d.missing = m /\ d.pendingRandomness = c.pendingRandomness
    BY Zenon, <2>1 DEF Chains
  <2>5. d \in Chains
    BY ZenonT(20), <2>1, <2>2, <2>3 DEF Chains
  <2> QED  BY Zenon, <2>4, <2>5
<1>5. d.delivered <= d.tip
  BY <1>3, <1>4, HeightTypes
<1>6. ASSUME NEW h \in d.pending \cup d.missing PROVE h > d.tip + 1
  <2>1. h \in c.pending \cup c.missing /\ h > t
    BY Zenon, <1>4
  <2>2. h \in Nat /\ h <= LastHeight
    BY Zenon, <2>1, ChainFields, HeightTypes
  <2>3. h # t + 1
    BY <1>3, <2>1, <2>2, HeightTypes
  <2> QED  BY <1>3, <1>4, <2>1, <2>2, <2>3
<1>7. Keeps(c, d) /\ d.pending \subseteq c.pending
  BY <1>3, <1>4, ChainFields, HeightTypes DEF Keeps, Confirms
<1> QED  BY Zenon, <1>2, <1>4, <1>5, <1>6, <1>7 DEF Sound

\* What two steps keep one after the other, they keep together.
LEMMA KeepsTransitive ==
  ASSUME NEW c \in Chains, NEW d \in Chains, NEW e, Keeps(c, d), Keeps(d, e)
  PROVE  Keeps(c, e)
BY SMTT(30), ChainFields, HeightTypes DEF Keeps

\* Delivery leaves the tip and the pending records alone.
LEMMA ExtractSound ==
  ASSUME NEW c, Sound(c)
  PROVE  /\ Sound(extractBlocks(c)) /\ Keeps(c, extractBlocks(c))
         /\ extractBlocks(c).pending = c.pending
<1> DEFINE e == extractBlocks(c)
           ready == {h \in c.random \cup c.pendingRandomness : h <= c.tip}
<1>0. c \in Chains
  BY Zenon DEF Sound
<1>1. PICK d : d = LastOf(c.delivered, ready)
  BY Zenon
<1>2. /\ d \in c.delivered..LastHeight /\ (c.delivered + 1)..d \subseteq ready
      /\ d \in Nat /\ c.tip \in Nat /\ c.delivered \in Nat
  BY SMTT(30), <1>0, <1>1, LastOfFacts, ChainFields, HeightTypes
<1>3. d <= c.tip
  <2>1. CASE d = c.delivered
    BY Zenon, <2>1 DEF Sound
  <2>2. CASE d # c.delivered
    <3>1. d \in (c.delivered + 1)..d
      BY <1>2, <2>2
    <3> QED  BY Zenon, <1>2, <3>1
  <2> QED  BY Zenon, <2>1, <2>2
<1> DEFINE r == {h \in c.random : h > d}
           q == c.pendingRandomness \ ((c.delivered + 1)..d \ c.random)
<1>4. e = [c EXCEPT !.delivered = d, !.random = r, !.pendingRandomness = q]
  BY Zenon, <1>1 DEF extractBlocks
<1>5. r \subseteq Heights /\ q \subseteq c.pendingRandomness /\ q \subseteq Heights
  BY Zenon, <1>0, ChainFields
<1>6. \A h \in c.pendingRandomness : h \in q \/ h <= d
  BY <1>0, <1>2, ChainFields, HeightTypes
<1> HIDE DEF e, r, q
<1>7. /\ e.tip = c.tip /\ e.delivered = d /\ e.pending = c.pending
      /\ e.missing = c.missing /\ e.pendingRandomness = q
  BY Zenon, <1>0, <1>4 DEF Chains
<1>8. e \in Chains
  <2>1. d \in 0..LastHeight
    BY <1>2, HeightTypes
  <2> QED  BY ZenonT(20), <1>0, <1>4, <1>5, <2>1 DEF Chains
<1>9. Sound(e)
  BY Zenon, <1>3, <1>7, <1>8 DEF Sound
<1>10. Keeps(c, e)
  BY <1>0, <1>2, <1>3, <1>6, <1>7, ChainFields, HeightTypes DEF Keeps, Confirms
<1> QED  BY Zenon, <1>7, <1>9, <1>10 DEF e

\* A block is appended to the chain.
Appended(c, h) == [c EXCEPT !.tip = h, !.random = @ \cup {h}]

\* Appending a block moves the tip and nothing but it.
LEMMA AppendedFields ==
  ASSUME NEW c \in Chains, NEW h \in Heights
  PROVE  /\ Appended(c, h) \in Chains /\ Appended(c, h).tip = h
         /\ Appended(c, h).delivered = c.delivered
         /\ Appended(c, h).pending = c.pending
         /\ Appended(c, h).missing = c.missing
         /\ Appended(c, h).pendingRandomness = c.pendingRandomness
<1> DEFINE r == c.random \cup {h}
<1>0. PICK f : f = Appended(c, h)
  BY Zenon
<1>1. f = [c EXCEPT !.tip = h, !.random = r]
  BY Zenon, <1>0 DEF Appended
<1>2. r \subseteq Heights /\ h \in 0..LastHeight
  BY ChainFields, HeightTypes
<1> HIDE DEF r
<1>3. /\ f.tip = h /\ f.delivered = c.delivered
      /\ f.pending = c.pending /\ f.missing = c.missing
      /\ f.pendingRandomness = c.pendingRandomness
  BY Zenon, <1>1 DEF Chains
<1>4. f \in Chains
  BY ZenonT(20), <1>1, <1>2 DEF Chains
<1> QED  BY Zenon, <1>0, <1>3, <1>4

\* addBlock, at the next height or beyond it.
LEMMA AddBlockSound ==
  ASSUME NEW c, Sound(c), NEW h \in Heights, NEW final \in BOOLEAN
  PROVE  /\ Sound(addBlock(c, h, final)) /\ Keeps(c, addBlock(c, h, final))
         /\ Confirms(addBlock(c, h, final), h)
         /\ addBlock(c, h, final).pending \subseteq c.pending \cup {h}
<1>1. PICK d : d = [c EXCEPT !.pendingRandomness = @ \ {h}]
  BY ZenonT(20)
<1>2. PICK e : e = addBlock(c, h, final)
  BY Zenon
<1>3. c \in Chains /\ h \in Nat /\ h >= 1 /\ h <= LastHeight /\ c.tip \in Nat
  BY Zenon, HeightTypes, ChainFields DEF Sound
<1>4. /\ d \in Chains /\ d.tip = c.tip /\ d.delivered = c.delivered
      /\ d.pending = c.pending /\ d.missing = c.missing
      /\ d.pendingRandomness = c.pendingRandomness \ {h}
  BY Zenon, <1>1, <1>3 DEF Chains
<1>5. CASE h <= c.tip
  <2>1. e = c \/ e = d
    BY Zenon, <1>1, <1>2, <1>5 DEF addBlock
  <2>2. Sound(d) /\ Keeps(c, d) /\ Confirms(d, h) /\ Confirms(c, h) /\ Keeps(c, c)
    BY Zenon, <1>4, <1>5 DEF Sound, Keeps, Confirms
  <2> QED  BY Zenon, <1>2, <1>4, <2>1, <2>2
<1>6. CASE h = c.tip + 1
  <2>1. PICK f : f = Appended(d, h)
    BY Zenon
  <2>2. /\ f \in Chains /\ f.tip = h /\ f.delivered = c.delivered
        /\ f.pending = c.pending /\ f.missing = c.missing
        /\ f.pendingRandomness = c.pendingRandomness \ {h}
    BY Zenon, <1>4, <2>1, AppendedFields
  <2>3. f.delivered <= f.tip /\ \A g \in f.pending \cup f.missing : g > f.tip
    <3>1. c.delivered \in Nat
      BY Zenon, <1>3, ChainFields, HeightTypes
    <3> QED  BY <1>3, <1>6, <2>2, <3>1 DEF Sound
  <2>4. e = checkIfBlocksConfirmed(f)
    <3>1. ~(h <= c.tip)
      BY <1>3, <1>6
    <3> QED  BY <1>1, <1>2, <1>6, <2>1, <3>1, Zenon DEF addBlock, Appended
  <2>5. Sound(e) /\ Keeps(f, e) /\ e.pending \subseteq c.pending
    BY Zenon, <2>2, <2>3, <2>4, CheckSound
  <2>6. Keeps(c, f) /\ Confirms(f, h)
    BY <1>3, <1>6, <2>2, ChainFields, HeightTypes DEF Keeps, Confirms
  <2>7. Keeps(c, e) /\ Confirms(e, h)
    BY <1>3, <2>2, <2>5, <2>6, KeepsTransitive, HeightTypes DEF Keeps
  <2> QED  BY Zenon, <1>2, <2>5, <2>7
<1>7. CASE h > c.tip + 1
  <2>1. e = [d EXCEPT !.pending = @ \cup {h}, !.missing = @ \ {h}]
    BY <1>1, <1>2, <1>3, <1>7 DEF addBlock
  <2>2. /\ e \in Chains /\ e.tip = c.tip /\ e.delivered = c.delivered
        /\ e.pending = c.pending \cup {h} /\ e.missing = c.missing \ {h}
        /\ e.pendingRandomness = c.pendingRandomness \ {h}
    BY ZenonT(20), <1>4, <2>1 DEF Chains
  <2>3. Sound(e) /\ Keeps(c, e) /\ Confirms(e, h)
    BY Zenon, <1>7, <2>2 DEF Sound, Keeps, Confirms
  <2> QED  BY Zenon, <1>2, <2>2, <2>3
<1> QED  BY <1>3, <1>5, <1>6, <1>7

\* addEmptyBlock.
LEMMA AddEmptySound ==
  ASSUME NEW c, Sound(c), NEW h \in Heights, h = c.tip + 1
  PROVE  /\ Sound(addEmptyBlock(c, h)) /\ Keeps(c, addEmptyBlock(c, h))
         /\ addEmptyBlock(c, h).pending \subseteq c.pending
<1>1. PICK f : f = Appended(c, h)
  BY Zenon
<1>2. PICK d : d = checkIfBlocksConfirmed(f)
  BY Zenon
<1>3. PICK e : e = addEmptyBlock(c, h)
  BY Zenon
<1>4. c \in Chains /\ h \in Nat /\ h >= 1 /\ h <= LastHeight /\ c.tip \in Nat
  BY Zenon, HeightTypes, ChainFields DEF Sound
<1>5. /\ f \in Chains /\ f.tip = h /\ f.delivered = c.delivered
      /\ f.pending = c.pending /\ f.missing = c.missing
      /\ f.pendingRandomness = c.pendingRandomness
  BY Zenon, <1>1, <1>4, AppendedFields
<1>6. f.delivered <= f.tip /\ \A g \in f.pending \cup f.missing : g > f.tip
  BY <1>4, <1>5, ChainFields, HeightTypes DEF Sound
<1>7. Sound(d) /\ Keeps(f, d) /\ d.pending \subseteq c.pending /\ d \in Chains
  BY Zenon, <1>2, <1>5, <1>6, CheckSound DEF Sound
<1>8. Keeps(c, d)
  <2>1. Keeps(c, f)
    BY <1>4, <1>5, ChainFields, HeightTypes DEF Keeps, Confirms
  <2> QED  BY Zenon, <1>4, <1>5, <1>7, <2>1, KeepsTransitive
<1>9. e = [d EXCEPT !.pendingRandomness = @ \cup {h}]
  BY Zenon, <1>1, <1>2, <1>3 DEF addEmptyBlock, Appended
<1>10. /\ e \in Chains /\ e.tip = d.tip /\ e.delivered = d.delivered
       /\ e.pending = d.pending /\ e.missing = d.missing
       /\ d.pendingRandomness \subseteq e.pendingRandomness
  BY Zenon, <1>7, <1>9 DEF Chains
<1>11. Sound(e) /\ Keeps(c, e)
  BY Zenon, <1>7, <1>8, <1>10 DEF Sound, Keeps, Confirms
<1> QED  BY Zenon, <1>3, <1>7, <1>10, <1>11

\* Randomness that comes before its block.
LEMMA LearnSound ==
  ASSUME NEW c, Sound(c), NEW h \in Heights
  PROVE  /\ Sound(Learn(c, h)) /\ Keeps(c, Learn(c, h))
         /\ Learn(c, h).pending = c.pending
         /\ Confirms(Learn(c, h), h) \/ h \in Learn(c, h).pendingRandomness
<1>1. PICK e : e = Learn(c, h)
  BY Zenon
<1>2. c \in Chains /\ h \in Nat /\ c.tip \in Nat /\ c.delivered \in Nat
  BY Zenon, HeightTypes, ChainFields DEF Sound
<1>3. CASE h <= c.delivered
  <2>1. e = c
    BY Zenon, <1>1, <1>3 DEF Learn
  <2> QED  BY <1>1, <1>2, <1>3, <2>1 DEF Sound, Keeps, Confirms
<1>4. CASE ~(h <= c.delivered)
  <2>1. e = [c EXCEPT !.pendingRandomness = @ \cup {h}, !.lastPosition = c.delivered]
    BY Zenon, <1>1, <1>4 DEF Learn
  <2>2. /\ e \in Chains /\ e.tip = c.tip /\ e.delivered = c.delivered
        /\ e.pending = c.pending /\ e.missing = c.missing
        /\ e.pendingRandomness = c.pendingRandomness \cup {h}
    BY ZenonT(20), <1>2, <2>1 DEF Chains
  <2> QED  BY Zenon, <1>1, <2>2 DEF Sound, Keeps, Confirms
<1> QED  BY Zenon, <1>3, <1>4

-----------------------------------------------------------------------------
(* The inductive invariant of the core. *)

Entries(q) == {q[i] : i \in 1..Len(q)}
Queueable == [height : Heights, final : BOOLEAN]
Kinds == {"none", "votes", "result", "parent"}

\* Nobody has to start working on height g.
Covered(g) == confirmed(g) \/ InFlight(g) \/ g \in empty \cap touched

\* The block of h is confirmed, or its randomness is here before it.
Announced(h) == confirmed(h) \/ h \in bc.pendingRandomness

\* Why ConfirmBlock was called for h: by votes for a block, which is not the
\* empty one, or by an agreement result the node took.
Origin(h, votes) == IF votes THEN h \notin empty ELSE h \in touched /\ Announced(h)

Fits(b) == Covered(b.height - 1) /\ (b.final \/ Announced(b.height))

Gaps == \A h \in bc.pending : Covered(h - 1)
Queued == \A b \in Entries(queue) : Fits(b)
Pulled == \A b \in pulled : Origin(b.height, b.votes)
Waited ==
  \A h \in Heights : /\ pull[h] = "votes" => Origin(h, TRUE)
                     /\ pull[h] = "result" => Origin(h, FALSE)
Syncing == msg.pc = "sync" => msg.height \in Heights /\ Origin(msg.height, FALSE)

CoreInv ==
  /\ TypeOK /\ Sound(bc) /\ BlockedAtRoundStart
  /\ Gaps /\ Queued /\ Pulled /\ Waited /\ Syncing

\* The queue of the blocks to process, with one more and with one less.
LEMMA AppendEntries ==
  ASSUME NEW S, NEW q \in Seq(S), NEW b \in S
  PROVE  Append(q, b) \in Seq(S) /\ Entries(Append(q, b)) = Entries(q) \cup {b}
<1>1. /\ Append(q, b) \in Seq(S) /\ Len(q) \in Nat
      /\ Len(Append(q, b)) = Len(q) + 1
      /\ \A i \in 1..Len(q) : Append(q, b)[i] = q[i]
      /\ Append(q, b)[Len(q) + 1] = b
  OBVIOUS
<1>2. \A i \in 1..(Len(q) + 1) : i \in 1..Len(q) \/ i = Len(q) + 1
  BY <1>1
<1>3. \A i \in 1..Len(q) : i \in 1..(Len(q) + 1)
  BY <1>1
<1>4. Len(q) + 1 \in 1..(Len(q) + 1)
  BY <1>1
<1> QED  BY <1>1, <1>2, <1>3, <1>4, Zenon DEF Entries

LEMMA TailEntries ==
  ASSUME NEW S, NEW q \in Seq(S), q # <<>>
  PROVE  /\ Tail(q) \in Seq(S) /\ Head(q) \in S
         /\ Entries(q) = Entries(Tail(q)) \cup {Head(q)}
<1>1. /\ Tail(q) \in Seq(S) /\ Head(q) \in S /\ Len(q) \in Nat /\ Len(q) > 0
      /\ Len(Tail(q)) = Len(q) - 1 /\ Head(q) = q[1]
      /\ \A i \in 1..(Len(q) - 1) : Tail(q)[i] = q[i + 1]
  OBVIOUS
<1>2. \A i \in 1..Len(q) : i = 1 \/ (i - 1 \in 1..(Len(q) - 1) /\ (i - 1) + 1 = i)
  BY <1>1
<1>3. \A i \in 1..(Len(q) - 1) : i + 1 \in 1..Len(q)
  BY <1>1
<1>4. 1 \in 1..Len(q)
  BY <1>1
<1>5. ASSUME NEW i \in 1..Len(q) PROVE q[i] \in Entries(Tail(q)) \cup {Head(q)}
  <2>1. CASE i = 1
    BY Zenon, <1>1, <2>1
  <2>2. CASE i # 1
    <3>1. i - 1 \in 1..Len(Tail(q)) /\ Tail(q)[i - 1] = q[i]
      BY Zenon, <1>1, <1>2, <2>2
    <3> QED  BY <3>1, Zenon DEF Entries
  <2> QED  BY Zenon, <2>1, <2>2
<1>6. ASSUME NEW i \in 1..Len(Tail(q)) PROVE Tail(q)[i] \in Entries(q)
  BY Zenon, <1>1, <1>3 DEF Entries
<1>7. Head(q) \in Entries(q)
  BY Zenon, <1>1, <1>4 DEF Entries
<1>8. Entries(q) \subseteq Entries(Tail(q)) \cup {Head(q)}
  BY Zenon, <1>5 DEF Entries
<1>9. Entries(Tail(q)) \subseteq Entries(q)
  BY Zenon, <1>6 DEF Entries
<1> QED  BY <1>1, <1>7, <1>8, <1>9, Zenon

\* A queued block has its type.
LEMMA EntryTypes ==
  ASSUME NEW S, NEW q \in Seq(S)
  PROVE  Entries(q) \subseteq S
BY DEF Entries

\* What it means that somebody works on a height.
LEMMA InFlightFacts ==
  ASSUME NEW h
  PROVE  /\ InFlight(h) <=> \/ pull[h] # "none"
                            \/ \E b \in pulled : b.height = h
                            \/ \E b \in Entries(queue) : b.height = h
         /\ InFlight(h)' <=> \/ pull'[h] # "none"
                             \/ \E b \in pulled' : b.height = h
                             \/ \E b \in Entries(queue') : b.height = h
BY Zenon DEF InFlight, Entries

\* A step that keeps what is confirmed and loses no work keeps every reason.
LEMMA StepKeeps ==
  ASSUME CoreInv, TypeOK', Sound(bc)', BlockedAtRoundStart',
         empty' = empty, touched \subseteq touched', Keeps(bc, bc'),
         \A g \in Heights : InFlight(g) => Covered(g)',
         \A h \in bc'.pending :
           h \in bc.pending \/ \E b \in Entries(queue) : b.height = h,
         \A b \in Entries(queue') : b \in Entries(queue) \/ Fits(b)',
         \A b \in pulled' : Origin(b.height, b.votes),
         \A h \in Heights : /\ pull'[h] = "votes" => Origin(h, TRUE)
                            /\ pull'[h] = "result" => Origin(h, FALSE),
         Syncing'
  PROVE  CoreInv'
<1>0. /\ bc \in Chains /\ bc' \in Chains /\ empty \subseteq Heights
      /\ \A b \in pulled' : b.height \in Heights /\ b.votes \in BOOLEAN
      /\ queue \in Seq(Queueable) /\ queue' \in Seq(Queueable)
  BY HeightsAssumption DEF CoreInv, TypeOK, Queueable, Heights
<1>1. \A b \in Entries(queue) \cup Entries(queue') : b.height \in Heights
  <2>1. Entries(queue) \subseteq Queueable /\ Entries(queue') \subseteq Queueable
    BY <1>0, EntryTypes, Zenon
  <2> QED  BY Zenon, <2>1 DEF Queueable
<1>2. ASSUME NEW h \in 0..LastHeight, confirmed(h) PROVE confirmed(h)'
  BY Zenon, <1>2 DEF Keeps, Confirms, confirmed
<1>3. ASSUME NEW g \in 0..LastHeight, Covered(g) PROVE Covered(g)'
  <2>1. CASE g = 0
    BY <1>0, <2>1, ChainFields DEF Covered, confirmed
  <2>2. CASE g \in Heights
    BY Zenon, <1>2, <1>3, <2>2 DEF Covered
  <2> QED  BY <2>1, <2>2, HeightTypes
<1>4. ASSUME NEW h \in Heights PROVE h - 1 \in 0..LastHeight /\ h \in 0..LastHeight
  BY HeightTypes
<1>5. ASSUME NEW h \in Heights, Announced(h) PROVE Announced(h)'
  BY Zenon, <1>2, <1>4, <1>5 DEF Announced, Keeps, Confirms, confirmed
<1>6. ASSUME NEW h \in Heights, NEW v \in BOOLEAN, Origin(h, v) PROVE Origin(h, v)'
  BY Zenon, <1>5, <1>6 DEF Origin
<1>7. Gaps'
  BY Zenon, <1>0, <1>1, <1>3, <1>4, ChainFields DEF Gaps, CoreInv, Queued, Fits
<1>8. Queued'
  <2> SUFFICES ASSUME NEW b \in Entries(queue'), b \in Entries(queue) PROVE Fits(b)'
    BY Zenon DEF Queued
  <2>1. b.height \in Heights /\ b.height - 1 \in 0..LastHeight /\ Fits(b)
    BY Zenon, <1>1, <1>4 DEF CoreInv, Queued
  <2> QED  BY Zenon, <1>3, <1>5, <2>1 DEF Fits
<1>9. Pulled'
  BY Zenon, <1>0, <1>6 DEF Pulled
<1>10. ASSUME NEW h \in Heights
       PROVE  /\ pull'[h] = "votes" => Origin(h, TRUE)'
              /\ pull'[h] = "result" => Origin(h, FALSE)'
  BY ZenonT(20), <1>6
<1>11. Waited'
  BY ZenonT(20), <1>10 DEF Waited
<1> QED  BY Zenon, <1>7, <1>8, <1>9, <1>11 DEF CoreInv

-----------------------------------------------------------------------------
(* ConfirmBlock and the goroutine of the parents. *)

\* The parts of the state the chain operations need, with their types.
LEMMA CoreTypes ==
  ASSUME CoreInv
  PROVE  /\ bc \in Chains /\ pull \in [Heights -> Kinds] /\ touched \subseteq Heights
         /\ queue \in Seq(Queueable) /\ empty \subseteq Heights
         /\ pulled \subseteq [height : Heights, votes : BOOLEAN, added : BOOLEAN]
BY Zenon, HeightsAssumption DEF CoreInv, TypeOK, Kinds, Queueable, Heights

\* The parent of a block is asked for unless it is confirmed or on its way.
LEMMA PullParentFacts ==
  ASSUME CoreInv, NEW p \in [Heights -> Kinds], NEW h \in Heights,
         NEW q, q = PullParent(p, h)
  PROVE  /\ q \in [Heights -> Kinds]
         /\ \A g \in Heights : q[g] = p[g] \/ (p[g] = "none" /\ q[g] = "parent")
         /\ confirmed(h - 1) \/ (h - 1 \in Heights /\ q[h - 1] # "none")
<1>1. h \in Nat /\ h >= 1 /\ h <= LastHeight /\ bc.tip \in Nat
  BY Zenon, CoreTypes, ChainFields, HeightTypes
<1>2. h > 1 => h - 1 \in Heights
  BY <1>1, HeightTypes
<1>3. h <= 1 => confirmed(h - 1)
  BY <1>1 DEF confirmed
<1>4. CASE h <= 1 \/ confirmed(h - 1) \/ p[h - 1] # "none"
  <2>1. q = p
    BY Zenon, <1>4 DEF PullParent
  <2> QED  BY <1>1, <1>2, <1>3, <1>4, <2>1
<1>5. CASE ~(h <= 1 \/ confirmed(h - 1) \/ p[h - 1] # "none")
  <2>1. q = [p EXCEPT ![h - 1] = "parent"]
    BY Zenon, <1>5 DEF PullParent
  <2>2. h - 1 \in Heights
    BY <1>1, <1>2, <1>5
  <2> QED  BY Zenon, <1>5, <2>1, <2>2 DEF Kinds
<1> QED  BY Zenon, <1>4, <1>5

\* ConfirmBlock leaves a block either confirmed or queued with a reason, and
\* has its parent covered.
LEMMA ConfirmBlockFlow ==
  ASSUME CoreInv, NEW h \in Heights, NEW known \in {"none", "plain", "final"},
         NEW votes \in BOOLEAN, NEW inLoop \in BOOLEAN,
         ConfirmBlock(h, known, votes, inLoop),
         Origin(h, votes) \/ (known = "final" /\ h \notin empty),
         empty' = empty, Sound(bc)', Keeps(bc, bc'),
         \A b \in pulled : b \in pulled' \/ b.height = h
  PROVE  /\ touched \subseteq touched' /\ touched' \subseteq Heights
         /\ pull' \in [Heights -> Kinds] /\ queue' \in Seq(Queueable)
         /\ confirm' = confirm \/ confirm' = Cleaning(h, inLoop)
         /\ \A g \in Heights : InFlight(g) => Covered(g)'
         /\ \A b \in Entries(queue') : b \in Entries(queue) \/ Fits(b)'
         /\ \A g \in Heights : /\ pull'[g] = "votes" => Origin(g, TRUE)
                               /\ pull'[g] = "result" => Origin(g, FALSE)
<1>0. /\ bc \in Chains /\ pull \in [Heights -> Kinds] /\ touched \subseteq Heights
      /\ queue \in Seq(Queueable) /\ Waited
  BY Zenon, CoreTypes DEF CoreInv
<1>1. CASE known = "none"
  <2>1. /\ pull' = [pull EXCEPT ![h] = IF votes THEN "votes" ELSE "result"]
        /\ touched' = touched /\ queue' = queue /\ confirm' = confirm
        /\ Origin(h, votes)
    BY Zenon, <1>1 DEF ConfirmBlock
  <2>2. /\ pull' \in [Heights -> Kinds] /\ pull'[h] # "none"
        /\ \A g \in Heights : pull[g] # "none" => pull'[g] # "none"
    BY Zenon, <1>0, <2>1 DEF Kinds
  <2>3. ASSUME NEW g \in Heights, InFlight(g) PROVE InFlight(g)'
    BY Zenon, <2>1, <2>2, <2>3, InFlightFacts
  <2>4. ASSUME NEW g \in Heights
        PROVE  /\ pull'[g] = "votes" => Origin(g, TRUE)
               /\ pull'[g] = "result" => Origin(g, FALSE)
    BY ZenonT(20), <1>0, <2>1 DEF Waited
  <2> QED  BY ZenonT(20), <1>0, <2>1, <2>2, <2>3, <2>4 DEF Covered
<1>2. CASE known # "none"
  <2>1. /\ touched \subseteq touched' /\ touched' \subseteq Heights
        /\ pull' = PullParent(pull, h) /\ confirm' = Cleaning(h, inLoop)
    BY Zenon, <1>0, <1>2 DEF ConfirmBlock, SelfAgreementResult
  <2>2. /\ pull' \in [Heights -> Kinds]
        /\ \A g \in Heights : pull'[g] = pull[g] \/ (pull[g] = "none" /\ pull'[g] = "parent")
        /\ confirmed(h - 1) \/ (h - 1 \in Heights /\ pull'[h - 1] # "none")
    BY <1>0, <2>1, PullParentFacts
  <2>3. \A g \in Heights : /\ pull'[g] = "votes" => Origin(g, TRUE)
                           /\ pull'[g] = "result" => Origin(g, FALSE)
    BY ZenonT(20), <1>0, <2>2 DEF Waited
  <2>4. Covered(h - 1)'
    <3>1. CASE confirmed(h - 1)
      <4>1. h - 1 \in 0..LastHeight
        BY HeightTypes
      <4> QED  BY Zenon, <3>1, <4>1 DEF Covered, Keeps, Confirms, confirmed
    <3>2. CASE h - 1 \in Heights /\ pull'[h - 1] # "none"
      BY Zenon, <3>2, InFlightFacts DEF Covered
    <3> QED  BY Zenon, <2>2, <3>1, <3>2
  <2>5. /\ queue' \in Seq(Queueable) /\ Covered(h)'
        /\ Entries(queue) \subseteq Entries(queue')
        /\ \A b \in Entries(queue') : b \in Entries(queue) \/ Fits(b)'
    <3>1. CASE h \in empty
      <4>1. queue' = queue /\ h \in touched'
        BY Zenon, <1>2, <2>1, <3>1 DEF ConfirmBlock, Origin
      <4> QED  BY Zenon, <1>0, <3>1, <4>1 DEF Covered
    <3>2. CASE h \notin empty
      <4> DEFINE b == [height |-> h, final |-> votes \/ known = "final"]
      <4>1. queue' = Append(queue, b)
        BY Zenon, <1>2, <3>2 DEF ConfirmBlock, Enqueue
      <4>2. b \in Queueable /\ b.height = h
        BY Zenon DEF Queueable
      <4>3. b.final \/ Announced(h)
        BY ZenonT(20), <1>2 DEF Origin
      <4> HIDE DEF b
      <4>4. queue' \in Seq(Queueable) /\ Entries(queue') = Entries(queue) \cup {b}
        BY <1>0, <4>1, <4>2, AppendEntries
      <4>5. Announced(h) => Announced(h)'
        <5>1. h \in 0..LastHeight
          BY HeightTypes
        <5> QED  BY Zenon, <5>1 DEF Announced, Keeps, Confirms, confirmed
      <4>6. Fits(b)'
        BY Zenon, <2>4, <4>2, <4>3, <4>5 DEF Fits
      <4>7. Covered(h)'
        BY Zenon, <4>2, <4>4, InFlightFacts DEF Covered
      <4> QED  BY Zenon, <4>4, <4>6, <4>7
    <3> QED  BY Zenon, <3>1, <3>2
  <2>6. ASSUME NEW g \in Heights, InFlight(g) PROVE Covered(g)'
    <3>1. CASE g = h
      BY Zenon, <2>5, <3>1
    <3>2. CASE g # h
      <4>1. InFlight(g)'
        BY Zenon, <2>2, <2>5, <2>6, <3>2, InFlightFacts
      <4> QED  BY Zenon, <4>1 DEF Covered
    <3> QED  BY Zenon, <3>1, <3>2
  <2> QED  BY ZenonT(20), <2>1, <2>2, <2>3, <2>5, <2>6
<1> QED  BY ZenonT(20), <1>1, <1>2

-----------------------------------------------------------------------------
(* Types of the agreement, of its loop and of the calls. *)

Candidates == [Heights -> {"none", "plain", "final"}]
Agreements == [pos : Positions, out : BOOLEAN, candidate : Candidates]
Loops == [pc : {"runBA", "loop", "wait", "poll", "restart", "sleep"},
          round : 1..2, old : Positions, at : Positions, ret : {"poll", "loop"}]
Calls == [stage : {"idle", "clean", "send"}, height : 0..LastHeight, msg : BOOLEAN]
Steps == [pc : {"idle", "sync", "confirm"}, height : 0..LastHeight]

\* TypeOK in terms of the records, and back.
LEMMA Typed ==
  TypeOK <=> /\ empty \subseteq EmptyHeights
             /\ bc \in Chains /\ bc.delivered <= bc.tip
             /\ agr \in Agreements /\ msg \in Steps /\ touched \subseteq Heights
             /\ pull \in [Heights -> Kinds]
             /\ pulled \subseteq [height : Heights, votes : BOOLEAN, added : BOOLEAN]
             /\ queue \in Seq(Queueable)
             /\ notary \in Seq(Positions) /\ Len(notary) <= 1
             /\ confirm \in Calls /\ ba \in Loops
BY Zenon DEF TypeOK, Agreements, Candidates, Steps, Kinds, Queueable, Calls, Loops

LEMMA TypedNext ==
  TypeOK' <=> /\ empty' \subseteq EmptyHeights
              /\ bc' \in Chains /\ bc'.delivered <= bc'.tip
              /\ agr' \in Agreements /\ msg' \in Steps /\ touched' \subseteq Heights
              /\ pull' \in [Heights -> Kinds]
              /\ pulled' \subseteq [height : Heights, votes : BOOLEAN, added : BOOLEAN]
              /\ queue' \in Seq(Queueable)
              /\ notary' \in Seq(Positions) /\ Len(notary') <= 1
              /\ confirm' \in Calls /\ ba' \in Loops
BY Zenon DEF TypeOK, Agreements, Candidates, Steps, Kinds, Queueable, Calls, Loops

\* Positions of the agreement.
LEMMA PositionTypes ==
  /\ \A h \in 0..LastHeight : Position(h) \in Positions
  /\ Stopped \in Positions
  /\ \A r \in 1..2 : [round |-> r, height |-> MaxUint64] \in Positions
  /\ \A r \in 1..2, h \in 0..LastHeight : [round |-> r, height |-> h + 1] \in Positions
BY HeightTypes DEF Position, Round, Positions, Stopped

\* restart, the output of the agreement and the call that cleans the channel
\* keep their types.
LEMMA RestartTypes ==
  ASSUME TypeOK, NEW p \in Positions, restart(p)
  PROVE  agr' \in Agreements
<1>1. Replayed(p) \subseteq Candidates
  BY Zenon DEF Replayed, Candidates
<1>2. CASE agr' = agr
  BY Zenon, <1>2, Typed
<1>3. CASE \E c \in Replayed(p) : agr' = [pos |-> p, out |-> FALSE, candidate |-> c]
  BY <1>1, <1>3 DEF Agreements
<1> QED  BY Zenon, <1>2, <1>3 DEF restart

LEMMA OutputTypes ==
  ASSUME NEW a \in Agreements, NEW c \in Candidates
  PROVE  [a EXCEPT !.out = TRUE, !.candidate = c] \in Agreements
BY ZenonT(20) DEF Agreements

LEMMA CleaningTypes ==
  ASSUME NEW h \in Heights, NEW b \in BOOLEAN
  PROVE  /\ Cleaning(h, b) \in Calls /\ Cleaning(h, b).stage = "clean"
         /\ Cleaning(h, b).msg = b
BY HeightTypes DEF Cleaning, Calls

\* A step that moves neither the chain nor the work keeps the invariant.
LEMMA QuietStep ==
  ASSUME CoreInv, TypeOK', BlockedAtRoundStart',
         UNCHANGED <<empty, bc, messages, pulling, queue>>
  PROVE  CoreInv'
<1>1. /\ empty' = empty /\ bc' = bc /\ msg' = msg /\ touched' = touched
      /\ pull' = pull /\ pulled' = pulled /\ queue' = queue
  BY Zenon DEF messages, pulling
<1>2. Sound(bc)' /\ Gaps' /\ Queued'
  BY <1>1, Zenon DEF CoreInv, Gaps, Queued, Fits, Covered, Announced, confirmed, InFlight, Entries
<1>3. Pulled' /\ Waited' /\ Syncing'
  BY <1>1, Zenon DEF CoreInv, Pulled, Waited, Syncing, Origin, Announced, confirmed
<1> QED  BY Zenon, <1>2, <1>3 DEF CoreInv

\* A step that starts no blocked send and leaves the channel alone blocks nobody.
LEMMA NotBlocked ==
  ASSUME BlockedAtRoundStart, notary' = notary,
         confirm' = confirm \/ confirm'.stage # "send"
  PROVE  BlockedAtRoundStart'
BY Zenon DEF BlockedAtRoundStart, SendBlocked

LEMMA ReceiveBlockInv ==
  ASSUME CoreInv, NEW h \in Heights, ReceiveBlock(h)
  PROVE  CoreInv'
<1>1. /\ agr' = [agr EXCEPT !.candidate[h] = "plain"]
      /\ UNCHANGED <<empty, bc, messages, pulling, queue, notary, confirm, ba>>
  BY Zenon DEF ReceiveBlock
<1>2. agr' \in Agreements
  BY Zenon, <1>1, Typed DEF CoreInv, Agreements, Candidates
<1>3. TypeOK'
  BY Zenon, <1>1, <1>2, Typed, TypedNext DEF CoreInv, messages, pulling
<1>4. BlockedAtRoundStart'
  BY Zenon, <1>1, NotBlocked DEF CoreInv
<1> QED  BY Zenon, <1>1, <1>3, <1>4, QuietStep

\* A step of the chain and of what the message loop knows.
LEMMA ChainStep ==
  ASSUME CoreInv, TypeOK', Sound(bc)', BlockedAtRoundStart', Syncing',
         empty' = empty, touched \subseteq touched', Keeps(bc, bc'),
         bc'.pending \subseteq bc.pending, UNCHANGED <<pull, pulled, queue>>
  PROVE  CoreInv'
<1>1. \A g \in Heights : InFlight(g) => Covered(g)'
  BY Zenon DEF InFlight, Covered
<1>2. /\ \A b \in pulled' : Origin(b.height, b.votes)
      /\ \A h \in Heights : /\ pull'[h] = "votes" => Origin(h, TRUE)
                            /\ pull'[h] = "result" => Origin(h, FALSE)
  BY ZenonT(20) DEF CoreInv, Pulled, Waited
<1> QED  BY ZenonT(20), <1>1, <1>2, StepKeeps

\* What the message loop is at stays justified.
LEMMA SyncingStays ==
  ASSUME CoreInv, empty' = empty, touched \subseteq touched', Keeps(bc, bc'),
         msg' = msg \/ msg'.pc # "sync"
  PROVE  Syncing'
<1>1. CASE msg'.pc # "sync"
  BY Zenon, <1>1 DEF Syncing
<1>2. CASE msg' = msg /\ msg.pc = "sync"
  <2>1. msg.height \in Heights /\ msg.height \in touched /\ Announced(msg.height)
    BY Zenon, <1>2 DEF CoreInv, Syncing, Origin
  <2>2. Announced(msg.height)'
    BY <1>2, <2>1, HeightTypes DEF Announced, Keeps, Confirms, confirmed
  <2> QED  BY Zenon, <1>2, <2>1, <2>2 DEF Syncing, Origin
<1> QED  BY Zenon, <1>1, <1>2

LEMMA ConfirmEmptyInv ==
  ASSUME CoreInv, NEW h \in Heights, ConfirmEmpty(h), agr' \in Agreements,
         UNCHANGED <<empty, msg, pulled, notary, ba>>
  PROVE  CoreInv'
<1>0. /\ Sound(bc) /\ bc \in Chains /\ bc.tip \in Nat /\ h \in Nat
      /\ touched \subseteq Heights /\ TypeOK /\ BlockedAtRoundStart
      /\ UNCHANGED <<pull, queue>>
  BY Zenon, ChainFields, HeightTypes, CoreTypes DEF CoreInv, ConfirmEmpty
<1>1. /\ Sound(bc)' /\ Keeps(bc, bc') /\ bc'.pending \subseteq bc.pending
      /\ touched \subseteq touched' /\ touched' \subseteq Heights
      /\ confirm' = confirm \/ confirm' = Cleaning(h, FALSE)
  <2>1. CASE bc' = bc /\ touched' = touched /\ confirm' = confirm
    BY Zenon, <1>0, <2>1 DEF Keeps
  <2>2. CASE /\ h = bc.tip + 1 /\ bc' = addEmptyBlock(bc, h)
             /\ SelfAgreementResult(h) /\ confirm' = Cleaning(h, FALSE)
    <3>1. touched \subseteq touched' /\ touched' \subseteq Heights
      BY Zenon, <1>0, <2>2 DEF SelfAgreementResult
    <3> QED  BY Zenon, <1>0, <2>2, <3>1, AddEmptySound
  <2>3. CASE /\ h > bc.tip + 1 /\ bc' = [bc EXCEPT !.missing = @ \cup {h}]
             /\ touched' = touched /\ confirm' = confirm
    <3>1. /\ bc' \in Chains /\ bc'.tip = bc.tip /\ bc'.delivered = bc.delivered
          /\ bc'.pending = bc.pending /\ bc'.missing = bc.missing \cup {h}
          /\ bc'.pendingRandomness = bc.pendingRandomness
      BY Zenon, <1>0, <2>3 DEF Chains
    <3>2. Sound(bc)'
      BY Zenon, <1>0, <2>3, <3>1 DEF Sound
    <3> QED  BY Zenon, <1>0, <2>3, <3>1, <3>2 DEF Keeps, Confirms
  <2> QED  BY ZenonT(20), <2>1, <2>2, <2>3 DEF ConfirmEmpty
<1>2. confirm' \in Calls /\ (confirm' = confirm \/ confirm'.stage # "send")
  <2>1. confirm \in Calls
    BY Zenon, <1>0, Typed
  <2> QED  BY ZenonT(30), <1>1, <2>1, CleaningTypes
<1>3. TypeOK'
  BY Zenon, <1>0, <1>1, <1>2, Typed, TypedNext DEF Sound
<1>4. BlockedAtRoundStart'
  BY Zenon, <1>0, <1>2, NotBlocked
<1>5. Syncing'
  BY Zenon, <1>1, SyncingStays
<1> QED  BY Zenon, <1>0, <1>1, <1>3, <1>4, <1>5, ChainStep

\* ConfirmBlock for height h in a step that may also deliver blocks and take
\* one of height h from the pulled ones.
LEMMA ConfirmBlockInv ==
  ASSUME CoreInv, NEW h \in Heights, NEW known \in {"none", "plain", "final"},
         NEW votes \in BOOLEAN, NEW inLoop \in BOOLEAN,
         ConfirmBlock(h, known, votes, inLoop),
         Origin(h, votes) \/ (known = "final" /\ h \notin empty),
         UNCHANGED <<empty, notary, ba>>, agr' \in Agreements, msg' \in Steps,
         Sound(bc)', Keeps(bc, bc'), bc'.pending \subseteq bc.pending,
         pulled' \subseteq pulled, \A b \in pulled : b \in pulled' \/ b.height = h,
         msg' = msg \/ msg'.pc # "sync"
  PROVE  CoreInv'
<1>0. TypeOK /\ BlockedAtRoundStart /\ Pulled
  BY Zenon DEF CoreInv
<1>1. /\ touched \subseteq touched' /\ touched' \subseteq Heights
      /\ pull' \in [Heights -> Kinds] /\ queue' \in Seq(Queueable)
      /\ confirm' = confirm \/ confirm' = Cleaning(h, inLoop)
      /\ \A g \in Heights : InFlight(g) => Covered(g)'
      /\ \A b \in Entries(queue') : b \in Entries(queue) \/ Fits(b)'
      /\ \A g \in Heights : /\ pull'[g] = "votes" => Origin(g, TRUE)
                            /\ pull'[g] = "result" => Origin(g, FALSE)
  BY ZenonT(30), ConfirmBlockFlow
<1>2. confirm' \in Calls /\ (confirm' = confirm \/ confirm'.stage # "send")
  <2>1. confirm \in Calls
    BY Zenon, <1>0, Typed
  <2> QED  BY Zenon, <1>1, <2>1, CleaningTypes
<1>3. TypeOK'
  BY Zenon, <1>0, <1>1, <1>2, Typed, TypedNext DEF Sound
<1>4. BlockedAtRoundStart'
  BY Zenon, <1>0, <1>2, NotBlocked
<1>5. Syncing'
  BY Zenon, <1>1, SyncingStays
<1>6. \A b \in pulled' : Origin(b.height, b.votes)
  BY Zenon, <1>0 DEF Pulled
<1> QED  BY ZenonT(20), <1>1, <1>3, <1>4, <1>5, <1>6, StepKeeps

LEMMA ReceiveVotesInv ==
  ASSUME CoreInv, NEW h \in Heights, ReceiveVotes(h)
  PROVE  CoreInv'
<1>1. /\ agr \in Agreements /\ agr.candidate \in Candidates /\ msg \in Steps
      /\ Sound(bc)
  BY SMTT(30), Typed DEF CoreInv, Agreements
<1>2. agr' \in Agreements /\ UNCHANGED <<empty, msg, pulled, notary, ba>>
  BY ZenonT(20), <1>1, OutputTypes DEF ReceiveVotes, Output
<1>3. CASE h \in empty
  BY Zenon, <1>2, <1>3, ConfirmEmptyInv DEF ReceiveVotes
<1>4. CASE h \notin empty
  <2>1. ConfirmBlock(h, agr.candidate[h], TRUE, FALSE) /\ bc' = bc
    BY ZenonT(20), <1>4 DEF ReceiveVotes
  <2>2. agr.candidate[h] \in {"none", "plain", "final"}
    BY Zenon, <1>1 DEF Candidates
  <2>3. Sound(bc)' /\ Keeps(bc, bc')
    BY Zenon, <1>1, <2>1 DEF Keeps
  <2>4. Origin(h, TRUE)
    BY Zenon, <1>4 DEF Origin
  <2> QED  BY ZenonT(20), <1>1, <1>2, <2>1, <2>2, <2>3, <2>4, ConfirmBlockInv
<1> QED  BY Zenon, <1>3, <1>4

LEMMA ReceiveFinalizedBlockInv ==
  ASSUME CoreInv, NEW h \in Heights, ReceiveFinalizedBlock(h)
  PROVE  CoreInv'
<1>1. /\ agr \in Agreements /\ agr.candidate \in Candidates /\ msg \in Steps
      /\ Sound(bc)
  BY Zenon, Typed DEF CoreInv, Agreements
<1>2. /\ UNCHANGED <<empty, bc, msg, pulled, notary, ba>>
      /\ ConfirmBlock(h, "final", FALSE, FALSE) /\ h \notin empty
      /\ agr' = Output([agr.candidate EXCEPT ![h] = "final"])
  BY ZenonT(20) DEF ReceiveFinalizedBlock
<1>3. agr' \in Agreements
  <2>1. [agr.candidate EXCEPT ![h] = "final"] \in Candidates
    BY Zenon, <1>1 DEF Candidates
  <2> QED  BY ZenonT(20), <1>1, <1>2, <2>1, OutputTypes DEF Output
<1>4. Sound(bc)' /\ Keeps(bc, bc')
  BY Zenon, <1>1, <1>2 DEF Keeps
<1> QED  BY ZenonT(20), <1>1, <1>2, <1>3, <1>4, ConfirmBlockInv

LEMMA ConfirmPulledInv ==
  ASSUME CoreInv, NEW b \in pulled, ConfirmPulled(b)
  PROVE  CoreInv'
<1>1. /\ agr \in Agreements /\ agr.candidate \in Candidates /\ msg \in Steps
      /\ Sound(bc) /\ b.height \in Heights /\ b.votes \in BOOLEAN
      /\ Origin(b.height, b.votes)
  BY Zenon, Typed DEF CoreInv, Agreements, Pulled
<1>2. /\ UNCHANGED <<empty, bc, agr, msg, notary, ba>> /\ pulled' = pulled \ {b}
      /\ ConfirmBlock(b.height, agr.candidate[b.height], b.votes, FALSE)
  BY ZenonT(20) DEF ConfirmPulled
<1>3. agr.candidate[b.height] \in {"none", "plain", "final"}
  BY Zenon, <1>1 DEF Candidates
<1>4. Sound(bc)' /\ Keeps(bc, bc')
  BY Zenon, <1>1, <1>2 DEF Keeps
<1>5. pulled' \subseteq pulled /\ \A x \in pulled : x \in pulled' \/ x.height = b.height
  BY Zenon, <1>2
<1> QED  BY ZenonT(30), <1>1, <1>2, <1>3, <1>4, <1>5, ConfirmBlockInv

LEMMA ReceiveResultInv ==
  ASSUME CoreInv, NEW h \in Heights, ReceiveResult(h)
  PROVE  CoreInv'
<1>0. /\ TypeOK /\ Sound(bc) /\ BlockedAtRoundStart /\ bc \in Chains
      /\ touched' = touched \cup {h} /\ touched \subseteq Heights
      /\ UNCHANGED <<empty, pull, pulled, queue, notary, confirm, ba>>
  BY Zenon, Typed DEF CoreInv, ReceiveResult, pulling
<1>1. PICK c : c = Learn(bc, h)
  BY Zenon
<1>2. /\ Sound(c) /\ Keeps(bc, c) /\ c.pending = bc.pending /\ c \in Chains
      /\ Confirms(c, h) \/ h \in c.pendingRandomness
  BY Zenon, <1>0, <1>1, LearnSound DEF Sound
<1>3. BlockedAtRoundStart'
  BY Zenon, <1>0, NotBlocked
<1>4. CASE bc' = c /\ restart(Position(h)) /\ msg' = [pc |-> "sync", height |-> h]
  <2>1. agr' \in Agreements
    BY SMTT(30), <1>0, <1>4, RestartTypes, PositionTypes, HeightTypes
  <2>2. msg' \in Steps
    BY <1>4, HeightTypes DEF Steps
  <2>3. TypeOK'
    BY ZenonT(30), <1>0, <1>2, <1>4, <2>1, <2>2, Typed, TypedNext DEF Sound
  <2>4. Syncing'
    BY Zenon, <1>0, <1>2, <1>4 DEF Syncing, Origin, Announced, confirmed, Confirms
  <2> QED  BY ZenonT(30), <1>0, <1>2, <1>3, <1>4, <2>3, <2>4, ChainStep
<1>5. CASE bc' = extractBlocks(c) /\ UNCHANGED <<agr, msg>>
  <2>1. Sound(bc)' /\ Keeps(c, bc') /\ bc'.pending = bc.pending /\ bc' \in Chains
    BY Zenon, <1>2, <1>5, ExtractSound DEF Sound
  <2>2. Keeps(bc, bc')
    BY Zenon, <1>0, <1>2, <2>1, KeepsTransitive
  <2>3. TypeOK'
    BY Zenon, <1>0, <1>5, <2>1, Typed, TypedNext DEF Sound
  <2>4. Syncing'
    BY Zenon, <1>0, <1>5, <2>2, SyncingStays
  <2> QED  BY Zenon, <1>0, <1>3, <2>1, <2>2, <2>3, <2>4, ChainStep
<1> QED  BY Zenon, <1>1, <1>4, <1>5 DEF ReceiveResult

LEMMA ProcessResultInv ==
  ASSUME CoreInv, ProcessResult
  PROVE  CoreInv'
<1>0. /\ TypeOK /\ Sound(bc) /\ BlockedAtRoundStart /\ agr \in Agreements
      /\ agr.candidate \in Candidates /\ msg \in Steps
      /\ UNCHANGED <<empty, pulled, notary, ba>>
  BY Zenon, Typed DEF CoreInv, ProcessResult, Agreements
<1>1. PICK h : h = msg.height
  BY Zenon
<1>2. h \in Heights /\ Origin(h, FALSE)
  BY ZenonT(20), <1>1 DEF CoreInv, Syncing, ProcessResult
<1>3. msg' \in Steps /\ msg'.pc # "sync"
  <2>1. CASE msg' = [msg EXCEPT !.pc = "confirm"]
    BY Zenon, <1>0, <2>1 DEF Steps
  <2>2. CASE msg' = Idle
    BY <2>2, HeightTypes DEF Idle, Steps
  <2> QED  BY Zenon, <2>1, <2>2 DEF ProcessResult
<1>4. Sound(bc)' /\ Keeps(bc, bc') /\ bc'.pending \subseteq bc.pending
  <2>1. CASE bc' = bc
    BY Zenon, <1>0, <2>1 DEF Keeps
  <2>2. CASE bc' = extractBlocks(bc)
    BY Zenon, <1>0, <2>2, ExtractSound
  <2> QED  BY Zenon, <2>1, <2>2 DEF ProcessResult
<1>5. CASE /\ agr' = Output(agr.candidate)
           /\ ConfirmBlock(h, agr.candidate[h], FALSE, TRUE)
  <2>1. agr' \in Agreements
    BY ZenonT(20), <1>0, <1>5, OutputTypes DEF Output
  <2>2. agr.candidate[h] \in {"none", "plain", "final"}
    BY Zenon, <1>0, <1>2 DEF Candidates
  <2> QED  BY ZenonT(20), <1>0, <1>2, <1>3, <1>4, <1>5, <2>1, <2>2, ConfirmBlockInv
<1>6. CASE UNCHANGED <<agr, touched, pull, queue, confirm>>
  <2>1. TypeOK'
    BY Zenon, <1>0, <1>3, <1>4, <1>6, Typed, TypedNext DEF Sound
  <2>2. BlockedAtRoundStart'
    BY Zenon, <1>0, <1>6, NotBlocked
  <2>3. Syncing'
    BY Zenon, <1>3 DEF Syncing
  <2> QED  BY Zenon, <1>0, <1>4, <1>6, <2>1, <2>2, <2>3, ChainStep
<1> QED  BY ZenonT(20), <1>1, <1>5, <1>6 DEF ProcessResult

LEMMA ReceivePulledBlockInv ==
  ASSUME CoreInv, NEW h \in Heights, ReceivePulledBlock(h)
  PROVE  CoreInv'
<1> DEFINE rest == [pull EXCEPT ![h] = "none"]
<1>0. /\ TypeOK /\ Sound(bc) /\ BlockedAtRoundStart /\ Waited /\ Pulled /\ Syncing
      /\ pull \in [Heights -> Kinds] /\ queue \in Seq(Queueable)
      /\ UNCHANGED <<empty, bc, agr, msg, touched, notary, confirm, ba>>
  BY Zenon, Typed DEF CoreInv, ReceivePulledBlock, messages
<1>1. /\ rest \in [Heights -> Kinds] /\ rest[h] = "none"
      /\ \A g \in Heights : g # h => rest[g] = pull[g]
  BY Zenon, <1>0 DEF Kinds
<1> HIDE DEF rest
<1>2. BlockedAtRoundStart' /\ Keeps(bc, bc') /\ Syncing'
  <2>1. Keeps(bc, bc')
    BY Zenon, <1>0 DEF Keeps
  <2> QED  BY Zenon, <1>0, <2>1, NotBlocked, SyncingStays
<1>3. CASE pull[h] = "parent"
  <2> DEFINE b == [height |-> h, final |-> TRUE]
  <2>1. /\ queue' = Append(queue, b) /\ pull' = PullParent(rest, h)
        /\ pulled' = pulled
    BY Zenon, <1>3 DEF ReceivePulledBlock, Enqueue, rest
  <2>2. b \in Queueable /\ b.height = h /\ b.final
    BY Zenon DEF Queueable
  <2> HIDE DEF b
  <2>3. queue' \in Seq(Queueable) /\ Entries(queue') = Entries(queue) \cup {b}
    BY <1>0, <2>1, <2>2, AppendEntries
  <2>4. /\ pull' \in [Heights -> Kinds]
        /\ \A g \in Heights : pull'[g] = rest[g] \/ (rest[g] = "none" /\ pull'[g] = "parent")
        /\ confirmed(h - 1) \/ (h - 1 \in Heights /\ pull'[h - 1] # "none")
    BY <1>1, <2>1, PullParentFacts
  <2>5. TypeOK'
    BY Zenon, <1>0, <2>1, <2>3, <2>4, Typed, TypedNext
  <2>6. ASSUME NEW g \in Heights, InFlight(g) PROVE Covered(g)'
    <3>1. InFlight(g)'
      BY <1>1, <2>1, <2>2, <2>3, <2>4, <2>6, InFlightFacts
    <3> QED  BY Zenon, <3>1 DEF Covered
  <2>7. Covered(h - 1)'
    BY Zenon, <1>0, <2>4, InFlightFacts DEF Covered, confirmed
  <2>8. \A x \in Entries(queue') : x \in Entries(queue) \/ Fits(x)'
    BY Zenon, <2>2, <2>3, <2>7 DEF Fits
  <2>9. \A g \in Heights : /\ pull'[g] = "votes" => Origin(g, TRUE)
                           /\ pull'[g] = "result" => Origin(g, FALSE)
    BY ZenonT(20), <1>0, <1>1, <2>4 DEF Waited
  <2>10. \A x \in pulled' : Origin(x.height, x.votes)
    BY Zenon, <1>0, <2>1 DEF Pulled
  <2> QED  BY ZenonT(30), <1>0, <1>2, <2>5, <2>6, <2>8, <2>9, <2>10, StepKeeps
<1>4. CASE pull[h] # "parent"
  <2> DEFINE b == [height |-> h, votes |-> pull[h] = "votes", added |-> FALSE]
  <2>1. /\ pulled' = pulled \cup {b} /\ pull' = rest /\ queue' = queue
        /\ pull[h] \in {"votes", "result"}
    BY Zenon, <1>0, <1>4 DEF ReceivePulledBlock, rest, Kinds
  <2>2. /\ b \in [height : Heights, votes : BOOLEAN, added : BOOLEAN]
        /\ b.height = h /\ Origin(b.height, b.votes)
    BY ZenonT(20), <1>0, <2>1 DEF Waited
  <2> HIDE DEF b
  <2>3. TypeOK'
    BY ZenonT(30), <1>0, <1>1, <2>1, <2>2, Typed, TypedNext
  <2>4. ASSUME NEW g \in Heights, InFlight(g) PROVE Covered(g)'
    <3>1. InFlight(g)'
      BY Zenon, <1>1, <2>1, <2>2, <2>4, InFlightFacts
    <3> QED  BY Zenon, <3>1 DEF Covered
  <2>5. \A g \in Heights : /\ pull'[g] = "votes" => Origin(g, TRUE)
                           /\ pull'[g] = "result" => Origin(g, FALSE)
    BY ZenonT(20), <1>0, <1>1, <2>1 DEF Waited
  <2>6. \A x \in pulled' : Origin(x.height, x.votes)
    BY Zenon, <1>0, <2>1, <2>2 DEF Pulled
  <2> QED  BY ZenonT(30), <1>0, <1>2, <2>1, <2>3, <2>4, <2>5, <2>6, StepKeeps
<1> QED  BY SMTT(30), <1>3, <1>4

LEMMA AddCandidateInv ==
  ASSUME CoreInv, NEW b \in pulled, AddCandidate(b)
  PROVE  CoreInv'
<1> DEFINE a == [b EXCEPT !.added = TRUE]
<1>0. /\ TypeOK /\ Sound(bc) /\ BlockedAtRoundStart /\ Waited /\ Pulled /\ Syncing
      /\ UNCHANGED <<empty, bc, msg, touched, pull, queue, notary, confirm, ba>>
      /\ pulled' = (pulled \ {b}) \cup {a}
      /\ agr' = [agr EXCEPT !.candidate[b.height] = "final"]
  BY Zenon DEF CoreInv, AddCandidate, messages
<1>1. b \in [height : Heights, votes : BOOLEAN, added : BOOLEAN]
  BY Zenon, <1>0, Typed
<1>2. /\ a \in [height : Heights, votes : BOOLEAN, added : BOOLEAN]
      /\ a.height = b.height /\ a.votes = b.votes
  BY ZenonT(20), <1>1
<1> HIDE DEF a
<1>3. agr' \in Agreements
  BY SMTT(30), <1>0, <1>1, Typed DEF Agreements, Candidates
<1>4. TypeOK'
  BY Zenon, <1>0, <1>2, <1>3, Typed, TypedNext
<1>5. BlockedAtRoundStart' /\ Keeps(bc, bc')
  BY Zenon, <1>0, NotBlocked DEF Keeps
<1>6. Syncing'
  BY Zenon, <1>0, <1>5, SyncingStays
<1>7. ASSUME NEW g \in Heights, InFlight(g) PROVE Covered(g)'
  <2>1. InFlight(g)'
    BY Zenon, <1>0, <1>2, <1>7, InFlightFacts
  <2> QED  BY Zenon, <2>1 DEF Covered
<1>8. \A x \in pulled' : Origin(x.height, x.votes)
  BY Zenon, <1>0, <1>2 DEF Pulled
<1>9. \A h \in Heights : /\ pull'[h] = "votes" => Origin(h, TRUE)
                         /\ pull'[h] = "result" => Origin(h, FALSE)
  BY ZenonT(20), <1>0 DEF Waited
<1> QED  BY ZenonT(20), <1>0, <1>4, <1>5, <1>6, <1>7, <1>8, <1>9, StepKeeps

LEMMA CleanChannelInv ==
  ASSUME CoreInv, CleanChannel
  PROVE  CoreInv'
<1>1. /\ TypeOK /\ agr.pos \in Positions /\ confirm \in Calls /\ ba \in Loops
      /\ UNCHANGED <<empty, bc, agr, messages, pulling, queue>>
      /\ notary' = <<>> /\ confirm' = [confirm EXCEPT !.stage = "send"]
  BY Zenon, Typed DEF CoreInv, CleanChannel, Agreements
<1>2. confirm' \in Calls
  BY Zenon, <1>1 DEF Calls
<1>3. ba' \in Loops
  <2>1. CASE ba' = ba
    BY Zenon, <1>1, <2>1
  <2>2. CASE ba' = [ba EXCEPT !.pc = "loop", !.old = agr.pos]
    BY ZenonT(20), <1>1, <2>2 DEF Loops
  <2> QED  BY Zenon, <2>1, <2>2 DEF CleanChannel
<1>4. TypeOK'
  BY <1>1, <1>2, <1>3, Typed, TypedNext DEF messages, pulling
<1>5. BlockedAtRoundStart'
  BY Zenon, <1>1 DEF BlockedAtRoundStart, SendBlocked
<1> QED  BY Zenon, <1>1, <1>4, <1>5, QuietStep

LEMMA SendPositionInv ==
  ASSUME CoreInv, SendPosition
  PROVE  CoreInv'
<1>1. /\ TypeOK /\ Sound(bc) /\ confirm \in Calls /\ msg \in Steps
      /\ UNCHANGED <<empty, agr, touched, pull, pulled, queue, ba>>
      /\ notary' = <<Position(confirm.height)>> /\ confirm' = NoCall
  BY Zenon, Typed DEF CoreInv, SendPosition, pulling
<1>2. confirm' \in Calls /\ confirm'.stage = "idle"
  BY <1>1, HeightTypes DEF Calls, NoCall
<1>3. notary' \in Seq(Positions) /\ Len(notary') <= 1
  <2>1. Position(confirm.height) \in Positions
    BY Zenon, <1>1, PositionTypes DEF Calls
  <2> QED  BY <1>1, <2>1
<1>4. /\ Sound(bc)' /\ Keeps(bc, bc') /\ bc'.pending \subseteq bc.pending
      /\ msg' \in Steps /\ (msg' = msg \/ msg'.pc # "sync")
  <2>1. CASE bc' = bc /\ msg' = msg
    BY Zenon, <1>1, <2>1 DEF Keeps
  <2>2. CASE bc' = extractBlocks(bc) /\ msg' = Idle
    <3>1. msg' \in Steps /\ msg'.pc # "sync"
      BY <2>2, HeightTypes DEF Idle, Steps
    <3> QED  BY Zenon, <1>1, <2>2, <3>1, ExtractSound
  <2> QED  BY Zenon, <2>1, <2>2 DEF SendPosition
<1>5. TypeOK'
  BY Zenon, <1>1, <1>2, <1>3, <1>4, Typed, TypedNext DEF Sound
<1>6. BlockedAtRoundStart'
  BY Zenon, <1>2 DEF BlockedAtRoundStart, SendBlocked
<1>7. Syncing'
  BY Zenon, <1>1, <1>4, SyncingStays
<1> QED  BY Zenon, <1>1, <1>4, <1>5, <1>6, <1>7, ChainStep

LEMMA ProcessBlockInv ==
  ASSUME CoreInv, ProcessBlock
  PROVE  CoreInv'
<1>0. /\ TypeOK /\ Sound(bc) /\ bc \in Chains /\ BlockedAtRoundStart /\ Waited
      /\ Pulled /\ Syncing /\ Queued /\ queue \in Seq(Queueable) /\ queue # <<>>
      /\ UNCHANGED <<empty, agr, msg, touched, pull, pulled, notary, confirm, ba>>
      /\ queue' = Tail(queue)
  BY Zenon, Typed DEF CoreInv, ProcessBlock, messages, pulling, Sound
<1>1. PICK b : b = Head(queue)
  BY Zenon
<1>2. /\ queue' \in Seq(Queueable) /\ b \in Queueable
      /\ Entries(queue) = Entries(queue') \cup {b}
  BY Zenon, <1>0, <1>1, TailEntries
<1>3. b.height \in Heights /\ b.final \in BOOLEAN /\ Fits(b)
  BY Zenon, <1>0, <1>2 DEF Queueable, Queued
<1>4. /\ Sound(bc)' /\ Keeps(bc, bc') /\ Confirms(bc', b.height)
      /\ bc'.pending \subseteq bc.pending \cup {b.height}
  <2>1. CASE b.final \/ b.height \in bc.pendingRandomness
    <3>1. PICK c : c = addBlock(bc, b.height, b.final)
      BY Zenon
    <3>2. bc' = extractBlocks(c)
      BY Zenon, <1>1, <2>1, <3>1 DEF ProcessBlock
    <3>3. /\ Sound(c) /\ Keeps(bc, c) /\ Confirms(c, b.height) /\ c \in Chains
          /\ c.pending \subseteq bc.pending \cup {b.height}
      BY ZenonT(30), <1>0, <1>3, <3>1, AddBlockSound DEF Sound
    <3>4. /\ Sound(bc)' /\ Keeps(c, bc') /\ bc'.pending = c.pending
          /\ Keeps(bc, bc')
      BY Zenon, <1>0, <3>2, <3>3, ExtractSound, KeepsTransitive
    <3>5. b.height \in 0..LastHeight
      BY <1>3, HeightTypes
    <3> QED  BY Zenon, <3>3, <3>4, <3>5 DEF Keeps
  <2>2. CASE ~(b.final \/ b.height \in bc.pendingRandomness)
    <3>1. bc' = bc
      BY Zenon, <1>1, <2>2 DEF ProcessBlock
    <3>2. Confirms(bc, b.height)
      BY Zenon, <1>3, <2>2 DEF Fits, Announced, confirmed, Confirms
    <3> QED  BY Zenon, <1>0, <3>1, <3>2 DEF Keeps
  <2> QED  BY Zenon, <2>1, <2>2
<1>5. TypeOK'
  BY Zenon, <1>0, <1>2, <1>4, Typed, TypedNext DEF Sound
<1>6. BlockedAtRoundStart' /\ Syncing'
  BY Zenon, <1>0, <1>4, NotBlocked, SyncingStays
<1>7. ASSUME NEW g \in Heights, InFlight(g) PROVE Covered(g)'
  <2>1. CASE g = b.height
    BY Zenon, <1>4, <2>1 DEF Covered, confirmed, Confirms
  <2>2. CASE g # b.height
    <3>1. InFlight(g)'
      BY Zenon, <1>0, <1>2, <1>7, <2>2, InFlightFacts
    <3> QED  BY Zenon, <3>1 DEF Covered
  <2> QED  BY Zenon, <2>1, <2>2
<1>8. \A h \in bc'.pending : h \in bc.pending \/ \E x \in Entries(queue) : x.height = h
  BY Zenon, <1>2, <1>4
<1>9. \A x \in Entries(queue') : x \in Entries(queue)
  BY Zenon, <1>2
<1>10. /\ \A x \in pulled' : Origin(x.height, x.votes)
       /\ \A h \in Heights : /\ pull'[h] = "votes" => Origin(h, TRUE)
                             /\ pull'[h] = "result" => Origin(h, FALSE)
  BY ZenonT(20), <1>0 DEF Pulled, Waited
<1> QED  BY ZenonT(30), <1>0, <1>4, <1>5, <1>6, <1>7, <1>8, <1>9, <1>10, StepKeeps

\* The agreement's loop moves nothing but restartNotary and the agreement.
LEMMA AgreementLoopInv ==
  ASSUME CoreInv, AgreementLoop
  PROVE  CoreInv'
<1>0. /\ TypeOK /\ BlockedAtRoundStart /\ agr.pos \in Positions /\ ba \in Loops
      /\ ba.round \in 1..2 /\ ba.old \in Positions /\ ba.ret \in {"poll", "loop"}
      /\ agr \in Agreements /\ notary \in Seq(Positions) /\ Len(notary) <= 1
      /\ bc.tip \in 0..LastHeight /\ Stopped \in Positions
  BY Zenon, Typed, ChainFields, PositionTypes DEF CoreInv, Agreements, Loops
<1>1. /\ UNCHANGED <<empty, bc, messages, pulling, queue, confirm>>
      /\ agr' \in Agreements
  <2>1. CASE RestartBA
    BY Zenon, <1>0, <2>1, RestartTypes DEF RestartBA
  <2>2. CASE agr' = agr /\ UNCHANGED <<empty, bc, messages, pulling, queue, confirm>>
    BY Zenon, <1>0, <2>2
  <2> QED  BY Zenon, <2>1, <2>2 DEF AgreementLoop, runBA, CheckConfirmed, WaitPosition,
              PollPosition, TakePosition, NextState, FinishRound, IgnoreOlder, NextBlock
<1>2. SUFFICES /\ ba' \in Loops /\ BlockedAtRoundStart'
               /\ notary' \in Seq(Positions) /\ Len(notary') <= 1
  <2>1. TypeOK'
    BY Zenon, <1>0, <1>1, <1>2, Typed, TypedNext DEF messages, pulling
  <2> QED  BY Zenon, <1>1, <1>2, <2>1, QuietStep
<1>3. CASE runBA
  <2>1. PICK p : p = [round |-> ba.round, height |-> MaxUint64]
    BY ZenonT(20)
  <2>2. p \in Positions /\ isStop(p)
    BY Zenon, <1>0, <2>1, PositionTypes DEF isStop
  <2>3. notary' = <<p>> /\ ba' = [ba EXCEPT !.pc = "loop", !.old = agr.pos]
    BY Zenon, <1>3, <2>1 DEF runBA
  <2>4. ba' \in Loops
    BY ZenonT(20), <1>0, <2>3 DEF Loops
  <2>5. notary' \in Seq(Positions) /\ Len(notary') <= 1 /\ Head(notary') = p
    BY <2>2, <2>3
  <2>6. BlockedAtRoundStart'
    BY Zenon, <2>2, <2>5 DEF BlockedAtRoundStart
  <2> QED  BY Zenon, <2>4, <2>5, <2>6
<1>4. ASSUME NEW ret \in {"poll", "loop"}, TakePosition(ret)
      PROVE  /\ ba' \in Loops /\ BlockedAtRoundStart'
             /\ notary' \in Seq(Positions) /\ Len(notary') <= 1
  <2>1. /\ notary # <<>> /\ notary' = <<>>
        /\ ba' = [ba EXCEPT !.pc = "restart", !.at = Head(notary), !.ret = ret]
    BY Zenon, <1>4 DEF TakePosition
  <2>2. Head(notary) \in Positions
    BY <1>0, <2>1
  <2>3. ba' \in Loops
    BY ZenonT(20), <1>0, <1>4, <2>1, <2>2 DEF Loops
  <2>4. BlockedAtRoundStart'
    BY Zenon, <2>1 DEF BlockedAtRoundStart, SendBlocked
  <2> QED  BY <2>1, <2>3, <2>4
<1>5. ASSUME NEW pc \in {"wait", "poll", "loop"}, BAGoes(pc)
      PROVE  ba' \in Loops
  BY ZenonT(20), <1>0, <1>5 DEF BAGoes, Loops
<1>6. ASSUME notary' = notary
      PROVE  /\ BlockedAtRoundStart'
             /\ notary' \in Seq(Positions) /\ Len(notary') <= 1
  BY Zenon, <1>0, <1>1, <1>6, NotBlocked
<1>7. CASE CheckConfirmed \/ NextState \/ IgnoreOlder \/ RestartBA
  BY Zenon, <1>0, <1>5, <1>6, <1>7 DEF CheckConfirmed, NextState, IgnoreOlder, RestartBA
<1>8. CASE WaitPosition \/ PollPosition
  BY Zenon, <1>4, <1>8 DEF WaitPosition, PollPosition
<1>9. CASE FinishRound
  <2>1. ba.round + 1 \in 1..2
    BY <1>0, <1>9 DEF FinishRound, tipRound, Round
  <2>2. ba' \in Loops
    BY Zenon, <1>0, <1>9, <2>1 DEF FinishRound, Loops
  <2> QED  BY ZenonT(30), <1>6, <1>9, <2>2 DEF FinishRound
<1>10. CASE NextBlock
  <2>1. PICK p : p = [round |-> ba.round, height |-> bc.tip + 1]
    BY ZenonT(20)
  <2>2. p \in Positions
    BY Zenon, <1>0, <2>1, PositionTypes
  <2>3. ba' = [ba EXCEPT !.pc = "sleep", !.at = Stopped, !.old = p]
    BY Zenon, <1>10, <2>1 DEF NextBlock
  <2>4. ba' \in Loops
    BY ZenonT(30), <1>0, <2>2, <2>3 DEF Loops
  <2> QED  BY Zenon, <1>6, <1>10, <2>4 DEF NextBlock
<1> QED  BY Zenon, <1>3, <1>7, <1>8, <1>9, <1>10 DEF AgreementLoop

\* The invariant holds at the start, and every step keeps it.
LEMMA CoreInit == Init => CoreInv
<1> SUFFICES ASSUME Init PROVE CoreInv
  BY Zenon
<1>1. /\ bc \in Chains /\ bc.tip = 0 /\ bc.delivered = 0 /\ bc.pending = {}
      /\ bc.missing = {} /\ bc.pendingRandomness = {}
  BY HeightTypes DEF Init, Chains
<1>2. agr \in Agreements /\ ba \in Loops
  BY PositionTypes DEF Init, Agreements, Candidates, Loops
<1>3. msg \in Steps /\ msg.pc = "idle" /\ confirm \in Calls /\ confirm.stage = "idle"
  BY HeightTypes DEF Init, Idle, NoCall, Steps, Calls
<1>4. /\ empty \subseteq EmptyHeights /\ touched = {} /\ pulled = {}
      /\ pull = [h \in Heights |-> "none"] /\ queue = <<>> /\ notary = <<>>
  BY Zenon DEF Init
<1>5. /\ queue \in Seq(Queueable) /\ Entries(queue) = {}
      /\ notary \in Seq(Positions) /\ Len(notary) <= 1
      /\ pull \in [Heights -> Kinds]
  BY <1>4 DEF Entries, Kinds
<1>6. TypeOK
  BY <1>1, <1>2, <1>3, <1>4, <1>5, Typed
<1>7. Sound(bc) /\ BlockedAtRoundStart
  BY <1>1, <1>3 DEF Sound, BlockedAtRoundStart, SendBlocked
<1> QED  BY Zenon, <1>1, <1>3, <1>4, <1>5, <1>6, <1>7
         DEF CoreInv, Gaps, Queued, Pulled, Waited, Syncing

LEMMA CoreStep == CoreInv /\ [Next]_vars => CoreInv'
<1> SUFFICES ASSUME CoreInv, [Next]_vars PROVE CoreInv'
  BY Zenon
<1>1. CASE Messages
  BY Zenon, <1>1, ReceiveBlockInv, ReceiveVotesInv, ReceiveResultInv, ReceiveFinalizedBlockInv,
     ReceivePulledBlockInv, ProcessResultInv DEF Messages
<1>2. CASE Goroutines
  BY Zenon, <1>2, AddCandidateInv, ConfirmPulledInv, CleanChannelInv, SendPositionInv,
     ProcessBlockInv DEF Goroutines
<1>3. CASE AgreementLoop
  BY Zenon, <1>3, AgreementLoopInv
<1>4. CASE UNCHANGED vars
  <2>1. /\ UNCHANGED <<empty, bc, agr, messages, pulling, queue, notary, confirm, ba>>
        /\ TypeOK /\ BlockedAtRoundStart
    BY Zenon, <1>4 DEF vars, CoreInv
  <2>2. TypeOK'
    BY Zenon, <2>1, Typed, TypedNext DEF messages, pulling
  <2>3. BlockedAtRoundStart'
    BY Zenon, <2>1, NotBlocked
  <2> QED  BY Zenon, <2>1, <2>2, <2>3, QuietStep
<1> QED  BY Zenon, <1>1, <1>2, <1>3, <1>4 DEF Next

LEMMA CoreInvariant == Spec => []CoreInv
BY CoreInit, CoreStep, PTL DEF Spec

\* Blocks are pending only beyond the next height of the chain, for any number
\* of heights, any set of empty ones and any size of processBlockChan: the
\* "unexpected case" panic of checkIfBlocksConfirmed is not reached.
THEOREM CoreNodePendingBeyondTip == Spec => []PendingBeyondTip
<1>1. CoreInv => PendingBeyondTip
  BY Zenon DEF CoreInv, Sound, PendingBeyondTip
<1> QED  BY <1>1, CoreInvariant, PTL

\* The parent of every pending block is confirmed, or somebody works on it, or
\* it is an empty block whose agreement result the node took.
THEOREM CoreNodeGapsPulled == Spec => []GapsPulled
<1>1. CoreInv => GapsPulled
  BY Zenon DEF CoreInv, Gaps, Covered, GapsPulled
<1> QED  BY <1>1, CoreInvariant, PTL

\* ConfirmBlock waits for restartNotary with the agreement's lock held only
\* behind the position runBA sends at the start of a round.
THEOREM CoreNodeBlockedAtRoundStart == Spec => []BlockedAtRoundStart
<1>1. CoreInv => BlockedAtRoundStart
  BY Zenon DEF CoreInv
<1> QED  BY <1>1, CoreInvariant, PTL

\* No step of the message loop, of a goroutine or of the agreement's own loop
\* takes the agreement back to a position it has left.
THEOREM CoreNodeAgreementForward == Spec => AgreementForward
<1> DEFINE Forward == isStop(agr.pos) \/ agr'.pos = agr.pos \/ Newer(agr'.pos, agr.pos)
<1>1. ASSUME TypeOK, Next PROVE Forward
  <2>0. agr \in Agreements
    BY Zenon, <1>1, Typed
  <2>1. ASSUME NEW p, restart(p) PROVE Forward
    <3>1. CASE agr' = agr
      BY Zenon, <3>1
    <3>2. CASE /\ isStop(agr.pos) \/ Newer(p, agr.pos)
               /\ \E c \in Replayed(p) : agr' = [pos |-> p, out |-> FALSE, candidate |-> c]
      <4>1. agr'.pos = p
        BY <3>2
      <4> QED  BY Zenon, <3>2, <4>1
    <3> QED  BY Zenon, <2>1, <3>1, <3>2 DEF restart
  <2>2. ASSUME NEW c, agr' = Output(c) PROVE Forward
    BY Zenon, <2>0, <2>2 DEF Output, Agreements
  <2>3. ASSUME NEW h, NEW v, agr' = [agr EXCEPT !.candidate[h] = v] PROVE Forward
    BY Zenon, <2>0, <2>3 DEF Agreements
  <2>4. ASSUME agr' = agr PROVE Forward
    BY Zenon, <2>4
  <2> HIDE DEF Forward
  <2>5. CASE Messages
    <3>1. ASSUME NEW h \in Heights, ReceiveBlock(h) PROVE Forward
      BY Zenon, <3>1, <2>3 DEF ReceiveBlock
    <3>2. ASSUME NEW h \in Heights, ReceiveVotes(h) PROVE Forward
      BY Zenon, <3>2, <2>2 DEF ReceiveVotes
    <3>3. ASSUME NEW h \in Heights, ReceiveResult(h) PROVE Forward
      BY Zenon, <3>3, <2>1, <2>4 DEF ReceiveResult
    <3>4. ASSUME NEW h \in Heights, ReceiveFinalizedBlock(h) PROVE Forward
      BY Zenon, <3>4, <2>2 DEF ReceiveFinalizedBlock
    <3>5. ASSUME NEW h \in Heights, ReceivePulledBlock(h) PROVE Forward
      BY Zenon, <3>5, <2>4 DEF ReceivePulledBlock
    <3>6. CASE ProcessResult
      BY ZenonT(20), <3>6, <2>2, <2>4 DEF ProcessResult
    <3> QED  BY Zenon, <2>5, <3>1, <3>2, <3>3, <3>4, <3>5, <3>6 DEF Messages
  <2>6. CASE Goroutines
    <3>1. ASSUME NEW b \in pulled, AddCandidate(b) PROVE Forward
      BY ZenonT(20), <3>1, <2>3 DEF AddCandidate
    <3>2. ASSUME NEW b \in pulled, ConfirmPulled(b) PROVE Forward
      BY Zenon, <3>2, <2>4 DEF ConfirmPulled
    <3>3. CASE CleanChannel \/ SendPosition \/ ProcessBlock
      BY Zenon, <3>3, <2>4 DEF CleanChannel, SendPosition, ProcessBlock
    <3> QED  BY Zenon, <2>6, <3>1, <3>2, <3>3 DEF Goroutines
  <2>7. CASE AgreementLoop
    <3>1. CASE RestartBA
      BY Zenon, <3>1, <2>1 DEF RestartBA
    <3>2. CASE agr' = agr
      BY Zenon, <3>2, <2>4
    <3> QED  BY Zenon, <2>7, <3>1, <3>2 DEF AgreementLoop, runBA, CheckConfirmed, WaitPosition,
                PollPosition, TakePosition, NextState, FinishRound, IgnoreOlder, NextBlock
  <2> QED  BY Zenon, <1>1, <2>5, <2>6, <2>7 DEF Next
<1>2. TypeOK /\ [Next]_vars => [Forward]_vars
  BY Zenon, <1>1
<1>3. Spec => []TypeOK
  <2>1. CoreInv => TypeOK
    BY Zenon DEF CoreInv
  <2> QED  BY <2>1, CoreInvariant, PTL
<1> QED  BY <1>2, <1>3, PTL DEF Spec, AgreementForward
=============================================================================
