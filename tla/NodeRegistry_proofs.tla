------------------------- MODULE NodeRegistry_proofs -------------------------
(***************************************************************************)
(* Proofs about NodeRegistry: the offset mappings stay inverses of the     *)
(* array of nodes, the cached size of the notary set is never stale, two   *)
(* conflicting messages are fined at most once, a fined node keeps its     *)
(* stake, the stakes and the balance of the contract are accounted for to  *)
(* the last unit, and the registry implements StakeBook.                   *)
(***************************************************************************)
EXTENDS NodeRegistry, TLAPS

(* The part of the state the mappings are about, with its type.            *)
RegistryInv ==
    /\ nodes \in Seq(NodeInfo)
    /\ nodesOffsetByAddress \in [Addresses -> Nat]
    /\ nodesOffsetByNodeKeyAddress \in [Keys -> Nat]
    /\ time \in Nat
    /\ OffsetsExact

(* The fine is one of its legal values.                                    *)
FineTyped == fineValue \in FineValues

(* What is recorded is what has been fined, once.                          *)
FinesInv == fines = [c \in SUBSET Messages |-> IF c \in fineRecords THEN 1 ELSE 0]

-----------------------------------------------------------------------------
(* What the calls write into a node is a node, with the same ids but for   *)
(* the one that is replaced.                                               *)
SameIds(n, old) == n \in NodeInfo /\ n.Owner = old.Owner /\ n.PublicKey = old.PublicKey

LEMMA StakedNode ==
    ASSUME NEW n \in NodeInfo, NEW v \in Nat
    PROVE  SameIds([n EXCEPT !.Staked = @ + v], n)
BY DEF NodeInfo, SameIds

LEMMA UnstakedNode ==
    ASSUME NEW n \in NodeInfo, NEW v \in Nat, NEW t \in Nat, n.Staked >= v
    PROVE  SameIds([n EXCEPT !.Staked = @ - v, !.Unstaked = v, !.UnstakedAt = t], n)
<1>1. n.Staked - v \in Nat
  BY DEF NodeInfo
<1>2. [n EXCEPT !.Staked = @ - v, !.Unstaked = v, !.UnstakedAt = t] \in NodeInfo
  BY Zenon, <1>1 DEF NodeInfo
<1> QED
  BY Zenon, <1>2 DEF NodeInfo, SameIds

LEMMA WithdrawnNode ==
    ASSUME NEW n \in NodeInfo
    PROVE  SameIds([n EXCEPT !.Unstaked = 0, !.UnstakedAt = 0], n)
BY Zenon DEF NodeInfo, SameIds

LEMMA PaidNode ==
    ASSUME NEW n \in NodeInfo, NEW v \in Nat, n.Fined >= v
    PROVE  SameIds([n EXCEPT !.Fined = @ - v], n)
BY DEF NodeInfo, SameIds

LEMMA FinedNodeIds ==
    ASSUME NEW n \in NodeInfo, fineValue \in FineValues
    PROVE  SameIds(FinedNode(n), n)
<1>1. fineValue \in Nat
  BY Zenon, RegistryAssumption
<1> QED
  BY <1>1 DEF NodeInfo, SameIds, FinedNode

LEMMA OwnedNode ==
    ASSUME NEW n \in NodeInfo, NEW a \in Addresses
    PROVE  /\ [n EXCEPT !.Owner = a] \in NodeInfo
           /\ [n EXCEPT !.Owner = a].Owner = a
           /\ [n EXCEPT !.Owner = a].PublicKey = n.PublicKey
BY Zenon DEF NodeInfo

LEMMA KeyedNode ==
    ASSUME NEW n \in NodeInfo, NEW k \in Keys
    PROVE  /\ [n EXCEPT !.PublicKey = k] \in NodeInfo
           /\ [n EXCEPT !.PublicKey = k].Owner = n.Owner
           /\ [n EXCEPT !.PublicKey = k].PublicKey = k
BY Zenon DEF NodeInfo

-----------------------------------------------------------------------------
(* One mapping and the ids of the array: what a registration, a change of  *)
(* id and a removal do to them.                                            *)
PushPre(S, L, id, m, x, m2, id2) ==
    /\ L \in Nat /\ id \in [1..L -> S] /\ m \in [S -> Nat] /\ Exact(m, id)
    /\ x \in S /\ m[x] = 0
    /\ m2 = [m EXCEPT ![x] = L + 1]
    /\ DOMAIN id2 = 1..(L + 1)
    /\ \A i \in 1..(L + 1) : id2[i] = IF i = L + 1 THEN x ELSE id[i]

LEMMA ExactPush ==
    ASSUME NEW S, NEW L, NEW id, NEW m, NEW x, NEW m2, NEW id2,
           PushPre(S, L, id, m, x, m2, id2)
    PROVE  m2 \in [S -> Nat] /\ Exact(m2, id2)
<1> USE DEF PushPre
<1>1. \A i \in 1..L : m[id[i]] = i /\ id[i] \in S /\ id[i] # x
  BY DEF Exact
<1>2. \A y \in S : m[y] # 0 => m[y] \in 1..L /\ id[m[y]] = y
  BY DEF Exact
<1>3. ASSUME NEW i \in 1..(L + 1) PROVE m2[id2[i]] = i
  <2>1. CASE i = L + 1
    BY Zenon, <2>1
  <2>2. CASE i \in 1..L
    BY ZenonT(30), <2>2, <1>1
  <2> QED
    BY <2>1, <2>2
<1>4. ASSUME NEW y \in S, m2[y] # 0 PROVE m2[y] \in 1..(L + 1) /\ id2[m2[y]] = y
  <2>1. CASE y = x
    BY <2>1
  <2>2. CASE y # x
    BY <2>2, <1>2, <1>4
  <2> QED
    BY Zenon, <2>1, <2>2
<1>5. DOMAIN m2 = S /\ DOMAIN id2 = 1..(L + 1)
  BY Zenon
<1>6. Exact(m2, id2)
  BY ZenonT(30), <1>3, <1>4, <1>5 DEF Exact
<1> QED
  BY <1>6

MovePre(S, L, id, m, o, y, m2, id2) ==
    /\ L \in Nat /\ id \in [1..L -> S] /\ m \in [S -> Nat] /\ Exact(m, id)
    /\ o \in 1..L /\ y \in S /\ (y = id[o] \/ m[y] = 0)
    /\ m2 = [m EXCEPT ![id[o]] = 0, ![y] = o]
    /\ DOMAIN id2 = 1..L
    /\ \A i \in 1..L : id2[i] = IF i = o THEN y ELSE id[i]

LEMMA ExactMove ==
    ASSUME NEW S, NEW L, NEW id, NEW m, NEW o, NEW y, NEW m2, NEW id2,
           MovePre(S, L, id, m, o, y, m2, id2)
    PROVE  m2 \in [S -> Nat] /\ Exact(m2, id2)
<1> USE DEF MovePre
<1> DEFINE x == id[o]
<1>1. \A i \in 1..L : m[id[i]] = i /\ id[i] \in S
  BY DEF Exact
<1>2. \A z \in S : m[z] # 0 => m[z] \in 1..L /\ id[m[z]] = z
  BY DEF Exact
<1>3. x \in S /\ m[x] = o /\ (y = x \/ m[y] = 0)
  BY Zenon, <1>1
<1>4. \A z \in S : m2[z] = IF z = y THEN o ELSE IF z = x THEN 0 ELSE m[z]
  BY Zenon, <1>3
<1>5. \A i \in 1..L : id2[i] = IF i = o THEN y ELSE id[i]
  BY Zenon
<1>6. DOMAIN m2 = S /\ DOMAIN id2 = 1..L
  BY Zenon
<1>7. ASSUME NEW i \in 1..L PROVE m2[id2[i]] = i
  <2>1. CASE i = o
    BY Zenon, <2>1, <1>4, <1>5
  <2>2. CASE i # o
    <3>1. id[i] # x /\ id[i] # y
      BY <2>2, <1>1, <1>3
    <3> QED
      BY Zenon, <2>2, <3>1, <1>1, <1>4, <1>5
  <2> QED
    BY Zenon, <2>1, <2>2
<1>8. ASSUME NEW z \in S, m2[z] # 0 PROVE m2[z] \in 1..L /\ id2[m2[z]] = z
  <2>1. CASE z = y
    BY Zenon, <2>1, <1>4, <1>5
  <2>2. CASE z # y
    <3>1. z # x /\ m2[z] = m[z]
      BY Zenon, <2>2, <1>4, <1>8
    <3>2. m[z] \in 1..L /\ id[m[z]] = z /\ m[z] # o
      BY Zenon, <3>1, <1>2, <1>8
    <3> QED
      BY Zenon, <3>1, <3>2, <1>5
  <2> QED
    BY Zenon, <2>1, <2>2
<1>9. Exact(m2, id2)
  BY Zenon, <1>6, <1>7, <1>8 DEF Exact
<1> QED
  BY <1>9

RemovePre(S, L, id, m, o, m2, id2) ==
    /\ L \in Nat /\ id \in [1..L -> S] /\ m \in [S -> Nat] /\ Exact(m, id)
    /\ o \in 1..L
    /\ m2 = [m EXCEPT ![id[L]] = o, ![id[o]] = 0]
    /\ DOMAIN id2 = 1..(L - 1)
    /\ \A i \in 1..(L - 1) : id2[i] = IF i = o THEN id[L] ELSE id[i]

LEMMA ExactRemove ==
    ASSUME NEW S, NEW L, NEW id, NEW m, NEW o, NEW m2, NEW id2,
           RemovePre(S, L, id, m, o, m2, id2)
    PROVE  m2 \in [S -> Nat] /\ Exact(m2, id2)
<1> USE DEF RemovePre
<1> DEFINE x == id[o]
           y == id[L]
<1>1. \A i \in 1..L : m[id[i]] = i /\ id[i] \in S
  BY ZenonT(30) DEF Exact
<1>2. \A z \in S : m[z] # 0 => m[z] \in 1..L /\ id[m[z]] = z
  BY DEF Exact
<1>3. L \in 1..L /\ x \in S /\ y \in S /\ m[x] = o /\ m[y] = L
  BY <1>1
<1>4. \A z \in S : m2[z] = IF z = x THEN 0 ELSE IF z = y THEN o ELSE m[z]
  BY Zenon, <1>3
<1>5. \A i \in 1..(L - 1) : id2[i] = IF i = o THEN y ELSE id[i]
  BY Zenon
<1>6. DOMAIN m2 = S /\ DOMAIN id2 = 1..(L - 1)
  BY Zenon
<1>7. ASSUME NEW i \in 1..(L - 1) PROVE m2[id2[i]] = i
  <2>0. i \in 1..L /\ i # L
    OBVIOUS
  <2>1. CASE i = o
    <3>1. x # y
      BY Zenon, <2>0, <2>1, <1>3
    <3> QED
      BY Zenon, <2>1, <3>1, <1>3, <1>4, <1>5
  <2>2. CASE i # o
    <3>1. id[i] # x /\ id[i] # y
      BY Zenon, <2>0, <2>2, <1>1, <1>3
    <3> QED
      BY Zenon, <2>0, <2>2, <3>1, <1>1, <1>4, <1>5
  <2> QED
    BY Zenon, <2>1, <2>2
<1>8. ASSUME NEW z \in S, m2[z] # 0 PROVE m2[z] \in 1..(L - 1) /\ id2[m2[z]] = z
  <2>0. z # x
    BY Zenon, <1>4, <1>8
  <2>1. CASE z = y
    <3>1. o # L
      BY Zenon, <2>0, <2>1
    <3>2. o \in 1..(L - 1)
      BY <3>1
    <3> QED
      BY Zenon, <2>0, <2>1, <3>2, <1>4, <1>5
  <2>2. CASE z # y
    <3>1. m2[z] = m[z]
      BY Zenon, <2>0, <2>2, <1>4
    <3>2. m[z] \in 1..L /\ id[m[z]] = z
      BY Zenon, <3>1, <1>2, <1>8
    <3>3. m[z] # o /\ m[z] # L
      BY Zenon, <3>2, <2>0, <2>2
    <3>4. m[z] \in 1..(L - 1)
      BY <3>2, <3>3
    <3> QED
      BY Zenon, <3>1, <3>2, <3>3, <3>4, <1>5
  <2> QED
    BY Zenon, <2>1, <2>2
<1>9. Exact(m2, id2)
  BY Zenon, <1>6, <1>7, <1>8 DEF Exact
<1> QED
  BY <1>9

-----------------------------------------------------------------------------
owners == [i \in 1..Len(nodes) |-> nodes[i].Owner]
publicKeys == [i \in 1..Len(nodes) |-> nodes[i].PublicKey]

LEMMA NodeFields ==
    ASSUME nodes \in Seq(NodeInfo), NEW i \in 1..Len(nodes)
    PROVE  nodes[i] \in NodeInfo /\ nodes[i].Owner \in Addresses /\ nodes[i].PublicKey \in Keys
<1>1. nodes[i] \in NodeInfo
  OBVIOUS
<1> QED
  BY ZenonT(20), <1>1 DEF NodeInfo

LEMMA IdTypes ==
    ASSUME nodes \in Seq(NodeInfo)
    PROVE  /\ Len(nodes) \in Nat
           /\ owners \in [1..Len(nodes) -> Addresses]
           /\ publicKeys \in [1..Len(nodes) -> Keys]
BY NodeFields DEF owners, publicKeys

(* RegistryInv in terms of the ids.                                        *)
LEMMA InvFacts ==
    ASSUME RegistryInv
    PROVE  /\ nodes \in Seq(NodeInfo) /\ Len(nodes) \in Nat
           /\ owners \in [1..Len(nodes) -> Addresses]
           /\ publicKeys \in [1..Len(nodes) -> Keys]
           /\ nodesOffsetByAddress \in [Addresses -> Nat]
           /\ nodesOffsetByNodeKeyAddress \in [Keys -> Nat]
           /\ Exact(nodesOffsetByAddress, owners)
           /\ Exact(nodesOffsetByNodeKeyAddress, publicKeys)
<1>1. nodes \in Seq(NodeInfo)
  BY Zenon DEF RegistryInv
<1> QED
  BY Zenon, <1>1, IdTypes DEF RegistryInv, OffsetsExact, owners, publicKeys

(* The node a registered address, or the key of a report, leads to is in   *)
(* the array and is the right one.                                         *)
LEMMA NodeOfAddress ==
    ASSUME RegistryInv, NEW a \in Addresses, Registered(a)
    PROVE  /\ nodesOffsetByAddress[a] \in 1..Len(nodes)
           /\ NodeOf(a) = nodes[nodesOffsetByAddress[a]]
           /\ NodeOf(a) \in NodeInfo
           /\ NodeOf(a).Owner = a
<1>1. nodesOffsetByAddress[a] \in 1..Len(nodes) /\ owners[nodesOffsetByAddress[a]] = a
  BY InvFacts DEF Exact, Registered
<1> QED
  BY <1>1, InvFacts DEF NodeOf, owners

LEMMA NodeOfKey ==
    ASSUME RegistryInv, NEW k \in Keys, nodesOffsetByNodeKeyAddress[k] # 0
    PROVE  /\ nodesOffsetByNodeKeyAddress[k] \in 1..Len(nodes)
           /\ nodes[nodesOffsetByNodeKeyAddress[k]] \in NodeInfo
BY InvFacts DEF Exact

(* Overwriting a node by one with the same owner and key, as stake,        *)
(* unstake, payFine and the fines do.                                      *)
LEMMA UpdateKeepsOffsets ==
    ASSUME RegistryInv,
           NEW o \in 1..Len(nodes), NEW n, SameIds(n, nodes[o]),
           nodes' = [nodes EXCEPT ![o] = n],
           UNCHANGED offsets, time' \in Nat
    PROVE  RegistryInv'
<1>0. n \in NodeInfo /\ n.Owner = nodes[o].Owner /\ n.PublicKey = nodes[o].PublicKey
  BY Zenon DEF SameIds
<1>1. /\ nodes' \in Seq(NodeInfo)
      /\ Len(nodes') = Len(nodes)
      /\ \A i \in 1..Len(nodes) : nodes'[i] = IF i = o THEN n ELSE nodes[i]
  BY <1>0, InvFacts
<1>2. owners' = owners /\ publicKeys' = publicKeys
  BY <1>0, <1>1 DEF owners, publicKeys
<1>3. /\ nodesOffsetByAddress' = nodesOffsetByAddress
      /\ nodesOffsetByNodeKeyAddress' = nodesOffsetByNodeKeyAddress
  BY Zenon DEF offsets
<1>4. Exact(nodesOffsetByAddress', owners') /\ Exact(nodesOffsetByNodeKeyAddress', publicKeys')
  BY Zenon, <1>2, <1>3, InvFacts
<1> QED
  BY Zenon, <1>1, <1>3, <1>4 DEF RegistryInv, OffsetsExact, owners, publicKeys

LEMMA RegisterInv ==
    ASSUME RegistryInv, NEW caller \in Addresses, NEW key \in Keys,
           NEW value \in Amounts, Register(caller, key, value)
    PROVE  RegistryInv'
<1> DEFINE n == [Owner |-> caller, PublicKey |-> key, Staked |-> value,
                 Fined |-> 0, Unstaked |-> 0, UnstakedAt |-> 0]
           L == Len(nodes)
<1>1. /\ nodesOffsetByAddress[caller] = 0
      /\ nodesOffsetByNodeKeyAddress[key] = 0
      /\ nodes' = Append(nodes, n)
      /\ nodesOffsetByAddress' = [nodesOffsetByAddress EXCEPT ![caller] = L + 1]
      /\ nodesOffsetByNodeKeyAddress' = [nodesOffsetByNodeKeyAddress EXCEPT ![key] = L + 1]
      /\ time' = time
  BY Zenon DEF Register, Registered, SetNodes, PutNodeOffsets
<1>2. n \in NodeInfo /\ n.Owner = caller /\ n.PublicKey = key
  BY Zenon, RegistryAssumption DEF NodeInfo
<1> HIDE DEF n
<1>3. /\ nodes' \in Seq(NodeInfo)
      /\ Len(nodes') = L + 1
      /\ \A i \in 1..(L + 1) : nodes'[i] = IF i = L + 1 THEN n ELSE nodes[i]
  BY <1>1, <1>2, InvFacts
<1>4. /\ DOMAIN owners' = 1..(L + 1) /\ DOMAIN publicKeys' = 1..(L + 1)
      /\ \A i \in 1..(L + 1) : owners'[i] = IF i = L + 1 THEN caller ELSE owners[i]
      /\ \A i \in 1..(L + 1) : publicKeys'[i] = IF i = L + 1 THEN key ELSE publicKeys[i]
  BY <1>2, <1>3, InvFacts DEF owners, publicKeys
<1>5. PushPre(Addresses, L, owners, nodesOffsetByAddress, caller, nodesOffsetByAddress', owners')
  BY Zenon, <1>1, <1>4, InvFacts DEF PushPre
<1>6. PushPre(Keys, L, publicKeys, nodesOffsetByNodeKeyAddress, key,
              nodesOffsetByNodeKeyAddress', publicKeys')
  BY Zenon, <1>1, <1>4, InvFacts DEF PushPre
<1>7. nodesOffsetByAddress' \in [Addresses -> Nat] /\ Exact(nodesOffsetByAddress', owners')
  BY Zenon, <1>5, ExactPush
<1>8. nodesOffsetByNodeKeyAddress' \in [Keys -> Nat]
      /\ Exact(nodesOffsetByNodeKeyAddress', publicKeys')
  BY Zenon, <1>6, ExactPush
<1>9. time' \in Nat
  BY Zenon, <1>1 DEF RegistryInv
<1> QED
  BY Zenon, <1>3, <1>7, <1>8, <1>9 DEF RegistryInv, OffsetsExact, owners, publicKeys

(* Giving a node a fresh owner or a fresh key, as the ownership transfers  *)
(* and replaceNodePublicKey do.                                            *)
LEMMA MoveKeepsOffsets ==
    ASSUME RegistryInv, NEW o \in 1..Len(nodes), NEW n \in NodeInfo,
           n.Owner = nodes[o].Owner \/ nodesOffsetByAddress[n.Owner] = 0,
           n.PublicKey = nodes[o].PublicKey \/ nodesOffsetByNodeKeyAddress[n.PublicKey] = 0,
           nodes' = [nodes EXCEPT ![o] = n],
           MoveNodeOffsets(nodes[o], n, o), time' \in Nat
    PROVE  RegistryInv'
<1> DEFINE L == Len(nodes)
           x == n.Owner
           k == n.PublicKey
<1>1. /\ nodes' \in Seq(NodeInfo)
      /\ Len(nodes') = L
      /\ \A i \in 1..L : nodes'[i] = IF i = o THEN n ELSE nodes[i]
  BY InvFacts
<1>2. /\ DOMAIN owners' = 1..L /\ DOMAIN publicKeys' = 1..L
      /\ \A i \in 1..L : owners'[i] = IF i = o THEN x ELSE owners[i]
      /\ \A i \in 1..L : publicKeys'[i] = IF i = o THEN k ELSE publicKeys[i]
  BY <1>1 DEF owners, publicKeys
<1>3. owners[o] = nodes[o].Owner /\ publicKeys[o] = nodes[o].PublicKey
  BY Zenon DEF owners, publicKeys
<1>4. x \in Addresses /\ k \in Keys
  BY Zenon DEF NodeInfo
<1>5. /\ nodesOffsetByAddress' = [nodesOffsetByAddress EXCEPT ![owners[o]] = 0, ![x] = o]
      /\ nodesOffsetByNodeKeyAddress' =
            [nodesOffsetByNodeKeyAddress EXCEPT ![publicKeys[o]] = 0, ![k] = o]
      /\ x = owners[o] \/ nodesOffsetByAddress[x] = 0
      /\ k = publicKeys[o] \/ nodesOffsetByNodeKeyAddress[k] = 0
  BY Zenon, <1>3 DEF MoveNodeOffsets
<1> HIDE DEF x, k
<1>6. MovePre(Addresses, L, owners, nodesOffsetByAddress, o, x, nodesOffsetByAddress', owners')
  BY Zenon, <1>2, <1>4, <1>5, InvFacts DEF MovePre
<1>7. MovePre(Keys, L, publicKeys, nodesOffsetByNodeKeyAddress, o, k,
              nodesOffsetByNodeKeyAddress', publicKeys')
  BY Zenon, <1>2, <1>4, <1>5, InvFacts DEF MovePre
<1>8. nodesOffsetByAddress' \in [Addresses -> Nat] /\ Exact(nodesOffsetByAddress', owners')
  BY Zenon, <1>6, ExactMove
<1>9. nodesOffsetByNodeKeyAddress' \in [Keys -> Nat]
      /\ Exact(nodesOffsetByNodeKeyAddress', publicKeys')
  BY Zenon, <1>7, ExactMove
<1> QED
  BY Zenon, <1>1, <1>8, <1>9 DEF RegistryInv, OffsetsExact, owners, publicKeys

(* Removing a node and moving the last one into its place, as withdraw     *)
(* does; the node removed may be the last one itself.                      *)
LEMMA RemoveKeepsOffsets ==
    ASSUME RegistryInv, NEW o \in 1..Len(nodes),
           RemoveNode(o, nodes[o]), time' \in Nat
    PROVE  RegistryInv'
<1> DEFINE L == Len(nodes)
<1>1. L \in Nat /\ o \in 1..L /\ L \in 1..L /\ L - 1 \in Nat
      /\ \A i \in 1..L : nodes[i] \in NodeInfo
  BY InvFacts
<1>2. /\ owners[o] = nodes[o].Owner /\ publicKeys[o] = nodes[o].PublicKey
      /\ owners[L] = nodes[L].Owner /\ publicKeys[L] = nodes[L].PublicKey
  BY Zenon, <1>1 DEF owners, publicKeys
<1>3. /\ nodes' = [i \in 1..(L - 1) |-> IF i = o THEN nodes[L] ELSE nodes[i]]
      /\ nodesOffsetByAddress' =
            [nodesOffsetByAddress EXCEPT ![owners[L]] = o, ![owners[o]] = 0]
      /\ nodesOffsetByNodeKeyAddress' =
            [nodesOffsetByNodeKeyAddress EXCEPT ![publicKeys[L]] = o, ![publicKeys[o]] = 0]
  BY Zenon, <1>2 DEF RemoveNode, SetNodes
<1>4. /\ nodes' \in Seq(NodeInfo)
      /\ Len(nodes') = L - 1
      /\ \A i \in 1..(L - 1) : nodes'[i] = IF i = o THEN nodes[L] ELSE nodes[i]
  <2> HIDE DEF L
  <2>1. \A i \in 1..(L - 1) : (IF i = o THEN nodes[L] ELSE nodes[i]) \in NodeInfo
    BY <1>1
  <2> QED
    BY <2>1, <1>1, <1>3
<1>5. /\ DOMAIN owners' = 1..(L - 1) /\ DOMAIN publicKeys' = 1..(L - 1)
      /\ \A i \in 1..(L - 1) : owners'[i] = nodes'[i].Owner /\ publicKeys'[i] = nodes'[i].PublicKey
      /\ \A i \in 1..(L - 1) : owners[i] = nodes[i].Owner /\ publicKeys[i] = nodes[i].PublicKey
  BY <1>1, <1>4 DEF owners, publicKeys
<1>6. /\ \A i \in 1..(L - 1) : owners'[i] = IF i = o THEN owners[L] ELSE owners[i]
      /\ \A i \in 1..(L - 1) : publicKeys'[i] = IF i = o THEN publicKeys[L] ELSE publicKeys[i]
  <2> HIDE DEF L
  <2>1. \A i \in 1..(L - 1) : owners'[i] = IF i = o THEN owners[L] ELSE owners[i]
    BY ZenonT(30), <1>2, <1>4, <1>5
  <2>2. \A i \in 1..(L - 1) : publicKeys'[i] = IF i = o THEN publicKeys[L] ELSE publicKeys[i]
    BY ZenonT(30), <1>2, <1>4, <1>5
  <2> QED
    BY Zenon, <2>1, <2>2
<1>7. RemovePre(Addresses, L, owners, nodesOffsetByAddress, o, nodesOffsetByAddress', owners')
  BY Zenon, <1>3, <1>5, <1>6, InvFacts DEF RemovePre
<1>8. RemovePre(Keys, L, publicKeys, nodesOffsetByNodeKeyAddress, o,
                nodesOffsetByNodeKeyAddress', publicKeys')
  BY Zenon, <1>3, <1>5, <1>6, InvFacts DEF RemovePre
<1>9. nodesOffsetByAddress' \in [Addresses -> Nat] /\ Exact(nodesOffsetByAddress', owners')
  BY Zenon, <1>7, ExactRemove
<1>10. nodesOffsetByNodeKeyAddress' \in [Keys -> Nat]
       /\ Exact(nodesOffsetByNodeKeyAddress', publicKeys')
  BY Zenon, <1>8, ExactRemove
<1> QED
  BY Zenon, <1>4, <1>9, <1>10 DEF RegistryInv, OffsetsExact, owners, publicKeys

-----------------------------------------------------------------------------
LEMMA ExactInit ==
    ASSUME NEW S, NEW L \in Nat, NEW id \in [1..L -> S],
           \A i, j \in 1..L : id[i] = id[j] => i = j,
           NEW m, m = GenesisOffsets(S, id)
    PROVE  m \in [S -> Nat] /\ Exact(m, id)
<1>1. ASSUME NEW x \in S
      PROVE  /\ m[x] \in Nat
             /\ m[x] # 0 => m[x] \in 1..L /\ id[m[x]] = x
             /\ (\E i \in 1..L : id[i] = x) => m[x] # 0
  <2>1. CASE \E i \in 1..L : id[i] = x
    <3>1. m[x] = CHOOSE i \in 1..L : id[i] = x
      BY Zenon, <2>1 DEF GenesisOffsets
    <3>2. m[x] \in 1..L /\ id[m[x]] = x
      BY Zenon, <2>1, <3>1
    <3> QED
      BY <3>2
  <2>2. CASE ~\E i \in 1..L : id[i] = x
    BY Zenon, <2>2 DEF GenesisOffsets
  <2> QED
    BY Zenon, <2>1, <2>2
<1>2. ASSUME NEW i \in 1..L PROVE m[id[i]] = i
  BY <1>1
<1>3. m = [x \in S |-> m[x]]
  BY Zenon DEF GenesisOffsets
<1> QED
  BY <1>1, <1>2, <1>3 DEF Exact

LEMMA InitRegistry == Init => RegistryInv
<1> SUFFICES ASSUME Init PROVE RegistryInv
  BY Zenon
<1>1. /\ nodes = Genesis /\ nodes \in Seq(NodeInfo) /\ time \in Nat
      /\ \A i, j \in 1..Len(nodes) :
            nodes[i].Owner = nodes[j].Owner \/ nodes[i].PublicKey = nodes[j].PublicKey => i = j
  BY Zenon, RegistryAssumption DEF Init
<1>2. /\ Len(nodes) \in Nat /\ owners \in [1..Len(nodes) -> Addresses]
      /\ publicKeys \in [1..Len(nodes) -> Keys]
  BY Zenon, <1>1, IdTypes
<1>3. /\ nodesOffsetByAddress = GenesisOffsets(Addresses, owners)
      /\ nodesOffsetByNodeKeyAddress = GenesisOffsets(Keys, publicKeys)
  BY Zenon, <1>1 DEF Init, owners, publicKeys
<1>4. /\ \A i, j \in 1..Len(nodes) : owners[i] = owners[j] => i = j
      /\ \A i, j \in 1..Len(nodes) : publicKeys[i] = publicKeys[j] => i = j
  BY Zenon, <1>1 DEF owners, publicKeys
<1>5. nodesOffsetByAddress \in [Addresses -> Nat] /\ Exact(nodesOffsetByAddress, owners)
  BY Zenon, <1>2, <1>3, <1>4, ExactInit
<1>6. nodesOffsetByNodeKeyAddress \in [Keys -> Nat]
      /\ Exact(nodesOffsetByNodeKeyAddress, publicKeys)
  BY Zenon, <1>2, <1>3, <1>4, ExactInit
<1> QED
  BY Zenon, <1>1, <1>5, <1>6 DEF RegistryInv, OffsetsExact, owners, publicKeys

LEMMA NextFineTyped == FineTyped /\ [Next]_vars => FineTyped'
<1> SUFFICES ASSUME FineTyped, [Next]_vars PROVE FineTyped'
  BY Zenon
<1>1. ASSUME UNCHANGED settings
      PROVE  FineTyped'
  BY Zenon, <1>1 DEF settings, FineTyped
<1>2. ASSUME NEW min \in MinStakes, NEW lockup \in LockupPeriods,
             NEW fine \in FineValues, NEW value \in Amounts,
             UpdateConfiguration(min, lockup, fine, value)
      PROVE  FineTyped'
  BY Zenon, <1>2 DEF UpdateConfiguration, FineTyped
<1>3. ASSUME NEW m1 \in Messages, NEW m2 \in Messages, Report(m1, m2)
      PROVE  FineTyped'
  BY Zenon, <1>1, <1>3 DEF Report
<1>4. ASSUME UNCHANGED config
      PROVE  FineTyped'
  BY Zenon, <1>1, <1>4 DEF config
<1>5. ASSUME NEW caller \in Addresses, NEW value \in Amounts,
             \/ \E key \in Keys : Register(caller, key, value)
             \/ Stake(caller, value) \/ Unstake(caller, value)
             \/ \E addr \in Addresses : PayFine(caller, addr, value)
      PROVE  FineTyped'
  BY Zenon, <1>4, <1>5 DEF Register, Stake, Unstake, PayFine
<1>6. ASSUME NEW key \in Keys,
             Disqualify(key) \/ \E caller \in Addresses : ReplaceNodePublicKey(caller, key)
      PROVE  FineTyped'
  BY Zenon, <1>4, <1>6 DEF Disqualify, ReplaceNodePublicKey
<1>7. ASSUME NEW caller \in Addresses,
             Withdraw(caller) \/ \E new \in Addresses : TransferNodeOwnership(caller, new)
      PROVE  FineTyped'
  BY Zenon, <1>4, <1>7 DEF Withdraw, TransferNodeOwnership
<1>8. CASE NextBlock \/ UNCHANGED vars
  BY Zenon, <1>4, <1>8 DEF NextBlock, vars
<1> QED
  BY Zenon, <1>2, <1>3, <1>5, <1>6, <1>7, <1>8 DEF Next

LEMMA NextRegistry == RegistryInv /\ FineTyped /\ [Next]_vars => RegistryInv'
<1> SUFFICES ASSUME RegistryInv, FineTyped, [Next]_vars PROVE RegistryInv'
  BY Zenon
<1>0. /\ fineValue \in FineValues
      /\ \A v \in Amounts : v \in Nat
      /\ \A m \in Messages : m.ProposerID \in Keys
  BY Zenon, RegistryAssumption DEF FineTyped
<1>1. ASSUME NEW caller \in Addresses, NEW key \in Keys, NEW value \in Amounts,
             Register(caller, key, value)
      PROVE  RegistryInv'
  BY Zenon, <1>1, RegisterInv
<1>2. ASSUME NEW caller \in Addresses, NEW value \in Amounts, Stake(caller, value)
      PROVE  RegistryInv'
  <2> DEFINE o == nodesOffsetByAddress[caller]
             n == [NodeOf(caller) EXCEPT !.Staked = @ + value]
  <2>1. o \in 1..Len(nodes) /\ nodes[o] \in NodeInfo /\ NodeOf(caller) = nodes[o]
    BY Zenon, <1>2, NodeOfAddress DEF Stake
  <2>2. SameIds(n, nodes[o])
    BY Zenon, <1>0, <2>1, StakedNode
  <2>3. nodes' = [nodes EXCEPT ![o] = n] /\ UNCHANGED offsets /\ time' \in Nat
    BY Zenon, <1>2 DEF Stake, UpdateNode, SetNodes, RegistryInv
  <2> HIDE DEF o, n
  <2> QED
    BY Zenon, <2>1, <2>2, <2>3, UpdateKeepsOffsets
<1>3. ASSUME NEW caller \in Addresses, NEW amount \in Amounts, Unstake(caller, amount)
      PROVE  RegistryInv'
  <2> DEFINE o == nodesOffsetByAddress[caller]
             n == [NodeOf(caller) EXCEPT !.Staked = @ - amount, !.Unstaked = amount,
                                         !.UnstakedAt = time]
  <2>1. o \in 1..Len(nodes) /\ nodes[o] \in NodeInfo /\ NodeOf(caller) = nodes[o]
    BY Zenon, <1>3, NodeOfAddress DEF Unstake
  <2>2. NodeOf(caller).Staked >= amount /\ time \in Nat /\ amount \in Nat
    BY Zenon, <1>0, <1>3 DEF Unstake, CanUnstake, RegistryInv
  <2>3. SameIds(n, nodes[o])
    BY Zenon, <2>1, <2>2, UnstakedNode
  <2>4. nodes' = [nodes EXCEPT ![o] = n] /\ UNCHANGED offsets /\ time' \in Nat
    BY Zenon, <1>3 DEF Unstake, UpdateNode, SetNodes, RegistryInv
  <2> HIDE DEF o, n
  <2> QED
    BY Zenon, <2>1, <2>3, <2>4, UpdateKeepsOffsets
<1>4. ASSUME NEW caller \in Addresses, Withdraw(caller)
      PROVE  RegistryInv'
  <2> DEFINE o == nodesOffsetByAddress[caller]
             n == [NodeOf(caller) EXCEPT !.Unstaked = 0, !.UnstakedAt = 0]
  <2>1. o \in 1..Len(nodes) /\ nodes[o] \in NodeInfo /\ NodeOf(caller) = nodes[o]
    BY Zenon, <1>4, NodeOfAddress DEF Withdraw
  <2>2. time' \in Nat
    BY Zenon, <1>4 DEF Withdraw, RegistryInv
  <2>3. CASE NodeOf(caller).Staked = 0
    <3>1. RemoveNode(o, nodes[o])
      BY Zenon, <2>1, <2>3, <1>4 DEF Withdraw
    <3> HIDE DEF o
    <3> QED
      BY Zenon, <2>1, <2>2, <3>1, RemoveKeepsOffsets
  <2>4. CASE NodeOf(caller).Staked # 0
    <3>1. nodes' = [nodes EXCEPT ![o] = n] /\ UNCHANGED offsets
      BY Zenon, <2>4, <1>4 DEF Withdraw, KeepNode, UpdateNode, SetNodes
    <3>2. SameIds(n, nodes[o])
      BY Zenon, <2>1, WithdrawnNode
    <3> HIDE DEF o, n
    <3> QED
      BY Zenon, <2>1, <2>2, <3>1, <3>2, UpdateKeepsOffsets
  <2> QED
    BY Zenon, <2>3, <2>4
<1>5. ASSUME NEW caller \in Addresses, NEW addr \in Addresses, NEW value \in Amounts,
             PayFine(caller, addr, value)
      PROVE  RegistryInv'
  <2> DEFINE o == nodesOffsetByAddress[addr]
             n == [NodeOf(addr) EXCEPT !.Fined = @ - value]
  <2>1. o \in 1..Len(nodes) /\ nodes[o] \in NodeInfo /\ NodeOf(addr) = nodes[o]
    BY Zenon, <1>5, NodeOfAddress DEF PayFine
  <2>2. NodeOf(addr).Fined >= value /\ value \in Nat
    BY Zenon, <1>0, <1>5 DEF PayFine
  <2>3. SameIds(n, nodes[o])
    BY Zenon, <2>1, <2>2, PaidNode
  <2>4. nodes' = [nodes EXCEPT ![o] = n] /\ UNCHANGED offsets /\ time' \in Nat
    BY Zenon, <1>5 DEF PayFine, UpdateNode, SetNodes, RegistryInv
  <2> HIDE DEF o, n
  <2> QED
    BY Zenon, <2>1, <2>3, <2>4, UpdateKeepsOffsets
<1>6. ASSUME NEW m1 \in Messages, NEW m2 \in Messages, Report(m1, m2)
      PROVE  RegistryInv'
  <2> DEFINE owner == nodes[nodesOffsetByNodeKeyAddress[m1.ProposerID]].Owner
             o == nodesOffsetByAddress[owner]
             n == FinedNode(NodeOf(owner))
  <2>1. m1.ProposerID \in Keys /\ nodesOffsetByNodeKeyAddress[m1.ProposerID] # 0
    BY Zenon, <1>0, <1>6 DEF Report
  <2>2. nodesOffsetByNodeKeyAddress[m1.ProposerID] \in 1..Len(nodes)
    BY Zenon, <2>1, NodeOfKey
  <2>3. owner \in Addresses
    BY Zenon, <2>2, NodeFields DEF RegistryInv
  <2>4. Registered(owner) /\ nodes' = [nodes EXCEPT ![o] = n] /\ UNCHANGED offsets
        /\ time' \in Nat
    BY Zenon, <1>6 DEF Report, UpdateNode, SetNodes, RegistryInv
  <2>5. o \in 1..Len(nodes) /\ nodes[o] \in NodeInfo /\ NodeOf(owner) = nodes[o]
    <3> HIDE DEF owner
    <3> QED
      BY Zenon, <2>3, <2>4, NodeOfAddress
  <2>6. SameIds(n, nodes[o])
    <3> HIDE DEF owner, o
    <3> QED
      BY Zenon, <2>5, <1>0, FinedNodeIds
  <2> HIDE DEF o, n
  <2> QED
    BY Zenon, <2>4, <2>5, <2>6, UpdateKeepsOffsets
<1>7. ASSUME NEW key \in Keys, Disqualify(key)
      PROVE  RegistryInv'
  <2> DEFINE o == nodesOffsetByNodeKeyAddress[key]
             n == FinedNode(nodes[o])
  <2>1. o \in 1..Len(nodes) /\ nodes[o] \in NodeInfo
    BY Zenon, <1>7, NodeOfKey DEF Disqualify
  <2>2. SameIds(n, nodes[o])
    BY Zenon, <2>1, <1>0, FinedNodeIds
  <2>3. nodes' = [nodes EXCEPT ![o] = n] /\ UNCHANGED offsets /\ time' \in Nat
    BY Zenon, <1>7 DEF Disqualify, UpdateNode, SetNodes, RegistryInv
  <2> HIDE DEF o, n
  <2> QED
    BY Zenon, <2>1, <2>2, <2>3, UpdateKeepsOffsets
<1>8. ASSUME NEW old \in Addresses, NEW new \in Addresses, TransferNodeOwnership(old, new)
      PROVE  RegistryInv'
  <2> DEFINE o == nodesOffsetByAddress[old]
             n == [NodeOf(old) EXCEPT !.Owner = new]
  <2>1. o \in 1..Len(nodes) /\ nodes[o] \in NodeInfo /\ NodeOf(old) = nodes[o]
    BY Zenon, <1>8, NodeOfAddress DEF TransferNodeOwnership
  <2>2. n \in NodeInfo /\ n.Owner = new /\ n.PublicKey = nodes[o].PublicKey
    BY ZenonT(30), <2>1, OwnedNode
  <2>3. nodes' = [nodes EXCEPT ![o] = n] /\ MoveNodeOffsets(nodes[o], n, o) /\ time' \in Nat
        /\ nodesOffsetByAddress[new] = 0
    BY Zenon, <1>8, <2>1 DEF TransferNodeOwnership, UpdateNode, SetNodes, RegistryInv, Registered
  <2>4. /\ n.Owner = nodes[o].Owner \/ nodesOffsetByAddress[n.Owner] = 0
        /\ n.PublicKey = nodes[o].PublicKey \/ nodesOffsetByNodeKeyAddress[n.PublicKey] = 0
    BY Zenon, <2>2, <2>3
  <2> HIDE DEF o, n
  <2> QED
    BY Zenon, <2>1, <2>2, <2>3, <2>4, MoveKeepsOffsets
<1>9. ASSUME NEW caller \in Addresses, NEW key \in Keys, ReplaceNodePublicKey(caller, key)
      PROVE  RegistryInv'
  <2> DEFINE o == nodesOffsetByAddress[caller]
             n == [NodeOf(caller) EXCEPT !.PublicKey = key]
  <2>1. o \in 1..Len(nodes) /\ nodes[o] \in NodeInfo /\ NodeOf(caller) = nodes[o]
    BY Zenon, <1>9, NodeOfAddress DEF ReplaceNodePublicKey
  <2>2. n \in NodeInfo /\ n.Owner = nodes[o].Owner /\ n.PublicKey = key
    BY ZenonT(30), <2>1, KeyedNode
  <2>3. nodes' = [nodes EXCEPT ![o] = n] /\ MoveNodeOffsets(nodes[o], n, o) /\ time' \in Nat
        /\ nodesOffsetByNodeKeyAddress[key] = 0
    BY Zenon, <1>9, <2>1 DEF ReplaceNodePublicKey, UpdateNode, SetNodes, RegistryInv
  <2>4. /\ n.Owner = nodes[o].Owner \/ nodesOffsetByAddress[n.Owner] = 0
        /\ n.PublicKey = nodes[o].PublicKey \/ nodesOffsetByNodeKeyAddress[n.PublicKey] = 0
    BY Zenon, <2>2, <2>3
  <2> HIDE DEF o, n
  <2> QED
    BY Zenon, <2>1, <2>2, <2>3, <2>4, MoveKeepsOffsets
<1>10. ASSUME UNCHANGED <<nodes, offsets>>, time' \in Nat
       PROVE  RegistryInv'
  BY Zenon, <1>10 DEF RegistryInv, OffsetsExact, Registered, NodeOf, offsets
<1>11. ASSUME NEW min \in MinStakes, NEW lockup \in LockupPeriods,
             NEW fine \in FineValues, NEW value \in Amounts,
             UpdateConfiguration(min, lockup, fine, value)
       PROVE  RegistryInv'
  BY Zenon, <1>10, <1>11 DEF UpdateConfiguration, RegistryInv
<1>12. CASE NextBlock
  BY <1>10, <1>12 DEF NextBlock, RegistryInv
<1>13. CASE UNCHANGED vars
  BY Zenon, <1>10, <1>13 DEF vars, RegistryInv
<1> QED
  BY Zenon, <1>1, <1>2, <1>3, <1>4, <1>5, <1>6, <1>7, <1>8, <1>9, <1>11, <1>12, <1>13 DEF Next

(* The offset mappings of the contract are inverses of its array of nodes  *)
(* in every reachable state, for any number of addresses, keys and nodes.  *)
THEOREM RegistryOffsets == Spec => []OffsetsExact
<1>0. Init => FineTyped
  BY Zenon DEF Init, FineTyped
<1>1. Init => RegistryInv
  BY Zenon, InitRegistry
<1>2. RegistryInv /\ FineTyped /\ [Next]_vars => RegistryInv'
  BY Zenon, NextRegistry
<1>3. RegistryInv => OffsetsExact
  BY Zenon DEF RegistryInv
<1> QED
  BY <1>0, <1>1, <1>2, <1>3, NextFineTyped, PTL DEF Spec

-----------------------------------------------------------------------------
(* Every call that writes a node or minStake recomputes notarySetSize from *)
(* what it leaves behind, so the cached size is never stale.               *)
THEOREM NotarySetSizeFresh == Spec => []NotarySetSizeCurrent
<1>1. Init => NotarySetSizeCurrent
  BY Zenon DEF Init, NotarySetSizeCurrent
<1>2. NotarySetSizeCurrent /\ [Next]_vars => NotarySetSizeCurrent'
  <2> SUFFICES ASSUME NotarySetSizeCurrent, [Next]_vars PROVE NotarySetSizeCurrent'
    BY Zenon
  <2>1. ASSUME NEW ns, SetNodes(ns), minStake' = minStake
        PROVE  NotarySetSizeCurrent'
    BY Zenon, <2>1 DEF SetNodes, CalNotarySetSize, NotarySetSizeCurrent
  <2>2. ASSUME NEW o, NEW n, UpdateNode(o, n), minStake' = minStake
        PROVE  NotarySetSizeCurrent'
    BY Zenon, <2>1, <2>2 DEF UpdateNode
  <2>3. ASSUME NEW caller \in Addresses, NEW key \in Keys, NEW value \in Amounts,
               Register(caller, key, value)
        PROVE  NotarySetSizeCurrent'
    BY Zenon, <2>1, <2>3 DEF Register, config, settings
  <2>4. ASSUME NEW caller \in Addresses, NEW value \in Amounts, Stake(caller, value)
        PROVE  NotarySetSizeCurrent'
    BY Zenon, <2>2, <2>4 DEF Stake, config, settings
  <2>5. ASSUME NEW caller \in Addresses, NEW amount \in Amounts, Unstake(caller, amount)
        PROVE  NotarySetSizeCurrent'
    BY Zenon, <2>2, <2>5 DEF Unstake, config, settings
  <2>6. ASSUME NEW caller \in Addresses, Withdraw(caller)
        PROVE  NotarySetSizeCurrent'
    <3>1. minStake' = minStake
      BY Zenon, <2>6 DEF Withdraw, config, settings
    <3>2. CASE NodeOf(caller).Staked = 0
      <4>1. RemoveNode(nodesOffsetByAddress[caller], NodeOf(caller))
        BY Zenon, <2>6, <3>2 DEF Withdraw
      <4> QED
        BY Zenon, <2>1, <3>1, <4>1 DEF RemoveNode
    <3>3. CASE NodeOf(caller).Staked # 0
      BY Zenon, <2>2, <2>6, <3>1, <3>3 DEF Withdraw, KeepNode
    <3> QED
      BY Zenon, <3>2, <3>3
  <2>7. ASSUME NEW caller \in Addresses, NEW addr \in Addresses, NEW value \in Amounts,
               PayFine(caller, addr, value)
        PROVE  NotarySetSizeCurrent'
    BY Zenon, <2>2, <2>7 DEF PayFine, config, settings
  <2>8. ASSUME NEW m1 \in Messages, NEW m2 \in Messages, Report(m1, m2)
        PROVE  NotarySetSizeCurrent'
    BY Zenon, <2>2, <2>8 DEF Report, settings
  <2>9. ASSUME NEW key \in Keys, Disqualify(key)
        PROVE  NotarySetSizeCurrent'
    BY Zenon, <2>2, <2>9 DEF Disqualify, config, settings
  <2>10. ASSUME NEW old \in Addresses, NEW new \in Addresses, TransferNodeOwnership(old, new)
         PROVE  NotarySetSizeCurrent'
    BY Zenon, <2>2, <2>10 DEF TransferNodeOwnership, config, settings
  <2>11. ASSUME NEW caller \in Addresses, NEW key \in Keys, ReplaceNodePublicKey(caller, key)
         PROVE  NotarySetSizeCurrent'
    BY Zenon, <2>2, <2>11 DEF ReplaceNodePublicKey, config, settings
  <2>12. ASSUME NEW min \in MinStakes, NEW lockup \in LockupPeriods,
             NEW fine \in FineValues, NEW value \in Amounts,
             UpdateConfiguration(min, lockup, fine, value)
         PROVE  NotarySetSizeCurrent'
    BY Zenon, <2>12 DEF UpdateConfiguration, CalNotarySetSize, NotarySetSizeCurrent
  <2>13. ASSUME UNCHANGED <<nodes, minStake, notarySetSize>>
         PROVE  NotarySetSizeCurrent'
    BY Zenon, <2>13 DEF NotarySetSizeCurrent, QualifiedNodes
  <2>14. CASE NextBlock
    BY Zenon, <2>13, <2>14 DEF NextBlock, config, settings
  <2>15. CASE UNCHANGED vars
    BY Zenon, <2>13, <2>15 DEF vars, config, settings
  <2> QED
    BY Zenon, <2>3, <2>4, <2>5, <2>6, <2>7, <2>8, <2>9, <2>10, <2>11, <2>12, <2>14, <2>15 DEF Next
<1> QED
  BY <1>1, <1>2, PTL DEF Spec

LEMMA FinesRecorded == Spec => []FinesInv
<1>1. Init => FinesInv
  BY Zenon DEF Init, FinesInv
<1>2. FinesInv /\ [Next]_vars => FinesInv'
  <2> SUFFICES ASSUME FinesInv, [Next]_vars PROVE FinesInv'
    BY Zenon
  <2>1. ASSUME NEW m1 \in Messages, NEW m2 \in Messages, Report(m1, m2)
        PROVE  FinesInv'
    <3> DEFINE c == {m1, m2}
    <3>1. /\ c \in SUBSET Messages /\ c \notin fineRecords
          /\ fineRecords' = fineRecords \cup {c}
          /\ fines' = [fines EXCEPT ![c] = @ + 1]
      BY Zenon, <2>1 DEF Report, RecordHash
    <3> HIDE DEF c
    <3>2. fines = [d \in SUBSET Messages |-> IF d \in fineRecords THEN 1 ELSE 0]
      BY Zenon DEF FinesInv
    <3>3. fines[c] + 1 = 1
      BY <3>1, <3>2
    <3>4. fines' = [d \in SUBSET Messages |-> IF d = c THEN 1 ELSE fines[d]]
      BY Zenon, <3>1, <3>2, <3>3
    <3>5. \A d \in SUBSET Messages :
            (IF d = c THEN 1 ELSE fines[d]) = IF d \in fineRecords' THEN 1 ELSE 0
      BY Zenon, <3>1, <3>2
    <3> QED
      BY ZenonT(30), <3>4, <3>5 DEF FinesInv
  <2>2. ASSUME UNCHANGED <<fineRecords, fines>>
        PROVE  FinesInv'
    BY Zenon, <2>2 DEF FinesInv
  <2>3. ASSUME UNCHANGED config
        PROVE  FinesInv'
    BY Zenon, <2>2, <2>3 DEF config, settings
  <2>4. ASSUME NEW caller \in Addresses, Withdraw(caller)
        PROVE  FinesInv'
    BY Zenon, <2>3, <2>4 DEF Withdraw
  <2>5. ASSUME NEW min \in MinStakes, NEW lockup \in LockupPeriods,
             NEW fine \in FineValues, NEW value \in Amounts,
             UpdateConfiguration(min, lockup, fine, value)
        PROVE  FinesInv'
    BY Zenon, <2>2, <2>5 DEF UpdateConfiguration
  <2>6. ASSUME NEW caller \in Addresses, NEW value \in Amounts,
               \/ \E key \in Keys : Register(caller, key, value)
               \/ Stake(caller, value) \/ Unstake(caller, value)
               \/ \E addr \in Addresses : PayFine(caller, addr, value)
        PROVE  FinesInv'
    BY Zenon, <2>3, <2>6 DEF Register, Stake, Unstake, PayFine
  <2>7. ASSUME NEW key \in Keys,
               Disqualify(key) \/ \E caller \in Addresses : ReplaceNodePublicKey(caller, key)
        PROVE  FinesInv'
    BY Zenon, <2>3, <2>7 DEF Disqualify, ReplaceNodePublicKey
  <2>8. ASSUME NEW old \in Addresses, NEW new \in Addresses, TransferNodeOwnership(old, new)
        PROVE  FinesInv'
    BY Zenon, <2>3, <2>8 DEF TransferNodeOwnership
  <2>9. CASE NextBlock
    BY Zenon, <2>3, <2>9 DEF NextBlock
  <2>10. CASE UNCHANGED vars
    BY Zenon, <2>3, <2>10 DEF vars
  <2> QED
    BY Zenon, <2>1, <2>4, <2>5, <2>6, <2>7, <2>8, <2>9, <2>10 DEF Next
<1> QED
  BY <1>1, <1>2, PTL DEF Spec

(* Two conflicting messages are fined at most once, whatever is reported   *)
(* in whatever order, and whoever owns the node by then.                   *)
THEOREM FinesUnique == Spec => []FinedOncePerConflict
<1>1. FinesInv => FinedOncePerConflict
  BY DEF FinesInv, FinedOncePerConflict
<1> QED
  BY <1>1, FinesRecorded, PTL

-----------------------------------------------------------------------------
(* Writing one node keeps the fined ones, if that node has no fine or      *)
(* keeps its stakes and one of its ids.                                    *)
LEMMA UpdateKeepsFined ==
    ASSUME RegistryInv, NEW o \in 1..Len(nodes), NEW n, UpdateNode(o, n),
           \/ nodes[o].Fined = 0
           \/ /\ n.Owner = nodes[o].Owner \/ n.PublicKey = nodes[o].PublicKey
              /\ n.Staked = nodes[o].Staked
              /\ n.Unstaked = nodes[o].Unstaked
    PROVE  FinedKept
<1>1. nodes \in Seq(NodeInfo)
  BY Zenon DEF RegistryInv
<1>2. /\ Len(nodes') = Len(nodes)
      /\ \A i \in 1..Len(nodes) : nodes'[i] = IF i = o THEN n ELSE nodes[i]
  BY <1>1 DEF UpdateNode, SetNodes
<1>3. ASSUME NEW i \in 1..Len(nodes), nodes[i].Fined > 0
      PROVE  StakeKept(i)
  <2>1. i \in 1..Len(nodes') /\ nodes'[i] = IF i = o THEN n ELSE nodes[i]
    BY Zenon, <1>2, <1>3
  <2>2. i = o => nodes[o].Fined # 0
    BY <1>3
  <2> QED
    BY Zenon, <2>1, <2>2 DEF StakeKept
<1> QED
  BY Zenon, <1>3 DEF FinedKept

LEMMA NextKeepsFined == RegistryInv /\ Next => FinedKept
<1> SUFFICES ASSUME RegistryInv, Next PROVE FinedKept
  BY Zenon
<1>1. ASSUME UNCHANGED nodes
      PROVE  FinedKept
  BY Zenon, <1>1 DEF FinedKept, StakeKept
<1>2. ASSUME NEW caller \in Addresses, NEW key \in Keys, NEW value \in Amounts,
             Register(caller, key, value)
      PROVE  FinedKept
  <2>1. PICK n : nodes' = Append(nodes, n)
    BY Zenon, <1>2 DEF Register, SetNodes
  <2>2. \A i \in 1..Len(nodes) : i \in 1..Len(nodes') /\ nodes'[i] = nodes[i]
    BY <2>1 DEF RegistryInv
  <2> QED
    BY Zenon, <2>2 DEF FinedKept, StakeKept
<1>3. ASSUME NEW caller \in Addresses, NEW value \in Amounts,
             Stake(caller, value) \/ Unstake(caller, value)
      PROVE  FinedKept
  <2>1. Registered(caller) /\ NodeOf(caller).Fined = 0
        /\ \E n : UpdateNode(nodesOffsetByAddress[caller], n)
    BY Zenon, <1>3 DEF Stake, Unstake, CanUnstake
  <2>2. /\ nodesOffsetByAddress[caller] \in 1..Len(nodes)
        /\ nodes[nodesOffsetByAddress[caller]].Fined = 0
    BY Zenon, <2>1, NodeOfAddress
  <2> QED
    BY Zenon, <2>1, <2>2, UpdateKeepsFined
<1>4. ASSUME NEW caller \in Addresses, Withdraw(caller)
      PROVE  FinedKept
  <2> DEFINE o == nodesOffsetByAddress[caller]
             L == Len(nodes)
  <2>1. o \in 1..L /\ nodes[o].Fined = 0 /\ NodeOf(caller) = nodes[o]
    BY Zenon, <1>4, NodeOfAddress DEF Withdraw, Withdrawable
  <2>2. CASE NodeOf(caller).Staked # 0
    <3>1. \E n : UpdateNode(o, n)
      BY Zenon, <2>2, <1>4 DEF Withdraw, KeepNode
    <3> QED
      BY Zenon, <2>1, <3>1, UpdateKeepsFined
  <2>3. CASE NodeOf(caller).Staked = 0
    <3>1. nodes' = [i \in 1..(L - 1) |-> IF i = o THEN nodes[L] ELSE nodes[i]]
      BY Zenon, <2>3, <1>4 DEF Withdraw, RemoveNode, SetNodes
    <3>2. L \in Nat /\ L - 1 \in Nat
      BY <2>1, InvFacts
    <3> HIDE DEF o, L
    <3>3. /\ Len(nodes') = L - 1
          /\ \A i \in 1..(L - 1) : nodes'[i] = IF i = o THEN nodes[L] ELSE nodes[i]
      BY <3>1, <3>2
    <3>4. ASSUME NEW i \in 1..L, nodes[i].Fined > 0
          PROVE  \E j \in 1..(L - 1) : nodes'[j] = nodes[i]
      <4>1. i # o
        BY <2>1, <3>4
      <4>2. CASE i = L
        <5>1. o \in 1..(L - 1)
          BY <2>1, <4>1, <4>2, <3>2
        <5> QED
          BY Zenon, <4>2, <5>1, <3>3
      <4>3. CASE i # L
        <5>1. i \in 1..(L - 1)
          BY <4>3, <3>2
        <5> QED
          BY Zenon, <4>1, <5>1, <3>3
      <4> QED
        BY Zenon, <4>2, <4>3
    <3> QED
      BY Zenon, <3>3, <3>4 DEF FinedKept, StakeKept, L
  <2> QED
    BY Zenon, <2>2, <2>3
<1>5. ASSUME NEW caller \in Addresses, NEW addr \in Addresses, NEW value \in Amounts,
             PayFine(caller, addr, value)
      PROVE  FinedKept
  <2>1. /\ nodesOffsetByAddress[addr] \in 1..Len(nodes) /\ NodeOf(addr) \in NodeInfo
        /\ NodeOf(addr) = nodes[nodesOffsetByAddress[addr]]
    BY Zenon, <1>5, NodeOfAddress DEF PayFine
  <2>2. LET n == [NodeOf(addr) EXCEPT !.Fined = @ - value]
        IN  /\ UpdateNode(nodesOffsetByAddress[addr], n)
            /\ n.Owner = NodeOf(addr).Owner /\ n.Staked = NodeOf(addr).Staked
            /\ n.Unstaked = NodeOf(addr).Unstaked
    BY Zenon, <1>5, <2>1 DEF PayFine, NodeInfo
  <2> QED
    BY Zenon, <2>1, <2>2, UpdateKeepsFined
<1>6. ASSUME NEW n \in NodeInfo
      PROVE  /\ FinedNode(n).Owner = n.Owner /\ FinedNode(n).Staked = n.Staked
             /\ FinedNode(n).Unstaked = n.Unstaked
  BY Zenon, <1>6 DEF FinedNode, NodeInfo
<1>7. ASSUME NEW m1 \in Messages, NEW m2 \in Messages, Report(m1, m2)
      PROVE  FinedKept
  <2> DEFINE k == m1.ProposerID
             owner == nodes[nodesOffsetByNodeKeyAddress[k]].Owner
  <2>1. k \in Keys
    BY Zenon, RegistryAssumption
  <2>2. /\ nodesOffsetByNodeKeyAddress[k] # 0 /\ Registered(owner)
        /\ UpdateNode(nodesOffsetByAddress[owner], FinedNode(NodeOf(owner)))
    BY Zenon, <1>7 DEF Report
  <2>3. nodesOffsetByNodeKeyAddress[k] \in 1..Len(nodes)
    BY Zenon, <2>1, <2>2, NodeOfKey
  <2>4. owner \in Addresses
    BY Zenon, <2>3, NodeFields DEF RegistryInv
  <2> HIDE DEF owner
  <2>5. /\ nodesOffsetByAddress[owner] \in 1..Len(nodes) /\ NodeOf(owner) \in NodeInfo
        /\ NodeOf(owner) = nodes[nodesOffsetByAddress[owner]]
    BY Zenon, <2>2, <2>4, NodeOfAddress
  <2> QED
    BY Zenon, <2>2, <2>5, <1>6, UpdateKeepsFined
<1>8. ASSUME NEW key \in Keys, Disqualify(key)
      PROVE  FinedKept
  <2>1. /\ nodesOffsetByNodeKeyAddress[key] \in 1..Len(nodes)
        /\ nodes[nodesOffsetByNodeKeyAddress[key]] \in NodeInfo
    BY Zenon, <1>8, NodeOfKey DEF Disqualify
  <2>2. UpdateNode(nodesOffsetByNodeKeyAddress[key],
                   FinedNode(nodes[nodesOffsetByNodeKeyAddress[key]]))
    BY Zenon, <1>8 DEF Disqualify
  <2> QED
    BY Zenon, <2>1, <2>2, <1>6, UpdateKeepsFined
<1>9. ASSUME NEW old \in Addresses, NEW new \in Addresses, TransferNodeOwnership(old, new)
      PROVE  FinedKept
  <2>1. /\ nodesOffsetByAddress[old] \in 1..Len(nodes) /\ NodeOf(old) \in NodeInfo
        /\ NodeOf(old) = nodes[nodesOffsetByAddress[old]]
    BY Zenon, <1>9, NodeOfAddress DEF TransferNodeOwnership
  <2>2. LET n == [NodeOf(old) EXCEPT !.Owner = new]
        IN  /\ UpdateNode(nodesOffsetByAddress[old], n)
            /\ n.PublicKey = NodeOf(old).PublicKey /\ n.Staked = NodeOf(old).Staked
            /\ n.Unstaked = NodeOf(old).Unstaked
    BY Zenon, <1>9, <2>1 DEF TransferNodeOwnership, NodeInfo
  <2> QED
    BY Zenon, <2>1, <2>2, UpdateKeepsFined
<1>10. ASSUME NEW caller \in Addresses, NEW key \in Keys, ReplaceNodePublicKey(caller, key)
       PROVE  FinedKept
  <2>1. /\ nodesOffsetByAddress[caller] \in 1..Len(nodes) /\ NodeOf(caller) \in NodeInfo
        /\ NodeOf(caller) = nodes[nodesOffsetByAddress[caller]]
    BY Zenon, <1>10, NodeOfAddress DEF ReplaceNodePublicKey
  <2>2. LET n == [NodeOf(caller) EXCEPT !.PublicKey = key]
        IN  /\ UpdateNode(nodesOffsetByAddress[caller], n)
            /\ n.Owner = NodeOf(caller).Owner /\ n.Staked = NodeOf(caller).Staked
            /\ n.Unstaked = NodeOf(caller).Unstaked
    BY Zenon, <1>10, <2>1 DEF ReplaceNodePublicKey, NodeInfo
  <2> QED
    BY Zenon, <2>1, <2>2, UpdateKeepsFined
<1>11. ASSUME NEW min \in MinStakes, NEW lockup \in LockupPeriods,
             NEW fine \in FineValues, NEW value \in Amounts,
             UpdateConfiguration(min, lockup, fine, value)
       PROVE  FinedKept
  BY Zenon, <1>1, <1>11 DEF UpdateConfiguration
<1>12. CASE NextBlock
  BY Zenon, <1>1, <1>12 DEF NextBlock
<1> QED
  BY Zenon, <1>2, <1>3, <1>4, <1>5, <1>7, <1>8, <1>9, <1>10, <1>11, <1>12 DEF Next

(* No call takes a stake, or a withdrawal in progress, away from a node    *)
(* that owes a fine.                                                       *)
THEOREM FinedLocked == Spec => FinedNodesLocked
<1>0. Init => FineTyped
  BY Zenon DEF Init, FineTyped
<1>1. Init => RegistryInv
  BY Zenon, InitRegistry
<1>2. RegistryInv /\ FineTyped /\ [Next]_vars => RegistryInv'
  BY Zenon, NextRegistry
<1>3. RegistryInv /\ [Next]_vars => [FinedKept]_vars
  BY Zenon, NextKeepsFined
<1> QED
  BY <1>0, <1>1, <1>2, <1>3, NextFineTyped, PTL DEF Spec, FinedNodesLocked

-----------------------------------------------------------------------------
(* The set of nodes that the array holds.                                  *)
LEMMA DistinctNodes ==
    ASSUME RegistryInv, NEW i \in 1..Len(nodes), NEW j \in 1..Len(nodes), nodes[i] = nodes[j]
    PROVE  i = j
<1>0. DOMAIN owners = 1..Len(nodes) /\ Exact(nodesOffsetByAddress, owners)
  BY Zenon, InvFacts DEF owners
<1>1. nodesOffsetByAddress[owners[i]] = i /\ nodesOffsetByAddress[owners[j]] = j
  BY Zenon, <1>0 DEF Exact
<1>2. owners[i] = owners[j]
  BY Zenon DEF owners
<1> QED
  BY Zenon, <1>1, <1>2

LEMMA UpdateBook ==
    ASSUME RegistryInv, NEW o \in 1..Len(nodes), NEW n \in NodeInfo, UpdateNode(o, n)
    PROVE  Elements(nodes') = (Elements(nodes) \ {nodes[o]}) \cup {n}
<1>1. /\ Len(nodes') = Len(nodes)
      /\ \A i \in 1..Len(nodes) : nodes'[i] = IF i = o THEN n ELSE nodes[i]
  BY InvFacts DEF UpdateNode, SetNodes
<1>2. \A i \in 1..Len(nodes) : nodes[i] = nodes[o] => i = o
  BY Zenon, DistinctNodes
<1>3. ASSUME NEW x \in Elements(nodes') PROVE x \in (Elements(nodes) \ {nodes[o]}) \cup {n}
  BY Zenon, <1>1, <1>2 DEF Elements
<1>4. ASSUME NEW x \in (Elements(nodes) \ {nodes[o]}) \cup {n} PROVE x \in Elements(nodes')
  BY Zenon, <1>1, <1>2 DEF Elements
<1> QED
  BY Zenon, <1>3, <1>4

LEMMA PushBook ==
    ASSUME RegistryInv, NEW n \in NodeInfo, nodes' = Append(nodes, n)
    PROVE  Elements(nodes') = Elements(nodes) \cup {n}
<1>1. /\ Len(nodes) + 1 \in 1..(Len(nodes) + 1)
      /\ Len(nodes') = Len(nodes) + 1 /\ nodes'[Len(nodes) + 1] = n
      /\ \A i \in 1..Len(nodes) : i \in 1..(Len(nodes) + 1) /\ nodes'[i] = nodes[i]
      /\ \A i \in 1..(Len(nodes) + 1) : i \in 1..Len(nodes) \/ i = Len(nodes) + 1
  BY InvFacts
<1>2. ASSUME NEW x \in Elements(nodes') PROVE x \in Elements(nodes) \cup {n}
  BY ZenonT(30), <1>1 DEF Elements
<1>3. ASSUME NEW x \in Elements(nodes) \cup {n} PROVE x \in Elements(nodes')
  BY Zenon, <1>1 DEF Elements
<1> QED
  BY Zenon, <1>2, <1>3

LEMMA RemoveBook ==
    ASSUME RegistryInv, NEW o \in 1..Len(nodes), NEW n, RemoveNode(o, n)
    PROVE  Elements(nodes') = Elements(nodes) \ {nodes[o]}
<1> DEFINE L == Len(nodes)
<1>1. /\ L \in 1..L /\ \A i \in 1..(L - 1) : i \in 1..L /\ i # L
      /\ \A i \in 1..L : i # L => i \in 1..(L - 1)
  BY InvFacts
<1>2. /\ Len(nodes') = L - 1
      /\ \A i \in 1..(L - 1) : nodes'[i] = IF i = o THEN nodes[L] ELSE nodes[i]
  BY InvFacts DEF RemoveNode, SetNodes
<1>3. \A i, j \in 1..L : nodes[i] = nodes[j] => i = j
  BY Zenon, DistinctNodes
<1>4. ASSUME NEW x \in Elements(nodes') PROVE x \in Elements(nodes) \ {nodes[o]}
  <2>1. PICK i \in 1..(L - 1) : x = nodes'[i]
    BY Zenon, <1>2 DEF Elements
  <2>2. CASE i = o
    BY Zenon, <1>1, <1>2, <1>3, <2>1, <2>2 DEF Elements
  <2>3. CASE i # o
    BY Zenon, <1>1, <1>2, <1>3, <2>1, <2>3 DEF Elements
  <2> QED
    BY Zenon, <2>2, <2>3
<1>5. ASSUME NEW x \in Elements(nodes) \ {nodes[o]} PROVE x \in Elements(nodes')
  <2>1. PICK i \in 1..L : x = nodes[i]
    BY Zenon DEF Elements
  <2>2. i # o
    BY Zenon, <2>1
  <2>3. CASE i = L
    <3>1. o \in 1..(L - 1)
      BY Zenon, <1>1, <2>2, <2>3
    <3> QED
      BY Zenon, <1>2, <2>1, <2>3, <3>1 DEF Elements
  <2>4. CASE i # L
    BY Zenon, <1>1, <1>2, <2>1, <2>2, <2>4 DEF Elements
  <2> QED
    BY Zenon, <2>3, <2>4
<1> QED
  BY Zenon, <1>4, <1>5

(* An address or key without an offset has no node in the array.           *)
LEMMA FreeIds ==
    ASSUME RegistryInv
    PROVE  /\ \A a \in Addresses : ~Registered(a) => a \in Book!FreeAddresses
           /\ \A k \in Keys : nodesOffsetByNodeKeyAddress[k] = 0 => k \in Book!FreeKeys
<1>1. \A i \in 1..Len(nodes) : nodesOffsetByAddress[nodes[i].Owner] = i /\ i # 0
  BY InvFacts DEF Exact, owners
<1>2. \A i \in 1..Len(nodes) : nodesOffsetByNodeKeyAddress[nodes[i].PublicKey] = i
  BY InvFacts DEF Exact, publicKeys
<1>3. ASSUME NEW a \in Addresses, ~Registered(a) PROVE a \in Book!FreeAddresses
  <2>1. ASSUME NEW x \in Elements(nodes) PROVE x.Owner # a
    <3>1. PICK i \in 1..Len(nodes) : x = nodes[i]
      BY Zenon DEF Elements
    <3> QED
      BY Zenon, <1>1, <1>3, <3>1 DEF Registered
  <2> QED
    BY Zenon, <2>1 DEF Book!FreeAddresses
<1>4. ASSUME NEW k \in Keys, nodesOffsetByNodeKeyAddress[k] = 0 PROVE k \in Book!FreeKeys
  <2>1. ASSUME NEW x \in Elements(nodes) PROVE x.PublicKey # k
    <3>1. PICK i \in 1..Len(nodes) : x = nodes[i]
      BY Zenon DEF Elements
    <3> QED
      BY Zenon, <1>1, <1>2, <1>4, <3>1
  <2> QED
    BY Zenon, <2>1 DEF Book!FreeKeys
<1> QED
  BY Zenon, <1>3, <1>4

(* The node of a registered address is in the set.                         *)
LEMMA BookNode ==
    ASSUME RegistryInv, NEW o \in 1..Len(nodes)
    PROVE  nodes[o] \in Elements(nodes)
BY Zenon DEF Elements

(* A key and the owner of its node lead to the same node.                  *)
LEMMA KeyAndOwner ==
    ASSUME RegistryInv, NEW k \in Keys, nodesOffsetByNodeKeyAddress[k] # 0
    PROVE  /\ nodes[nodesOffsetByNodeKeyAddress[k]].PublicKey = k
           /\ nodesOffsetByAddress[nodes[nodesOffsetByNodeKeyAddress[k]].Owner]
                 = nodesOffsetByNodeKeyAddress[k]
<1> DEFINE o == nodesOffsetByNodeKeyAddress[k]
<1>1. o \in 1..Len(nodes) /\ publicKeys[o] = k
  BY InvFacts DEF Exact
<1>2. nodesOffsetByAddress[owners[o]] = o
  <2>1. DOMAIN owners = 1..Len(nodes) /\ Exact(nodesOffsetByAddress, owners)
    BY Zenon, InvFacts DEF owners
  <2> QED
    BY Zenon, <1>1, <2>1 DEF Exact
<1> HIDE DEF o
<1>3. nodes[o].PublicKey = k /\ owners[o] = nodes[o].Owner
  BY Zenon, <1>1 DEF publicKeys, owners
<1> QED
  BY Zenon, <1>2, <1>3 DEF o

(* Every call does to the set of nodes what StakeBook says.                *)
LEMMA NextBook ==
    ASSUME RegistryInv, FineTyped, [Next]_vars
    PROVE  [Book!Next]_Book!vars
<1>0. /\ \A v \in Amounts : v \in Nat
      /\ \A m \in Messages : m.ProposerID \in Keys
      /\ fineValue \in FineValues
  BY Zenon, RegistryAssumption DEF FineTyped
<1>1. ASSUME NEW o \in 1..Len(nodes), Book!NodeNext(nodes[o])
      PROVE  Book!Next
  BY Zenon, <1>1, BookNode DEF Book!Next
<1>2. ASSUME UNCHANGED config
      PROVE  /\ UNCHANGED <<fineRecords, Book!settings>>
             /\ UNCHANGED settings
  BY Zenon, <1>2 DEF config, settings, Book!settings
<1>3. ASSUME UNCHANGED money
      PROVE  UNCHANGED Book!money
  BY Zenon, <1>3 DEF money, Book!money
<1>4. ASSUME NEW a, NEW v, Pay(a, v)
      PROVE  Book!Pay(a, v)
  BY Zenon, <1>4 DEF Pay, Book!Pay
<1>5. ASSUME NEW caller \in Addresses, NEW key \in Keys, NEW value \in Amounts,
             Register(caller, key, value)
      PROVE  Book!Next
  <2> DEFINE node == [Owner |-> caller, PublicKey |-> key, Staked |-> value,
                      Fined |-> 0, Unstaked |-> 0, UnstakedAt |-> 0]
  <2>1. node \in NodeInfo
    BY <1>0 DEF NodeInfo
  <2>2. /\ ~Registered(caller) /\ nodesOffsetByNodeKeyAddress[key] = 0
        /\ nodes' = Append(nodes, node) /\ Pay(caller, value) /\ UNCHANGED config
        /\ time' = time
    BY Zenon, <1>5 DEF Register, SetNodes
  <2>3. Elements(nodes') = Elements(nodes) \cup {node}
    <3> HIDE DEF node
    <3> QED
      BY Zenon, <2>1, <2>2, PushBook
  <2>4. caller \in Book!FreeAddresses /\ key \in Book!FreeKeys
    BY Zenon, <2>2, FreeIds
  <2>5. Book!Register(caller, key, value)
    BY Zenon, <1>2, <1>4, <2>2, <2>3 DEF Book!Register
  <2> QED
    BY Zenon, <2>4, <2>5 DEF Book!Next
<1>6. ASSUME NEW caller \in Addresses, NEW value \in Amounts, Stake(caller, value)
      PROVE  Book!Next
  <2> DEFINE o == nodesOffsetByAddress[caller]
             n == [nodes[o] EXCEPT !.Staked = @ + value]
  <2>1. /\ o \in 1..Len(nodes) /\ nodes[o] \in NodeInfo /\ NodeOf(caller) = nodes[o]
        /\ nodes[o].Owner = caller
    BY Zenon, <1>6, NodeOfAddress DEF Stake
  <2>2. /\ value > 0 /\ nodes[o].Fined = 0 /\ Pay(caller, value) /\ UpdateNode(o, n)
        /\ UNCHANGED config /\ time' = time
    BY Zenon, <1>6, <2>1 DEF Stake
  <2>3. n \in NodeInfo
    BY Zenon, <1>0, <2>1, StakedNode DEF SameIds
  <2>4. Elements(nodes') = (Elements(nodes) \ {nodes[o]}) \cup {n}
    <3> HIDE DEF o, n
    <3> QED
      BY Zenon, <2>1, <2>2, <2>3, UpdateBook
  <2>5. Book!Stake(nodes[o], value)
    <3> HIDE DEF o
    <3> QED
      BY Zenon, <1>2, <1>4, <2>1, <2>2, <2>4 DEF Book!Stake, Book!Replace
  <2> HIDE DEF o
  <2> QED
    BY Zenon, <1>1, <2>1, <2>5 DEF Book!NodeNext
<1>7. ASSUME NEW caller \in Addresses, NEW amount \in Amounts, Unstake(caller, amount)
      PROVE  Book!Next
  <2> DEFINE o == nodesOffsetByAddress[caller]
             n == [nodes[o] EXCEPT !.Staked = @ - amount, !.Unstaked = amount,
                                   !.UnstakedAt = time]
  <2>1. o \in 1..Len(nodes) /\ nodes[o] \in NodeInfo /\ NodeOf(caller) = nodes[o]
    BY Zenon, <1>7, NodeOfAddress DEF Unstake
  <2>2. /\ nodes[o].Fined = 0 /\ nodes[o].Unstaked = 0 /\ nodes[o].Staked >= amount
        /\ UpdateNode(o, n) /\ UNCHANGED config /\ UNCHANGED money /\ time' = time
    BY Zenon, <1>7, <2>1 DEF Unstake, CanUnstake
  <2>3. n \in NodeInfo
    BY Zenon, <1>0, <2>1, <2>2, UnstakedNode DEF SameIds, RegistryInv
  <2>4. Elements(nodes') = (Elements(nodes) \ {nodes[o]}) \cup {n}
    <3> HIDE DEF o, n
    <3> QED
      BY Zenon, <2>1, <2>2, <2>3, UpdateBook
  <2> HIDE DEF o
  <2>5. Book!Unstake(nodes[o], amount)
    BY Zenon, <1>2, <1>3, <2>2, <2>4 DEF Book!Unstake, Book!Replace
  <2> QED
    BY Zenon, <1>1, <2>1, <2>5 DEF Book!NodeNext
<1>8. ASSUME NEW caller \in Addresses, Withdraw(caller)
      PROVE  Book!Next
  <2> DEFINE o == nodesOffsetByAddress[caller]
             n == [nodes[o] EXCEPT !.Unstaked = 0, !.UnstakedAt = 0]
  <2>1. o \in 1..Len(nodes) /\ nodes[o] \in NodeInfo /\ NodeOf(caller) = nodes[o]
    BY Zenon, <1>8, NodeOfAddress DEF Withdraw
  <2>2. /\ nodes[o].Fined = 0 /\ nodes[o].UnstakedAt # 0
        /\ time > nodes[o].UnstakedAt + lockupPeriod
        /\ IF nodes[o].Staked = 0 THEN RemoveNode(o, nodes[o]) ELSE UpdateNode(o, n)
        /\ contractBalance' = contractBalance - nodes[o].Unstaked
        /\ balances' = [balances EXCEPT ![nodes[o].Owner] = @ + nodes[o].Unstaked]
        /\ UNCHANGED config /\ time' = time
    BY Zenon, <1>8, <2>1 DEF Withdraw, Withdrawable, KeepNode
  <2>3. n \in NodeInfo
    BY Zenon, <2>1, WithdrawnNode DEF SameIds
  <2>4. \/ nodes[o].Staked = 0 /\ Elements(nodes') = Elements(nodes) \ {nodes[o]}
        \/ nodes[o].Staked # 0 /\ Elements(nodes') = (Elements(nodes) \ {nodes[o]}) \cup {n}
    <3> HIDE DEF o, n
    <3>1. CASE nodes[o].Staked = 0
      BY Zenon, <2>1, <2>2, <3>1, RemoveBook
    <3>2. CASE nodes[o].Staked # 0
      BY Zenon, <2>1, <2>2, <2>3, <3>2, UpdateBook
    <3> QED
      BY Zenon, <3>1, <3>2
  <2> HIDE DEF o
  <2>5. Book!Withdraw(nodes[o])
    BY Zenon, <1>2, <2>2, <2>4 DEF Book!Withdraw, Book!Replace
  <2> QED
    BY Zenon, <1>1, <2>1, <2>5 DEF Book!NodeNext
<1>9. ASSUME NEW caller \in Addresses, NEW addr \in Addresses, NEW value \in Amounts,
             PayFine(caller, addr, value)
      PROVE  Book!Next
  <2> DEFINE o == nodesOffsetByAddress[addr]
             n == [nodes[o] EXCEPT !.Fined = @ - value]
  <2>1. o \in 1..Len(nodes) /\ nodes[o] \in NodeInfo /\ NodeOf(addr) = nodes[o]
    BY Zenon, <1>9, NodeOfAddress DEF PayFine
  <2>2. /\ nodes[o].Fined > 0 /\ nodes[o].Fined >= value /\ balances[caller] >= value
        /\ balances' = [balances EXCEPT ![caller] = @ - value, ![Foundation] = @ + value]
        /\ UpdateNode(o, n) /\ UNCHANGED config /\ contractBalance' = contractBalance
        /\ time' = time
    BY Zenon, <1>9, <2>1 DEF PayFine
  <2>3. n \in NodeInfo
    BY Zenon, <1>0, <2>1, <2>2, PaidNode DEF SameIds
  <2>4. Elements(nodes') = (Elements(nodes) \ {nodes[o]}) \cup {n}
    <3> HIDE DEF o, n
    <3> QED
      BY Zenon, <2>1, <2>2, <2>3, UpdateBook
  <2> HIDE DEF o
  <2>5. Book!PayFine(caller, nodes[o], value)
    BY Zenon, <1>2, <2>2, <2>4 DEF Book!PayFine, Book!Replace
  <2> QED
    BY Zenon, <1>1, <2>1, <2>5 DEF Book!NodeNext
<1>10. ASSUME NEW o \in 1..Len(nodes), nodes[o].Fined + fineValue <= MaxFine,
              UpdateNode(o, FinedNode(nodes[o])), UNCHANGED <<settings, money, time>>
       PROVE  Book!Fine(nodes[o])
  <2>1. nodes[o] \in NodeInfo
    BY Zenon, NodeFields DEF RegistryInv
  <2>2. FinedNode(nodes[o]) \in NodeInfo
    BY Zenon, <1>0, <2>1, FinedNodeIds DEF SameIds
  <2>3. Elements(nodes') = (Elements(nodes) \ {nodes[o]}) \cup {FinedNode(nodes[o])}
    BY Zenon, <1>10, <2>2, UpdateBook
  <2>4. UNCHANGED <<Book!money, Book!settings, time>>
    BY Zenon, <1>10 DEF money, settings, Book!money, Book!settings
  <2> QED
    BY Zenon, <1>10, <2>3, <2>4 DEF Book!Fine, Book!Replace, FinedNode
<1>11. ASSUME NEW m1 \in Messages, NEW m2 \in Messages, Report(m1, m2)
       PROVE  Book!Next
  <2> DEFINE k == m1.ProposerID
             o == nodesOffsetByNodeKeyAddress[k]
             owner == nodes[o].Owner
  <2>1. k \in Keys
    BY Zenon, <1>0
  <2>2. /\ o # 0 /\ Registered(owner)
        /\ NodeOf(owner).Fined + fineValue <= MaxFine
        /\ UpdateNode(nodesOffsetByAddress[owner], FinedNode(NodeOf(owner)))
        /\ k = m2.ProposerID /\ m1.Position = m2.Position /\ m1.Hash # m2.Hash
        /\ {m1, m2} \notin fineRecords /\ fineRecords' = fineRecords \cup {{m1, m2}}
        /\ UNCHANGED <<settings, money, time>>
    BY Zenon, <1>11 DEF Report, NeedPenalty, RecordHash
  <2>3. o \in 1..Len(nodes)
    BY Zenon, <2>1, <2>2, NodeOfKey
  <2>4. nodes[o].PublicKey = k
    BY Zenon, <2>1, <2>2, KeyAndOwner
  <2>5. nodesOffsetByAddress[owner] = o
    BY Zenon, <2>1, <2>2, KeyAndOwner
  <2>6. NodeOf(owner) = nodes[o]
    BY Zenon, <2>5 DEF NodeOf
  <2> HIDE DEF o, owner
  <2>7. Book!Fine(nodes[o])
    BY Zenon, <1>10, <2>2, <2>3, <2>5, <2>6
  <2>8. Book!Report(m1, m2, nodes[o])
    BY Zenon, <2>2, <2>4, <2>7 DEF Book!Report
  <2> QED
    BY Zenon, <1>1, <2>3, <2>8 DEF Book!NodeNext
<1>12. ASSUME NEW key \in Keys, Disqualify(key)
       PROVE  Book!Next
  <2> DEFINE o == nodesOffsetByNodeKeyAddress[key]
  <2>1. o \in 1..Len(nodes)
    BY Zenon, <1>12, NodeOfKey DEF Disqualify
  <2>2. /\ nodes[o].Fined + fineValue <= MaxFine /\ UpdateNode(o, FinedNode(nodes[o]))
        /\ UNCHANGED <<settings, money, time>> /\ fineRecords' = fineRecords
    BY Zenon, <1>12 DEF Disqualify, config
  <2> HIDE DEF o
  <2>3. Book!Disqualify(nodes[o])
    BY Zenon, <1>10, <2>1, <2>2 DEF Book!Disqualify
  <2> QED
    BY Zenon, <1>1, <2>1, <2>3 DEF Book!NodeNext
<1>13. ASSUME NEW old \in Addresses, NEW new \in Addresses, TransferNodeOwnership(old, new)
       PROVE  Book!Next
  <2> DEFINE o == nodesOffsetByAddress[old]
             n == [nodes[o] EXCEPT !.Owner = new]
  <2>1. o \in 1..Len(nodes) /\ nodes[o] \in NodeInfo /\ NodeOf(old) = nodes[o]
    BY Zenon, <1>13, NodeOfAddress DEF TransferNodeOwnership
  <2>2. /\ ~Registered(new) /\ UpdateNode(o, n) /\ UNCHANGED config /\ UNCHANGED money
        /\ time' = time
    BY Zenon, <1>13, <2>1 DEF TransferNodeOwnership
  <2>3. n \in NodeInfo
    BY Zenon, <2>1, OwnedNode
  <2>4. Elements(nodes') = (Elements(nodes) \ {nodes[o]}) \cup {n}
    <3> HIDE DEF o, n
    <3> QED
      BY Zenon, <2>1, <2>2, <2>3, UpdateBook
  <2> HIDE DEF o
  <2>5. Book!TransferNodeOwnership(nodes[o], new)
    BY Zenon, <1>2, <1>3, <2>2, <2>4 DEF Book!TransferNodeOwnership, Book!Replace
  <2> QED
    BY Zenon, <1>1, <2>1, <2>2, <2>5, FreeIds DEF Book!NodeNext
<1>14. ASSUME NEW caller \in Addresses, NEW key \in Keys, ReplaceNodePublicKey(caller, key)
       PROVE  Book!Next
  <2> DEFINE o == nodesOffsetByAddress[caller]
             n == [nodes[o] EXCEPT !.PublicKey = key]
  <2>1. o \in 1..Len(nodes) /\ nodes[o] \in NodeInfo /\ NodeOf(caller) = nodes[o]
    BY Zenon, <1>14, NodeOfAddress DEF ReplaceNodePublicKey
  <2>2. /\ nodesOffsetByNodeKeyAddress[key] = 0 /\ UpdateNode(o, n) /\ UNCHANGED config
        /\ UNCHANGED money /\ time' = time
    BY Zenon, <1>14, <2>1 DEF ReplaceNodePublicKey
  <2>3. n \in NodeInfo
    BY Zenon, <2>1, KeyedNode
  <2>4. Elements(nodes') = (Elements(nodes) \ {nodes[o]}) \cup {n}
    <3> HIDE DEF o, n
    <3> QED
      BY Zenon, <2>1, <2>2, <2>3, UpdateBook
  <2> HIDE DEF o
  <2>5. Book!ReplaceNodePublicKey(nodes[o], key)
    BY Zenon, <1>2, <1>3, <2>2, <2>4 DEF Book!ReplaceNodePublicKey, Book!Replace
  <2> QED
    BY Zenon, <1>1, <2>1, <2>2, <2>5, FreeIds DEF Book!NodeNext
<1>15. ASSUME NEW min \in MinStakes, NEW lockup \in LockupPeriods,
              NEW fine \in FineValues, NEW value \in Amounts,
              UpdateConfiguration(min, lockup, fine, value)
       PROVE  Book!Next
  <2>1. Book!UpdateConfiguration(lockup, fine, value)
    BY Zenon, <1>4, <1>15 DEF UpdateConfiguration, Book!UpdateConfiguration
  <2> QED
    BY Zenon, <2>1 DEF Book!Next
<1>16. CASE NextBlock
  <2>1. Book!NextBlock
    BY Zenon, <1>2, <1>3, <1>16 DEF NextBlock, Book!NextBlock
  <2> QED
    BY Zenon, <2>1 DEF Book!Next
<1>17. CASE UNCHANGED vars
  <2>1. UNCHANGED <<nodes, fineRecords, Book!money, Book!settings, time>>
    BY Zenon, <1>2, <1>3, <1>17 DEF vars
  <2> QED
    BY Zenon, <2>1 DEF Book!vars
<1> QED
  BY Zenon, <1>5, <1>6, <1>7, <1>8, <1>9, <1>11, <1>12, <1>13, <1>14, <1>15, <1>16, <1>17
     DEF Next

(* The registry implements StakeBook: the array, its two offset mappings   *)
(* and the records of fines behave as a set of nodes found by owner or key.*)
THEOREM RegistryKeepsBook == Spec => KeepsBook
<1>1. Init => RegistryInv /\ FineTyped
  BY Zenon, InitRegistry DEF Init, FineTyped
<1>2. RegistryInv /\ FineTyped /\ [Next]_vars => (RegistryInv /\ FineTyped)'
  BY Zenon, NextRegistry, NextFineTyped
<1>3. Init => Book!Init
  BY Zenon DEF Init, Book!Init, Accounts
<1>4. RegistryInv /\ FineTyped /\ [Next]_vars => [Book!Next]_Book!vars
  BY Zenon, NextBook
<1> QED
  BY <1>1, <1>2, <1>3, <1>4, PTL DEF Spec, KeepsBook, Book!Spec

-----------------------------------------------------------------------------
(* The sums of the stakes.  That a recursive sum is what its recursion     *)
(* says, and the facts about it, rest on least counterexamples.            *)
INSTANCE WellFoundedInduction

(* A set of natural numbers that is not empty has a least one.             *)
LEMMA LeastNatural ==
    ASSUME NEW T, T \subseteq Nat, T # {}
    PROVE  \E x \in T : \A y \in T : x <= y
<1> DEFINE R == OpToRel(<, Nat)
<1>1. PICK x \in T : \A y \in T : ~ (<<y, x>> \in R)
  BY ZenonT(20), WFMin, NatLessThanWellFounded
<1>2. \A u, v \in Nat : v < u => <<v, u>> \in R
  BY Zenon DEF OpToRel
<1> HIDE DEF R
<1>3. ASSUME NEW y \in T PROVE x <= y
  <2>1. x \in Nat /\ y \in Nat /\ ~(y < x)
    BY Zenon, <1>1, <1>2
  <2> QED
    BY <2>1
<1> QED
  BY Zenon, <1>3

(* g holds the sums of the first values of f, up to the first n.           *)
Sums(g, f, n) == g = [i \in 0..n |-> IF i = 0 THEN 0 ELSE g[i - 1] + f[i]]

LEMMA SumsExtend ==
    ASSUME NEW f, NEW n \in Nat, NEW g, Sums(g, f, n)
    PROVE  \E h : Sums(h, f, n + 1)
<1> DEFINE h == [i \in 0..(n + 1) |-> IF i = n + 1 THEN g[n] + f[n + 1] ELSE g[i]]
<1>1. ASSUME NEW i \in 0..(n + 1)
      PROVE  h[i] = IF i = 0 THEN 0 ELSE h[i - 1] + f[i]
  <2>1. CASE i = n + 1
    <3>1. i # 0 /\ i - 1 = n /\ n \in 0..(n + 1) /\ n # n + 1
      BY <2>1
    <3> QED
      BY Zenon, <2>1, <3>1
  <2>2. CASE i # n + 1
    <3>1. i \in 0..n /\ (i # 0 => i - 1 \in 0..(n + 1) /\ i - 1 # n + 1)
      BY <2>2
    <3>2. g[i] = IF i = 0 THEN 0 ELSE g[i - 1] + f[i]
      BY Zenon, <3>1 DEF Sums
    <3>3. h[i] = g[i] /\ (i # 0 => h[i - 1] = g[i - 1])
      BY Zenon, <2>2, <3>1
    <3> HIDE DEF h
    <3> QED
      BY Zenon, <3>2, <3>3
  <2> QED
    BY Zenon, <2>1, <2>2
<1>2. h = [i \in 0..(n + 1) |-> h[i]]
  BY Zenon
<1> HIDE DEF h
<1>3. h = [i \in 0..(n + 1) |-> IF i = 0 THEN 0 ELSE h[i - 1] + f[i]]
  BY Zenon, <1>1, <1>2
<1> QED
  BY Zenon, <1>3 DEF Sums

LEMMA SumsExist ==
    ASSUME NEW f, NEW n \in Nat
    PROVE  \E g : Sums(g, f, n)
<1> DEFINE T == {k \in Nat : ~\E g : Sums(g, f, k)}
<1>1. SUFFICES ASSUME T # {} PROVE FALSE
  BY Zenon
<1>2. PICK k \in T : \A j \in T : k <= j
  <2>1. T \subseteq Nat
    BY Zenon
  <2> HIDE DEF T
  <2> QED
    BY Zenon, <1>1, <2>1, LeastNatural
<1>3. CASE k = 0
  <2> DEFINE g == [i \in 0..0 |-> 0]
  <2>1. \A i \in 0..0 : i = 0
    OBVIOUS
  <2>2. g = [i \in 0..0 |-> IF i = 0 THEN 0 ELSE g[i - 1] + f[i]]
    BY Zenon, <2>1
  <2> HIDE DEF g
  <2> QED
    BY Zenon, <2>2, <1>3 DEF Sums
<1>4. CASE k # 0
  <2>1. k - 1 \in Nat /\ ~(k <= k - 1) /\ (k - 1) + 1 = k
    BY <1>4
  <2>2. PICK g : Sums(g, f, k - 1)
    BY Zenon, <1>2, <2>1
  <2>3. \E h : Sums(h, f, (k - 1) + 1)
    BY Zenon, <2>1, <2>2, SumsExtend
  <2> QED
    BY Zenon, <2>1, <2>3
<1> QED
  BY Zenon, <1>3, <1>4

LEMMA TotalSums ==
    ASSUME NEW f, NEW n \in Nat
    PROVE  \E g : Sums(g, f, n) /\ Total(f, n) = g[n]
<1> DEFINE g == CHOOSE g : g = [i \in 0..n |-> IF i = 0 THEN 0 ELSE g[i - 1] + f[i]]
<1>1. Total(f, n) = g[n]
  BY Zenon DEF Total
<1>2. \E h : h = [i \in 0..n |-> IF i = 0 THEN 0 ELSE h[i - 1] + f[i]]
  BY Zenon, SumsExist DEF Sums
<1>3. g = [i \in 0..n |-> IF i = 0 THEN 0 ELSE g[i - 1] + f[i]]
  BY Zenon, <1>2
<1> HIDE DEF g
<1> QED
  BY Zenon, <1>1, <1>3 DEF Sums

LEMMA SumsAt ==
    ASSUME NEW f, NEW n \in Nat, NEW g, Sums(g, f, n)
    PROVE  g[0] = 0 /\ \A i \in 1..n : g[i] = g[i - 1] + f[i]
<1>1. 0 \in 0..n
  OBVIOUS
<1>2. \A i \in 1..n : i \in 0..n /\ i # 0
  OBVIOUS
<1> QED
  BY Zenon, <1>1, <1>2 DEF Sums

(* The recursion of Total.                                                 *)
LEMMA TotalZero ==
    ASSUME NEW f
    PROVE  Total(f, 0) = 0
<1>1. 0 \in Nat
  BY Zenon
<1>2. PICK g : Sums(g, f, 0) /\ Total(f, 0) = g[0]
  BY Zenon, <1>1, TotalSums
<1>3. g[0] = 0
  BY Zenon, <1>1, <1>2, SumsAt
<1> QED
  BY Zenon, <1>2, <1>3

LEMMA TotalNext ==
    ASSUME NEW f, NEW n \in Nat
    PROVE  Total(f, n + 1) = Total(f, n) + f[n + 1]
<1>0. n + 1 \in Nat
  OBVIOUS
<1>1. PICK g : Sums(g, f, n) /\ Total(f, n) = g[n]
  BY Zenon, TotalSums
<1>2. PICK h : Sums(h, f, n + 1) /\ Total(f, n + 1) = h[n + 1]
  BY Zenon, <1>0, TotalSums
<1>3. /\ g[0] = 0 /\ \A i \in 1..n : g[i] = g[i - 1] + f[i]
      /\ h[0] = 0 /\ \A i \in 1..(n + 1) : h[i] = h[i - 1] + f[i]
  <2>1. g[0] = 0 /\ \A i \in 1..n : g[i] = g[i - 1] + f[i]
    BY Zenon, <1>1, SumsAt
  <2>2. h[0] = 0 /\ \A i \in 1..(n + 1) : h[i] = h[i - 1] + f[i]
    BY ZenonT(30), <1>0, <1>2, SumsAt
  <2> QED
    BY Zenon, <2>1, <2>2
<1> DEFINE T == {k \in 0..n : g[k] # h[k]}
<1>4. T = {}
  <2> SUFFICES ASSUME T # {} PROVE FALSE
    BY Zenon
  <2>1. T \subseteq Nat
    OBVIOUS
  <2>2. PICK k \in T : \A j \in T : k <= j
    <3> HIDE DEF T
    <3> QED
      BY Zenon, <2>1, LeastNatural
  <2>3. k # 0
    BY Zenon, <2>2, <1>3
  <2>4. k \in 1..n /\ k \in 1..(n + 1) /\ k - 1 \in 0..n /\ ~(k <= k - 1)
    BY <2>2, <2>3
  <2>5. g[k - 1] = h[k - 1]
    BY Zenon, <2>2, <2>4
  <2> QED
    BY Zenon, <2>2, <2>4, <2>5, <1>3
<1>5. n \in 0..n /\ n + 1 \in 1..(n + 1) /\ (n + 1) - 1 = n
  OBVIOUS
<1>6. g[n] = h[n] /\ h[n + 1] = h[n] + f[n + 1]
  <2>1. g[n] = h[n]
    BY Zenon, <1>4, <1>5
  <2>2. h[n + 1] = h[(n + 1) - 1] + f[n + 1]
    BY Zenon, <1>3, <1>5
  <2> QED
    BY Zenon, <1>5, <2>1, <2>2
<1> QED
  BY Zenon, <1>1, <1>2, <1>6

(* A sum of natural numbers is one.                                        *)
LEMMA TotalNat ==
    ASSUME NEW f, NEW n \in Nat, \A i \in 1..n : f[i] \in Nat
    PROVE  Total(f, n) \in Nat
<1> DEFINE T == {k \in 0..n : Total(f, k) \notin Nat}
<1>1. T = {}
  <2> SUFFICES ASSUME T # {} PROVE FALSE
    BY Zenon
  <2>1. T \subseteq Nat
    OBVIOUS
  <2>2. PICK k \in T : \A j \in T : k <= j
    <3> HIDE DEF T
    <3> QED
      BY Zenon, <2>1, LeastNatural
  <2>3. k # 0
    BY <2>2, TotalZero
  <2>4. k \in 1..n /\ k - 1 \in Nat /\ k - 1 \in 0..n /\ ~(k <= k - 1) /\ (k - 1) + 1 = k
    BY <2>2, <2>3
  <2>5. Total(f, k - 1) \in Nat
    BY Zenon, <2>2, <2>4
  <2>6. Total(f, (k - 1) + 1) = Total(f, k - 1) + f[(k - 1) + 1]
    BY Zenon, <2>4, TotalNext
  <2>7. Total(f, k) = Total(f, k - 1) + f[k] /\ f[k] \in Nat
    BY ZenonT(30), <2>4, <2>6
  <2>8. Total(f, k) \in Nat
    BY <2>5, <2>7
  <2> QED
    BY Zenon, <2>2, <2>8
<1>2. n \in 0..n
  OBVIOUS
<1> QED
  BY Zenon, <1>1, <1>2

(* Two lists with the same values have the same sum.                       *)
LEMMA TotalSame ==
    ASSUME NEW f, NEW e, NEW n \in Nat, \A i \in 1..n : e[i] = f[i]
    PROVE  Total(e, n) = Total(f, n)
<1> DEFINE T == {k \in 0..n : Total(e, k) # Total(f, k)}
<1>1. T = {}
  <2> SUFFICES ASSUME T # {} PROVE FALSE
    BY Zenon
  <2>1. T \subseteq Nat
    OBVIOUS
  <2>2. PICK k \in T : \A j \in T : k <= j
    <3> HIDE DEF T
    <3> QED
      BY Zenon, <2>1, LeastNatural
  <2>3. k # 0
    BY Zenon, <2>2, TotalZero
  <2>4. k \in 1..n /\ k - 1 \in Nat /\ k - 1 \in 0..n /\ ~(k <= k - 1) /\ (k - 1) + 1 = k
    BY <2>2, <2>3
  <2>5. Total(e, k - 1) = Total(f, k - 1)
    BY Zenon, <2>2, <2>4
  <2>6. /\ Total(f, (k - 1) + 1) = Total(f, k - 1) + f[(k - 1) + 1]
        /\ Total(e, (k - 1) + 1) = Total(e, k - 1) + e[(k - 1) + 1]
    BY Zenon, <2>4, TotalNext
  <2>7. Total(f, k) = Total(f, k - 1) + f[k] /\ Total(e, k) = Total(e, k - 1) + e[k]
    BY Zenon, <2>4, <2>6
  <2> QED
    BY Zenon, <2>2, <2>4, <2>5, <2>7
<1>2. n \in 0..n
  OBVIOUS
<1> QED
  BY Zenon, <1>1, <1>2

(* Another value in place of one changes the sum by the difference.        *)
LEMMA TotalChange ==
    ASSUME NEW f, NEW e, NEW n \in Nat, NEW o \in 1..n,
           \A i \in 1..n : e[i] \in Nat /\ f[i] \in Nat /\ (i # o => e[i] = f[i])
    PROVE  Total(e, n) + f[o] = Total(f, n) + e[o]
<1> DEFINE T == {k \in o..n : Total(e, k) + f[o] # Total(f, k) + e[o]}
<1>1. T = {}
  <2> SUFFICES ASSUME T # {} PROVE FALSE
    BY Zenon
  <2>1. T \subseteq Nat
    OBVIOUS
  <2>2. PICK k \in T : \A j \in T : k <= j
    <3> HIDE DEF T
    <3> QED
      BY Zenon, <2>1, LeastNatural
  <2>3. k \in 1..n /\ k - 1 \in Nat /\ ~(k <= k - 1) /\ (k - 1) + 1 = k /\ o \in Nat
    BY <2>2
  <2>4. /\ Total(f, (k - 1) + 1) = Total(f, k - 1) + f[(k - 1) + 1]
        /\ Total(e, (k - 1) + 1) = Total(e, k - 1) + e[(k - 1) + 1]
    BY Zenon, <2>3, TotalNext
  <2>5. Total(f, k) = Total(f, k - 1) + f[k] /\ Total(e, k) = Total(e, k - 1) + e[k]
    BY Zenon, <2>3, <2>4
  <2>6. \A i \in 1..(k - 1) : i \in 1..n
    BY <2>3
  <2>7. Total(f, k - 1) \in Nat /\ Total(e, k - 1) \in Nat
    BY Zenon, <2>3, <2>6, TotalNat
  <2>8. /\ f[k] \in Nat /\ e[k] \in Nat /\ f[o] \in Nat /\ e[o] \in Nat
        /\ k # o => e[k] = f[k]
    BY Zenon, <2>3
  <2>9. CASE k = o
    <3>1. \A i \in 1..(k - 1) : i # o
      BY <2>9, <2>3
    <3>2. Total(e, k - 1) = Total(f, k - 1)
      BY ZenonT(30), <2>3, <2>6, <3>1, TotalSame
    <3>3. Total(e, k) + f[k] = Total(f, k) + e[k]
      BY <3>2, <2>5, <2>7, <2>8
    <3> QED
      BY Zenon, <3>3, <2>2, <2>9
  <2>10. CASE k # o
    <3>1. k - 1 \in o..n
      BY <2>2, <2>3, <2>10
    <3>2. Total(e, k - 1) + f[o] = Total(f, k - 1) + e[o]
      BY ZenonT(30), <3>1, <2>2, <2>3
    <3>3. Total(e, k) + f[o] = Total(f, k) + e[o]
      BY <3>2, <2>5, <2>7, <2>8, <2>10
    <3> QED
      BY ZenonT(30), <3>3, <2>2
  <2> QED
    BY Zenon, <2>9, <2>10
<1>2. n \in o..n
  OBVIOUS
<1> QED
  BY Zenon, <1>1, <1>2

-----------------------------------------------------------------------------
(* What a registration, an update and a removal do to the two sums.        *)
LEMMA AmountTypes ==
    ASSUME NEW ns \in Seq(NodeInfo)
    PROVE  /\ Len(ns) \in Nat
           /\ \A i \in 1..Len(ns) : ns[i].Staked \in Nat /\ ns[i].Unstaked \in Nat
<1>1. Len(ns) \in Nat /\ \A i \in 1..Len(ns) : ns[i] \in NodeInfo
  OBVIOUS
<1> QED
  BY Zenon, <1>1 DEF NodeInfo

LEMMA SumTypes ==
    ASSUME NEW ns \in Seq(NodeInfo)
    PROVE  SumStaked(ns) \in Nat /\ SumUnstaked(ns) \in Nat
<1> DEFINE L == Len(ns)
           f == [i \in 1..L |-> ns[i].Staked]
           g == [i \in 1..L |-> ns[i].Unstaked]
<1>1. L \in Nat /\ \A i \in 1..L : f[i] \in Nat /\ g[i] \in Nat
  BY Zenon, AmountTypes
<1>2. SumStaked(ns) = Total(f, L) /\ SumUnstaked(ns) = Total(g, L)
  BY Zenon DEF SumStaked, SumUnstaked
<1> HIDE DEF f, g, L
<1> QED
  BY Zenon, <1>1, <1>2, TotalNat

Updated(ns, o, n, ms) ==
    /\ Len(ms) = Len(ns)
    /\ \A i \in 1..Len(ns) : ms[i] = IF i = o THEN n ELSE ns[i]

LEMMA UpdateSums ==
    ASSUME NEW ns \in Seq(NodeInfo), NEW o \in 1..Len(ns), NEW n \in NodeInfo, NEW ms,
           Updated(ns, o, n, ms)
    PROVE  /\ SumStaked(ms) + ns[o].Staked = SumStaked(ns) + n.Staked
           /\ SumUnstaked(ms) + ns[o].Unstaked = SumUnstaked(ns) + n.Unstaked
<1>1. /\ Len(ns) \in Nat /\ n.Staked \in Nat /\ n.Unstaked \in Nat
      /\ \A i \in 1..Len(ns) : ns[i].Staked \in Nat /\ ns[i].Unstaked \in Nat
  BY Zenon, AmountTypes DEF NodeInfo
<1> DEFINE L == Len(ns)
           f == [i \in 1..L |-> ns[i].Staked]
           e == [i \in 1..L |-> ms[i].Staked]
           g == [i \in 1..L |-> ns[i].Unstaked]
           h == [i \in 1..L |-> ms[i].Unstaked]
<1>2. \A i \in 1..L : e[i] \in Nat /\ f[i] \in Nat /\ (i # o => e[i] = f[i])
  BY Zenon, <1>1 DEF Updated
<1>3. \A i \in 1..L : h[i] \in Nat /\ g[i] \in Nat /\ (i # o => h[i] = g[i])
  BY Zenon, <1>1 DEF Updated
<1>4. f[o] = ns[o].Staked /\ e[o] = n.Staked /\ g[o] = ns[o].Unstaked /\ h[o] = n.Unstaked
  BY Zenon DEF Updated
<1>5. /\ SumStaked(ns) = Total(f, L) /\ SumStaked(ms) = Total(e, L)
      /\ SumUnstaked(ns) = Total(g, L) /\ SumUnstaked(ms) = Total(h, L)
  BY Zenon DEF SumStaked, SumUnstaked, Updated
<1>6. L \in Nat /\ o \in 1..L
  BY Zenon, <1>1
<1> HIDE DEF f, e, g, h, L
<1>7. Total(e, L) + f[o] = Total(f, L) + e[o]
  BY ZenonT(30), <1>2, <1>6, TotalChange
<1>8. Total(h, L) + g[o] = Total(g, L) + h[o]
  BY ZenonT(30), <1>3, <1>6, TotalChange
<1> QED
  BY Zenon, <1>4, <1>5, <1>7, <1>8

LEMMA PushSums ==
    ASSUME NEW ns \in Seq(NodeInfo), NEW n \in NodeInfo
    PROVE  /\ SumStaked(Append(ns, n)) = SumStaked(ns) + n.Staked
           /\ SumUnstaked(Append(ns, n)) = SumUnstaked(ns) + n.Unstaked
<1> DEFINE ms == Append(ns, n)
           L == Len(ns)
           f == [i \in 1..L |-> ns[i].Staked]
           e == [i \in 1..(L + 1) |-> ms[i].Staked]
           g == [i \in 1..L |-> ns[i].Unstaked]
           h == [i \in 1..(L + 1) |-> ms[i].Unstaked]
<1>1. /\ Len(ms) = L + 1 /\ L \in Nat /\ ms[L + 1] = n /\ L + 1 \in 1..(L + 1)
      /\ \A i \in 1..L : i \in 1..(L + 1) /\ ms[i] = ns[i]
  OBVIOUS
<1>2. /\ SumStaked(ns) = Total(f, L) /\ SumStaked(ms) = Total(e, L + 1)
      /\ SumUnstaked(ns) = Total(g, L) /\ SumUnstaked(ms) = Total(h, L + 1)
  <2> HIDE DEF ms
  <2> QED
    BY Zenon, <1>1 DEF SumStaked, SumUnstaked
<1> HIDE DEF ms, L
<1>3. /\ e[L + 1] = n.Staked /\ h[L + 1] = n.Unstaked
      /\ \A i \in 1..L : e[i] = f[i] /\ h[i] = g[i]
  BY Zenon, <1>1
<1> HIDE DEF f, e, g, h
<1>4. /\ Total(e, L + 1) = Total(e, L) + e[L + 1]
      /\ Total(h, L + 1) = Total(h, L) + h[L + 1]
  BY Zenon, <1>1, TotalNext
<1>5. Total(e, L) = Total(f, L) /\ Total(h, L) = Total(g, L)
  BY Zenon, <1>1, <1>3, TotalSame
<1>6. SumStaked(ms) = SumStaked(ns) + n.Staked /\ SumUnstaked(ms) = SumUnstaked(ns) + n.Unstaked
  BY Zenon, <1>2, <1>3, <1>4, <1>5
<1> QED
  BY Zenon, <1>6 DEF ms

(* The last node takes the place of node o: as if node o were overwritten  *)
(* by the last one, and the last one dropped.                              *)
Removed(ns, o, ms) ==
    /\ Len(ms) = Len(ns) - 1
    /\ \A i \in 1..(Len(ns) - 1) : ms[i] = IF i = o THEN ns[Len(ns)] ELSE ns[i]

LEMMA RemoveSums ==
    ASSUME NEW ns \in Seq(NodeInfo), NEW o \in 1..Len(ns), NEW ms,
           Removed(ns, o, ms)
    PROVE  /\ SumStaked(ms) + ns[o].Staked = SumStaked(ns)
           /\ SumUnstaked(ms) + ns[o].Unstaked = SumUnstaked(ns)
<1> DEFINE L == Len(ns)
           us == [ns EXCEPT ![o] = ns[L]]
           K == L - 1
           f == [i \in 1..K |-> ms[i].Staked]
           e == [i \in 1..L |-> us[i].Staked]
           g == [i \in 1..K |-> ms[i].Unstaked]
           h == [i \in 1..L |-> us[i].Unstaked]
<1>1. /\ L \in Nat /\ K \in Nat /\ K + 1 = L /\ L \in 1..L /\ ns[L] \in NodeInfo
      /\ \A i \in 1..K : i \in 1..L
  OBVIOUS
<1>2. /\ us \in Seq(NodeInfo) /\ Len(us) = L
      /\ \A i \in 1..L : us[i] = IF i = o THEN ns[L] ELSE ns[i]
  BY <1>1
<1> HIDE DEF us
<1>3. Len(ms) = K
  BY Zenon, <1>1 DEF Removed
<1>4. us[L] = ns[L] /\ \A i \in 1..K : us[i] = ms[i]
  BY Zenon, <1>1, <1>2 DEF Removed
<1>5. /\ SumStaked(us) + ns[o].Staked = SumStaked(ns) + ns[L].Staked
      /\ SumUnstaked(us) + ns[o].Unstaked = SumUnstaked(ns) + ns[L].Unstaked
  BY ZenonT(30), <1>1, <1>2, UpdateSums DEF Updated
<1>6. /\ SumStaked(ms) = Total(f, K) /\ SumStaked(us) = Total(e, L)
      /\ SumUnstaked(ms) = Total(g, K) /\ SumUnstaked(us) = Total(h, L)
  BY Zenon, <1>2, <1>3 DEF SumStaked, SumUnstaked
<1>7. /\ ns[L].Staked \in Nat /\ ns[L].Unstaked \in Nat
      /\ ns[o].Staked \in Nat /\ ns[o].Unstaked \in Nat
      /\ SumStaked(ns) \in Nat /\ SumUnstaked(ns) \in Nat
  BY Zenon, <1>1, AmountTypes, SumTypes
<1> HIDE DEF L, K
<1>8. /\ e[L] = ns[L].Staked /\ h[L] = ns[L].Unstaked
      /\ \A i \in 1..K : e[i] = f[i] /\ h[i] = g[i]
      /\ \A i \in 1..K : e[i] \in Nat /\ h[i] \in Nat
  <2>1. \A i \in 1..L : us[i].Staked \in Nat /\ us[i].Unstaked \in Nat
    BY Zenon, <1>2, AmountTypes DEF L
  <2> QED
    BY Zenon, <1>1, <1>4, <2>1
<1> HIDE DEF f, e, g, h
<1>9. /\ Total(e, K + 1) = Total(e, K) + e[K + 1]
      /\ Total(h, K + 1) = Total(h, K) + h[K + 1]
  BY Zenon, <1>1, TotalNext
<1>10. Total(e, K) = Total(f, K) /\ Total(h, K) = Total(g, K)
  BY Zenon, <1>1, <1>8, TotalSame
<1>11. Total(e, K) \in Nat /\ Total(h, K) \in Nat
  BY Zenon, <1>1, <1>8, TotalNat
<1>12. /\ SumStaked(us) = SumStaked(ms) + ns[L].Staked
       /\ SumUnstaked(us) = SumUnstaked(ms) + ns[L].Unstaked
       /\ SumStaked(ms) \in Nat /\ SumUnstaked(ms) \in Nat
  BY Zenon, <1>1, <1>6, <1>8, <1>9, <1>10, <1>11
<1>13. SumStaked(ms) + ns[o].Staked = SumStaked(ns)
  <2> DEFINE u == SumStaked(us)  m == SumStaked(ms)  s == SumStaked(ns)
             x == ns[o].Staked  l == ns[L].Staked
  <2>1. u + x = s + l /\ u = m + l /\ m \in Nat /\ x \in Nat /\ s \in Nat /\ l \in Nat
    BY Zenon, <1>5, <1>7, <1>12
  <2> HIDE DEF u, m, s, x, l
  <2>2. m + x = s
    BY <2>1
  <2> QED
    BY Zenon, <2>2 DEF m, x, s
<1>14. SumUnstaked(ms) + ns[o].Unstaked = SumUnstaked(ns)
  <2> DEFINE u == SumUnstaked(us)  m == SumUnstaked(ms)  s == SumUnstaked(ns)
             x == ns[o].Unstaked  l == ns[L].Unstaked
  <2>1. u + x = s + l /\ u = m + l /\ m \in Nat /\ x \in Nat /\ s \in Nat /\ l \in Nat
    BY Zenon, <1>5, <1>7, <1>12
  <2> HIDE DEF u, m, s, x, l
  <2>2. m + x = s
    BY <2>1
  <2> QED
    BY Zenon, <2>2 DEF m, x, s
<1> QED
  BY Zenon, <1>13, <1>14

-----------------------------------------------------------------------------
(* The books balance: totalStaked is the sum of the stakes, and the        *)
(* contract holds the stakes, what is on its way out and the surplus.      *)
Balanced ==
    /\ totalStaked = SumStaked(nodes)
    /\ contractBalance = surplus + SumStaked(nodes) + SumUnstaked(nodes)

AccountInv ==
    /\ minStake \in MinStakes /\ lockupPeriod \in LockupPeriods
    /\ balances \in [Accounts -> Nat]
    /\ surplus \in Nat
    /\ Balanced

LEMMA AccountTypes ==
    ASSUME RegistryInv, AccountInv
    PROVE  /\ totalStaked \in Nat /\ contractBalance \in Nat /\ surplus \in Nat
           /\ SumStaked(nodes) \in Nat /\ SumUnstaked(nodes) \in Nat
<1>1. SumStaked(nodes) \in Nat /\ SumUnstaked(nodes) \in Nat
  BY Zenon, SumTypes DEF RegistryInv
<1>2. surplus \in Nat /\ totalStaked = SumStaked(nodes)
      /\ contractBalance = surplus + SumStaked(nodes) + SumUnstaked(nodes)
  BY Zenon DEF AccountInv, Balanced
<1>3. contractBalance \in Nat
  BY <1>1, <1>2
<1> QED
  BY Zenon, <1>1, <1>2, <1>3

LEMMA NodeAmounts ==
    ASSUME NEW n \in NodeInfo
    PROVE  n.Staked \in Nat /\ n.Unstaked \in Nat
BY Zenon DEF NodeInfo

(* The value of a call leaves an account that has it.                      *)
LEMMA PayTypes ==
    ASSUME balances \in [Accounts -> Nat], NEW caller \in Accounts, NEW value \in Nat,
           Pay(caller, value)
    PROVE  balances' \in [Accounts -> Nat]
<1>1. balances[caller] - value \in Nat
  BY DEF Pay
<1> QED
  BY Zenon, <1>1 DEF Pay

(* An update of one node keeps the books if the totals move with it.       *)
LEMMA UpdateBalanced ==
    ASSUME RegistryInv, AccountInv, NEW o \in 1..Len(nodes), NEW n \in NodeInfo,
           UpdateNode(o, n), surplus' = surplus,
           NEW t \in Nat, totalStaked' = t,
           t + nodes[o].Staked = totalStaked + n.Staked,
           NEW c \in Nat, contractBalance' = c,
           c + nodes[o].Staked + nodes[o].Unstaked = contractBalance + n.Staked + n.Unstaked
    PROVE  Balanced'
<1>1. nodes \in Seq(NodeInfo)
  BY Zenon DEF RegistryInv
<1>2. nodes' \in Seq(NodeInfo) /\ Updated(nodes, o, n, nodes')
  BY <1>1 DEF Updated, UpdateNode, SetNodes
<1>3. /\ SumStaked(nodes') + nodes[o].Staked = SumStaked(nodes) + n.Staked
      /\ SumUnstaked(nodes') + nodes[o].Unstaked = SumUnstaked(nodes) + n.Unstaked
  BY Zenon, <1>1, <1>2, UpdateSums
<1>4. SumStaked(nodes') \in Nat /\ SumUnstaked(nodes') \in Nat
  BY Zenon, <1>2, SumTypes
<1>5. nodes[o].Staked \in Nat /\ nodes[o].Unstaked \in Nat
  BY Zenon, <1>1, AmountTypes
<1> DEFINE a == SumStaked(nodes)   b == SumUnstaked(nodes)
           d == SumStaked(nodes')  e == SumUnstaked(nodes')
           x == nodes[o].Staked    y == nodes[o].Unstaked
           v == n.Staked           w == n.Unstaked
<1>6. /\ a \in Nat /\ b \in Nat /\ d \in Nat /\ e \in Nat
      /\ x \in Nat /\ y \in Nat /\ v \in Nat /\ w \in Nat /\ surplus \in Nat
  BY Zenon, <1>4, <1>5, AccountTypes, NodeAmounts
<1>7. /\ d + x = a + v /\ e + y = b + w
      /\ t + x = a + v /\ c + x + y = (surplus + a + b) + v + w
  BY Zenon, <1>3 DEF AccountInv, Balanced
<1> HIDE DEF a, b, d, e, x, y, v, w
<1>8. t = d /\ c = surplus + d + e
  BY <1>6, <1>7
<1>9. totalStaked' = d /\ contractBalance' = surplus' + d + e
  BY Zenon, <1>8
<1> QED
  BY Zenon, <1>9 DEF Balanced, d, e

(* An update that leaves the amounts of the node alone.                    *)
LEMMA SameAmounts ==
    ASSUME RegistryInv, AccountInv, NEW o \in 1..Len(nodes), NEW n \in NodeInfo,
           UpdateNode(o, n), n.Staked = nodes[o].Staked, n.Unstaked = nodes[o].Unstaked,
           UNCHANGED <<totalStaked, contractBalance, surplus>>
    PROVE  Balanced'
<1>1. totalStaked \in Nat /\ contractBalance \in Nat
  BY Zenon, AccountTypes
<1> QED
  BY Zenon, <1>1, UpdateBalanced

LEMMA InitAccount == Init => AccountInv
<1> SUFFICES ASSUME Init PROVE AccountInv
  BY Zenon
<1>1. Genesis \in Seq(NodeInfo) /\ Funds \in Nat
  BY Zenon, RegistryAssumption
<1>2. Len(Genesis) \in Nat /\ SumStaked(Genesis) \in Nat
  BY Zenon, <1>1, AmountTypes, SumTypes
<1> DEFINE L == Len(Genesis)
           f == [i \in 1..L |-> Genesis[i].Unstaked]
           T == {k \in 0..L : Total(f, k) # 0}
<1>3. \A i \in 1..L : f[i] = 0
  BY Zenon, RegistryAssumption
<1>4. SumUnstaked(Genesis) = Total(f, L)
  BY Zenon DEF SumUnstaked
<1> HIDE DEF L, f
<1>5. T = {}
  <2> SUFFICES ASSUME T # {} PROVE FALSE
    BY Zenon
  <2>1. L \in Nat /\ T \subseteq Nat
    BY <1>2 DEF L
  <2>2. PICK k \in T : \A j \in T : k <= j
    <3> HIDE DEF T
    <3> QED
      BY Zenon, <2>1, LeastNatural
  <2>3. k # 0
    BY Zenon, <2>2, TotalZero
  <2>4. k \in 1..L /\ k - 1 \in Nat /\ k - 1 \in 0..L /\ ~(k <= k - 1) /\ (k - 1) + 1 = k
    BY <2>1, <2>2, <2>3
  <2>5. Total(f, k - 1) = 0 /\ f[k] = 0
    BY Zenon, <2>2, <2>4, <1>3
  <2>6. Total(f, (k - 1) + 1) = Total(f, k - 1) + f[(k - 1) + 1]
    BY Zenon, <2>4, TotalNext
  <2>7. Total(f, k) = 0 + 0
    BY Zenon, <2>4, <2>5, <2>6
  <2>8. Total(f, k) = 0
    BY <2>7
  <2> QED
    BY Zenon, <2>2, <2>8
<1>6. SumUnstaked(Genesis) = 0
  <2>1. L \in 0..L
    BY <1>2 DEF L
  <2> QED
    BY Zenon, <1>4, <1>5, <2>1
<1>7. SumStaked(Genesis) = 0 + SumStaked(Genesis) + SumUnstaked(Genesis)
  BY <1>2, <1>6
<1>8. balances \in [Accounts -> Nat] /\ 0 \in Nat
  BY Zenon, <1>1 DEF Init
<1> QED
  BY Zenon, <1>7, <1>8 DEF Init, AccountInv, Balanced

LEMMA RegisterAccount ==
    ASSUME RegistryInv, AccountInv, NEW caller \in Addresses, NEW key \in Keys,
           NEW value \in Nat, Register(caller, key, value)
    PROVE  AccountInv'
<1> DEFINE node == [Owner |-> caller, PublicKey |-> key, Staked |-> value,
                    Fined |-> 0, Unstaked |-> 0, UnstakedAt |-> 0]
<1>1. node \in NodeInfo /\ node.Staked = value /\ node.Unstaked = 0
  BY Zenon DEF NodeInfo
<1>2. nodes \in Seq(NodeInfo) /\ nodes' = Append(nodes, node)
  BY Zenon DEF RegistryInv, Register, SetNodes
<1> HIDE DEF node
<1>3. /\ SumStaked(nodes') = SumStaked(nodes) + value
      /\ SumUnstaked(nodes') = SumUnstaked(nodes) + 0
  BY Zenon, <1>1, <1>2, PushSums
<1>4. /\ totalStaked' = totalStaked + value /\ contractBalance' = contractBalance + value
      /\ surplus' = surplus /\ minStake' = minStake /\ lockupPeriod' = lockupPeriod
      /\ Pay(caller, value)
  BY Zenon DEF Register, Pay, config, settings
<1>5. balances' \in [Accounts -> Nat]
  BY Zenon, <1>4, PayTypes DEF AccountInv, Accounts
<1>6. totalStaked' = SumStaked(nodes')
  BY Zenon, <1>3, <1>4 DEF AccountInv, Balanced
<1>7. contractBalance' = (surplus + SumStaked(nodes) + SumUnstaked(nodes)) + value
  BY Zenon, <1>4 DEF AccountInv, Balanced
<1>8. contractBalance' = surplus' + SumStaked(nodes') + SumUnstaked(nodes')
  <2> DEFINE a == SumStaked(nodes)  b == SumUnstaked(nodes)
             d == SumStaked(nodes')  e == SumUnstaked(nodes')
  <2>1. a \in Nat /\ b \in Nat /\ surplus \in Nat /\ d = a + value /\ e = b + 0
        /\ contractBalance' = (surplus + a + b) + value /\ surplus' = surplus
    BY Zenon, <1>3, <1>4, <1>7, AccountTypes
  <2> HIDE DEF a, b, d, e
  <2>2. contractBalance' = surplus' + d + e
    BY <2>1
  <2> QED
    BY Zenon, <2>2 DEF d, e
<1> QED
  BY Zenon, <1>4, <1>5, <1>6, <1>8 DEF AccountInv, Balanced

LEMMA StakeAccount ==
    ASSUME RegistryInv, AccountInv, NEW caller \in Addresses, NEW value \in Nat,
           Stake(caller, value)
    PROVE  AccountInv'
<1> DEFINE o == nodesOffsetByAddress[caller]
           n == [NodeOf(caller) EXCEPT !.Staked = @ + value]
<1>1. o \in 1..Len(nodes) /\ nodes[o] \in NodeInfo /\ NodeOf(caller) = nodes[o]
  BY Zenon, NodeOfAddress DEF Stake
<1>2. n \in NodeInfo /\ n.Staked = nodes[o].Staked + value /\ n.Unstaked = nodes[o].Unstaked
  <2>1. nodes[o].Staked + value \in Nat
    BY <1>1, NodeAmounts
  <2> QED
    BY Zenon, <1>1, <2>1 DEF NodeInfo
<1>3. UpdateNode(o, n)
  BY Zenon DEF Stake
<1> HIDE DEF o, n
<1>4. /\ totalStaked' = totalStaked + value /\ contractBalance' = contractBalance + value
      /\ surplus' = surplus /\ minStake' = minStake /\ lockupPeriod' = lockupPeriod
      /\ Pay(caller, value)
  BY Zenon DEF Stake, Pay, config, settings
<1>5. balances' \in [Accounts -> Nat]
  BY Zenon, <1>4, PayTypes DEF AccountInv, Accounts
<1>6. /\ totalStaked + value \in Nat /\ contractBalance + value \in Nat
      /\ (totalStaked + value) + nodes[o].Staked = totalStaked + n.Staked
      /\ (contractBalance + value) + nodes[o].Staked + nodes[o].Unstaked
            = contractBalance + n.Staked + n.Unstaked
  <2> DEFINE x == nodes[o].Staked  y == nodes[o].Unstaked
  <2>1. /\ x \in Nat /\ y \in Nat /\ totalStaked \in Nat /\ contractBalance \in Nat
        /\ n.Staked = x + value /\ n.Unstaked = y
    BY Zenon, <1>1, <1>2, NodeAmounts, AccountTypes
  <2> HIDE DEF x, y
  <2>2. /\ totalStaked + value \in Nat /\ contractBalance + value \in Nat
        /\ (totalStaked + value) + x = totalStaked + (x + value)
        /\ (contractBalance + value) + x + y = contractBalance + (x + value) + y
    BY <2>1
  <2> QED
    BY Zenon, <2>1, <2>2 DEF x, y
<1>7. Balanced'
  BY Zenon, <1>1, <1>2, <1>3, <1>4, <1>6, UpdateBalanced
<1> QED
  BY Zenon, <1>4, <1>5, <1>7 DEF AccountInv

(* Unstaking moves the amount from the stake to Unstaked, which is 0: were *)
(* it not, what is already on its way out would be lost.                   *)
LEMMA UnstakeAccount ==
    ASSUME RegistryInv, AccountInv, NEW caller \in Addresses, NEW amount \in Nat,
           Unstake(caller, amount)
    PROVE  AccountInv'
<1> DEFINE o == nodesOffsetByAddress[caller]
           n == [NodeOf(caller) EXCEPT !.Staked = @ - amount, !.Unstaked = amount,
                                       !.UnstakedAt = time]
<1>1. o \in 1..Len(nodes) /\ nodes[o] \in NodeInfo /\ NodeOf(caller) = nodes[o]
  BY Zenon, NodeOfAddress DEF Unstake
<1>2. nodes[o].Staked >= amount /\ nodes[o].Unstaked = 0 /\ time \in Nat
  BY Zenon, <1>1 DEF Unstake, CanUnstake, RegistryInv
<1>3. n \in NodeInfo /\ n.Staked = nodes[o].Staked - amount /\ n.Unstaked = amount
  <2>1. nodes[o].Staked - amount \in Nat
    BY <1>1, <1>2, NodeAmounts
  <2>2. n.Staked = nodes[o].Staked - amount /\ n.Unstaked = amount
    BY Zenon, <1>1 DEF NodeInfo
  <2>3. n \in NodeInfo
    BY Zenon, <1>1, <1>2, UnstakedNode DEF SameIds
  <2> QED
    BY Zenon, <2>2, <2>3
<1>4. UpdateNode(o, n)
  BY Zenon DEF Unstake
<1> HIDE DEF o, n
<1>5. /\ totalStaked' = totalStaked - amount /\ contractBalance' = contractBalance
      /\ surplus' = surplus /\ minStake' = minStake /\ lockupPeriod' = lockupPeriod
      /\ balances' = balances
  BY Zenon DEF Unstake, money, config, settings
<1>6. totalStaked >= nodes[o].Staked
  <2>1. nodes \in Seq(NodeInfo)
    BY Zenon DEF RegistryInv
  <2> DEFINE x == nodes[o].Staked
             zero == [nodes[o] EXCEPT !.Staked = 0]
             zeros == [nodes EXCEPT ![o] = zero]
  <2>2. zero \in NodeInfo /\ zero.Staked = 0
    BY Zenon, <1>1 DEF NodeInfo
  <2> HIDE DEF zero
  <2>3. zeros \in Seq(NodeInfo) /\ Updated(nodes, o, zero, zeros)
    BY <1>1, <2>1, <2>2 DEF Updated
  <2> HIDE DEF zeros
  <2>4. SumStaked(zeros) + x = totalStaked + 0
    BY ZenonT(30), <1>1, <2>1, <2>2, <2>3, UpdateSums DEF AccountInv, Balanced
  <2>5. SumStaked(zeros) \in Nat /\ x \in Nat /\ totalStaked \in Nat
    BY Zenon, <1>1, <2>3, SumTypes, NodeAmounts, AccountTypes
  <2> HIDE DEF x
  <2>6. totalStaked >= x
    BY <2>4, <2>5
  <2> QED
    BY Zenon, <2>6 DEF x
<1>7. /\ totalStaked - amount \in Nat /\ contractBalance \in Nat
      /\ (totalStaked - amount) + nodes[o].Staked = totalStaked + n.Staked
      /\ contractBalance + nodes[o].Staked + nodes[o].Unstaked
            = contractBalance + n.Staked + n.Unstaked
  <2> DEFINE x == nodes[o].Staked
  <2>1. /\ x \in Nat /\ totalStaked \in Nat /\ contractBalance \in Nat
        /\ n.Staked = x - amount /\ n.Unstaked = amount /\ nodes[o].Unstaked = 0
        /\ totalStaked >= x /\ x >= amount
    BY ZenonT(30), <1>1, <1>2, <1>3, <1>6, NodeAmounts, AccountTypes
  <2> HIDE DEF x
  <2>2. /\ totalStaked - amount \in Nat
        /\ (totalStaked - amount) + x = totalStaked + (x - amount)
        /\ contractBalance + x + 0 = contractBalance + (x - amount) + amount
    BY <2>1
  <2> QED
    BY Zenon, <2>1, <2>2 DEF x
<1>8. Balanced'
  BY Zenon, <1>1, <1>3, <1>4, <1>5, <1>7, UpdateBalanced
<1> QED
  BY Zenon, <1>5, <1>8 DEF AccountInv

(* A withdrawal pays out Unstaked, and removes the node if it has no stake *)
(* left.                                                                   *)
LEMMA WithdrawAccount ==
    ASSUME RegistryInv, AccountInv, NEW caller \in Addresses, Withdraw(caller)
    PROVE  AccountInv'
<1> DEFINE o == nodesOffsetByAddress[caller]
           n == [NodeOf(caller) EXCEPT !.Unstaked = 0, !.UnstakedAt = 0]
           y == nodes[o].Unstaked
<1>1. o \in 1..Len(nodes) /\ nodes[o] \in NodeInfo /\ NodeOf(caller) = nodes[o]
  BY Zenon, NodeOfAddress DEF Withdraw
<1>2. nodes \in Seq(NodeInfo) /\ nodes[o].Owner \in Addresses
  BY Zenon, <1>1 DEF RegistryInv, NodeInfo
<1>3. /\ totalStaked' = totalStaked /\ contractBalance' = contractBalance - y
      /\ contractBalance >= y
      /\ balances' = [balances EXCEPT ![nodes[o].Owner] = @ + y]
      /\ surplus' = surplus /\ minStake' = minStake /\ lockupPeriod' = lockupPeriod
  BY Zenon, <1>1 DEF Withdraw, config, settings
<1>4. y \in Nat /\ nodes[o].Staked \in Nat /\ totalStaked \in Nat /\ contractBalance \in Nat
  BY Zenon, <1>1, NodeAmounts, AccountTypes
<1>5. balances' \in [Accounts -> Nat]
  <2>1. balances \in [Accounts -> Nat] /\ nodes[o].Owner \in Accounts
    BY Zenon, <1>2 DEF AccountInv, Accounts
  <2>2. balances[nodes[o].Owner] + y \in Nat
    <3> DEFINE b == balances[nodes[o].Owner]
    <3>1. b \in Nat
      BY Zenon, <2>1
    <3> HIDE DEF b, y
    <3>2. b + y \in Nat
      BY <3>1, <1>4
    <3> QED
      BY Zenon, <3>2 DEF b
  <2> HIDE DEF y
  <2> QED
    BY Zenon, <1>3, <2>1, <2>2
<1>6. Balanced'
  <2>1. CASE nodes[o].Staked = 0
    <3>1. RemoveNode(o, nodes[o])
      BY Zenon, <1>1, <2>1 DEF Withdraw
    <3>2. Removed(nodes, o, nodes')
      BY <1>1, <1>2, <3>1 DEF RemoveNode, SetNodes, Removed
    <3> HIDE DEF o
    <3>3. /\ SumStaked(nodes') + nodes[o].Staked = SumStaked(nodes)
          /\ SumUnstaked(nodes') + nodes[o].Unstaked = SumUnstaked(nodes)
      BY Zenon, <1>1, <1>2, <3>2, RemoveSums
    <3>4. nodes' \in Seq(NodeInfo)
      <4>1. RegistryInv'
        BY Zenon, <1>1, <3>1, RemoveKeepsOffsets DEF Withdraw, RegistryInv
      <4> QED
        BY Zenon, <4>1 DEF RegistryInv
    <3>5. SumStaked(nodes') \in Nat /\ SumUnstaked(nodes') \in Nat
      BY Zenon, <3>4, SumTypes
    <3> DEFINE a == SumStaked(nodes)   b == SumUnstaked(nodes)
               d == SumStaked(nodes')  e == SumUnstaked(nodes')
    <3>6. /\ a \in Nat /\ b \in Nat /\ d \in Nat /\ e \in Nat /\ y \in Nat /\ surplus \in Nat
          /\ d + 0 = a /\ e + y = b
          /\ totalStaked' = a /\ contractBalance' = (surplus + a + b) - y
          /\ surplus' = surplus
      BY ZenonT(30), <1>3, <1>4, <2>1, <3>3, <3>5, AccountTypes DEF AccountInv, Balanced
    <3> HIDE DEF a, b, d, e, y
    <3>7. totalStaked' = d /\ contractBalance' = surplus' + d + e
      BY <3>6
    <3> QED
      BY Zenon, <3>7 DEF Balanced, d, e
  <2>2. CASE nodes[o].Staked # 0
    <3>1. UpdateNode(o, n)
      BY Zenon, <1>1, <2>2 DEF Withdraw, KeepNode
    <3>2. n \in NodeInfo /\ n.Staked = nodes[o].Staked /\ n.Unstaked = 0
      BY Zenon, <1>1 DEF NodeInfo
    <3> HIDE DEF o, n
    <3>3. /\ contractBalance - y \in Nat
          /\ (contractBalance - y) + nodes[o].Staked + y = contractBalance + nodes[o].Staked + 0
      <4> DEFINE x == nodes[o].Staked
      <4>1. x \in Nat /\ y \in Nat /\ contractBalance \in Nat /\ contractBalance >= y
        BY Zenon, <1>3, <1>4
      <4> HIDE DEF x, y
      <4>2. /\ contractBalance - y \in Nat
            /\ (contractBalance - y) + x + y = contractBalance + x + 0
        BY <4>1
      <4> QED
        BY Zenon, <4>2 DEF x
    <3> QED
      BY ZenonT(30), <1>1, <1>3, <1>4, <3>1, <3>2, <3>3, UpdateBalanced
  <2> QED
    BY Zenon, <2>1, <2>2
<1> QED
  BY Zenon, <1>3, <1>5, <1>6 DEF AccountInv

LEMMA NextAccount ==
    ASSUME RegistryInv, FineTyped, AccountInv, [Next]_vars
    PROVE  AccountInv'
<1>0. /\ \A v \in Amounts : v \in Nat
      /\ \A m \in Messages : m.ProposerID \in Keys
      /\ fineValue \in Nat /\ Foundation \notin Addresses
  BY Zenon, RegistryAssumption DEF FineTyped
<1>1. ASSUME NEW caller \in Addresses, NEW key \in Keys, NEW value \in Amounts,
             Register(caller, key, value)
      PROVE  AccountInv'
  BY Zenon, <1>0, <1>1, RegisterAccount
<1>2. ASSUME NEW caller \in Addresses, NEW value \in Amounts, Stake(caller, value)
      PROVE  AccountInv'
  BY Zenon, <1>0, <1>2, StakeAccount
<1>3. ASSUME NEW caller \in Addresses, NEW amount \in Amounts, Unstake(caller, amount)
      PROVE  AccountInv'
  BY Zenon, <1>0, <1>3, UnstakeAccount
<1>4. ASSUME NEW caller \in Addresses, Withdraw(caller)
      PROVE  AccountInv'
  BY Zenon, <1>4, WithdrawAccount
<1>5. ASSUME NEW caller \in Addresses, NEW addr \in Addresses, NEW value \in Amounts,
             PayFine(caller, addr, value)
      PROVE  AccountInv'
  <2> DEFINE o == nodesOffsetByAddress[addr]
             n == [NodeOf(addr) EXCEPT !.Fined = @ - value]
  <2>1. o \in 1..Len(nodes) /\ nodes[o] \in NodeInfo /\ NodeOf(addr) = nodes[o]
    BY Zenon, <1>5, NodeOfAddress DEF PayFine
  <2>2. NodeOf(addr).Fined >= value /\ value \in Nat
    BY Zenon, <1>0, <1>5 DEF PayFine
  <2>3. n \in NodeInfo
    BY Zenon, <2>1, <2>2, PaidNode DEF SameIds
  <2>4. n.Staked = nodes[o].Staked /\ n.Unstaked = nodes[o].Unstaked /\ UpdateNode(o, n)
    BY Zenon, <1>5, <2>1 DEF PayFine, NodeInfo
  <2> HIDE DEF o, n
  <2>5. /\ UNCHANGED <<totalStaked, contractBalance, surplus, minStake, lockupPeriod>>
        /\ balances[caller] >= value
        /\ balances' = [balances EXCEPT ![caller] = @ - value, ![Foundation] = @ + value]
    BY Zenon, <1>5 DEF PayFine, config, settings
  <2>6. Balanced'
    BY ZenonT(30), <2>1, <2>3, <2>4, <2>5, SameAmounts
  <2>7. balances' \in [Accounts -> Nat]
    <3>1. /\ balances \in [Accounts -> Nat] /\ caller \in Accounts /\ Foundation \in Accounts
          /\ caller # Foundation
      BY ZenonT(30), <1>0 DEF AccountInv, Accounts
    <3>2. balances[caller] - value \in Nat /\ balances[Foundation] + value \in Nat
      BY <2>2, <2>5, <3>1
    <3>3. balances' = [a \in Accounts |-> IF a = Foundation THEN balances[Foundation] + value
                                         ELSE IF a = caller THEN balances[caller] - value
                                         ELSE balances[a]]
      BY ZenonT(20), <2>5, <3>1
    <3> QED
      BY Zenon, <3>1, <3>2, <3>3
  <2> QED
    BY Zenon, <2>5, <2>6, <2>7 DEF AccountInv
<1>6. ASSUME NEW o \in 1..Len(nodes), NEW n \in NodeInfo, UpdateNode(o, n),
             n.Staked = nodes[o].Staked, n.Unstaked = nodes[o].Unstaked,
             UNCHANGED <<totalStaked, settings, surplus, money>>
      PROVE  AccountInv'
  <2>1. UNCHANGED <<totalStaked, contractBalance, surplus, minStake, lockupPeriod, balances>>
    BY Zenon, <1>6 DEF settings, money
  <2>2. Balanced'
    BY Zenon, <1>6, <2>1, SameAmounts
  <2> QED
    BY Zenon, <2>1, <2>2 DEF AccountInv
<1>7. ASSUME NEW n \in NodeInfo
      PROVE  /\ FinedNode(n) \in NodeInfo
             /\ FinedNode(n).Staked = n.Staked /\ FinedNode(n).Unstaked = n.Unstaked
  <2>1. FinedNode(n) \in NodeInfo
    BY Zenon, <1>7, FinedNodeIds DEF FineTyped, SameIds
  <2>2. FinedNode(n).Staked = n.Staked /\ FinedNode(n).Unstaked = n.Unstaked
    BY Zenon, <1>7 DEF FinedNode, NodeInfo
  <2> QED
    BY Zenon, <2>1, <2>2
<1>8. ASSUME NEW m1 \in Messages, NEW m2 \in Messages, Report(m1, m2)
      PROVE  AccountInv'
  <2> DEFINE k == m1.ProposerID
             owner == nodes[nodesOffsetByNodeKeyAddress[k]].Owner
  <2>1. k \in Keys
    BY Zenon, <1>0
  <2>2. /\ nodesOffsetByNodeKeyAddress[k] # 0 /\ Registered(owner)
        /\ UpdateNode(nodesOffsetByAddress[owner], FinedNode(NodeOf(owner)))
        /\ UNCHANGED <<totalStaked, settings, surplus, money>>
    BY ZenonT(30), <1>8 DEF Report
  <2>3. nodesOffsetByNodeKeyAddress[k] \in 1..Len(nodes)
    BY ZenonT(30), <2>1, <2>2, NodeOfKey
  <2>4. owner \in Addresses
    BY Zenon, <2>3, NodeFields DEF RegistryInv
  <2> HIDE DEF owner
  <2>5. /\ nodesOffsetByAddress[owner] \in 1..Len(nodes) /\ NodeOf(owner) \in NodeInfo
        /\ NodeOf(owner) = nodes[nodesOffsetByAddress[owner]]
    BY Zenon, <2>2, <2>4, NodeOfAddress
  <2> QED
    BY Zenon, <2>2, <2>5, <1>6, <1>7
<1>9. ASSUME NEW key \in Keys, Disqualify(key)
      PROVE  AccountInv'
  <2> DEFINE o == nodesOffsetByNodeKeyAddress[key]
  <2>1. o \in 1..Len(nodes) /\ nodes[o] \in NodeInfo
    BY Zenon, <1>9, NodeOfKey DEF Disqualify
  <2>2. UpdateNode(o, FinedNode(nodes[o])) /\ UNCHANGED <<totalStaked, settings, surplus, money>>
    BY Zenon, <1>9 DEF Disqualify, config
  <2> HIDE DEF o
  <2> QED
    BY ZenonT(30), <2>1, <2>2, <1>6, <1>7
<1>10. ASSUME NEW old \in Addresses, NEW new \in Addresses, TransferNodeOwnership(old, new)
       PROVE  AccountInv'
  <2> DEFINE o == nodesOffsetByAddress[old]
             n == [NodeOf(old) EXCEPT !.Owner = new]
  <2>1. o \in 1..Len(nodes) /\ nodes[o] \in NodeInfo /\ NodeOf(old) = nodes[o]
    BY Zenon, <1>10, NodeOfAddress DEF TransferNodeOwnership
  <2>2. n \in NodeInfo /\ n.Staked = nodes[o].Staked /\ n.Unstaked = nodes[o].Unstaked
    BY Zenon, <2>1 DEF NodeInfo
  <2>3. UpdateNode(o, n) /\ UNCHANGED <<totalStaked, settings, surplus, money>>
    BY Zenon, <1>10 DEF TransferNodeOwnership, config
  <2> HIDE DEF o, n
  <2> QED
    BY Zenon, <2>1, <2>2, <2>3, <1>6
<1>11. ASSUME NEW caller \in Addresses, NEW key \in Keys, ReplaceNodePublicKey(caller, key)
       PROVE  AccountInv'
  <2> DEFINE o == nodesOffsetByAddress[caller]
             n == [NodeOf(caller) EXCEPT !.PublicKey = key]
  <2>1. o \in 1..Len(nodes) /\ nodes[o] \in NodeInfo /\ NodeOf(caller) = nodes[o]
    BY Zenon, <1>11, NodeOfAddress DEF ReplaceNodePublicKey
  <2>2. n \in NodeInfo /\ n.Staked = nodes[o].Staked /\ n.Unstaked = nodes[o].Unstaked
    BY Zenon, <2>1 DEF NodeInfo
  <2>3. UpdateNode(o, n) /\ UNCHANGED <<totalStaked, settings, surplus, money>>
    BY Zenon, <1>11 DEF ReplaceNodePublicKey, config
  <2> HIDE DEF o, n
  <2> QED
    BY Zenon, <2>1, <2>2, <2>3, <1>6
<1>12. ASSUME NEW min \in MinStakes, NEW lockup \in LockupPeriods,
             NEW fine \in FineValues, NEW value \in Amounts,
             UpdateConfiguration(min, lockup, fine, value)
       PROVE  AccountInv'
  <2>1. /\ nodes' = nodes /\ totalStaked' = totalStaked /\ minStake' = min
        /\ lockupPeriod' = lockup /\ surplus' = surplus + value
        /\ contractBalance' = contractBalance + value /\ Pay(Foundation, value)
    BY Zenon, <1>12 DEF UpdateConfiguration, Pay
  <2>2. value \in Nat
    BY Zenon, <1>0
  <2>3. balances' \in [Accounts -> Nat]
    BY ZenonT(30), <2>1, <2>2, PayTypes DEF AccountInv, Accounts
  <2> DEFINE a == SumStaked(nodes)  b == SumUnstaked(nodes)
  <2>4. /\ a \in Nat /\ b \in Nat /\ surplus \in Nat
        /\ contractBalance = surplus + a + b
    BY Zenon, AccountTypes DEF AccountInv, Balanced
  <2> HIDE DEF a, b
  <2>5. surplus' \in Nat /\ contractBalance' = surplus' + a + b
    BY <2>1, <2>2, <2>4
  <2>6. Balanced'
    BY ZenonT(30), <2>1, <2>5 DEF AccountInv, Balanced, a, b
  <2> QED
    BY ZenonT(30), <2>1, <2>3, <2>5, <2>6 DEF AccountInv
<1>13. ASSUME UNCHANGED <<nodes, totalStaked, config, money>>
       PROVE  AccountInv'
  BY Zenon, <1>13 DEF AccountInv, Balanced, config, settings, money
<1>14. CASE NextBlock \/ UNCHANGED vars
  BY Zenon, <1>13, <1>14 DEF NextBlock, vars
<1> QED
  BY ZenonT(30), <1>1, <1>2, <1>3, <1>4, <1>5, <1>8, <1>9, <1>10, <1>11, <1>12, <1>14 DEF Next

INSTANCE FiniteSetTheorems

(* The size of the notary set is a natural number.                         *)
LEMMA SetSizeTypes ==
    ASSUME RegistryInv, NotarySetSizeCurrent
    PROVE  notarySetSize \in Nat
<1> DEFINE Q == QualifiedNodes(nodes, minStake)
<1>1. Len(nodes) \in Nat
  BY ZenonT(30), InvFacts
<1>2. IsFiniteSet(1..Len(nodes))
  BY SMTT(30), <1>1, FS_Interval
<1>3. Q \subseteq 1..Len(nodes)
  BY Zenon DEF QualifiedNodes
<1>4. Cardinality(Q) \in Nat
  <2> HIDE DEF Q
  <2> QED
    BY ZenonT(30), <1>2, <1>3, FS_Subset, FS_CardinalityType
<1>5. ASSUME NEW c \in Nat
      PROVE  SetSize(c) \in Nat
  <2>1. (5 - 3 * c) \div 15 <= 0 /\ (5 - 3 * c) \div 15 \in Int
    BY <1>5
  <2> QED
    BY <2>1 DEF SetSize
<1> QED
  BY ZenonT(30), <1>4, <1>5 DEF NotarySetSizeCurrent

(* In every reachable state totalStaked is the sum of the stakes and the   *)
(* contract holds exactly the stakes, the amounts being withdrawn and what *)
(* came with updateConfiguration, for any number of nodes and calls.       *)
THEOREM RegistryStakes == Spec => []StakesAccounted
<1>1. Init => RegistryInv /\ FineTyped /\ AccountInv
  BY ZenonT(30), InitRegistry, InitAccount DEF Init, FineTyped
<1>2. RegistryInv /\ FineTyped /\ AccountInv /\ [Next]_vars
         => (RegistryInv /\ FineTyped /\ AccountInv)'
  BY ZenonT(30), NextRegistry, NextFineTyped, NextAccount
<1>3. ASSUME RegistryInv, FineTyped, AccountInv, NotarySetSizeCurrent, FinesInv
      PROVE  StakesAccounted
  <2>1. notarySetSize \in Nat /\ totalStaked \in Nat /\ contractBalance \in Nat
    BY ZenonT(30), <1>3, SetSizeTypes, AccountTypes
  <2>2. fines \in [SUBSET Messages -> Nat]
    BY ZenonT(30), <1>3 DEF FinesInv
  <2>3. TypeOK
    BY ZenonT(30), <1>3, <2>1, <2>2 DEF TypeOK, RegistryInv, FineTyped, AccountInv
  <2> QED
    BY ZenonT(30), <1>3, <2>3 DEF StakesAccounted, AccountInv, Balanced
<1> QED
  BY <1>1, <1>2, <1>3, NotarySetSizeFresh, FinesRecorded, PTL DEF Spec

-----------------------------------------------------------------------------
WithdrawalsCovered == \A i \in 1..Len(nodes) : nodes[i].Unstaked <= contractBalance

(* The contract can always pay what a node has unstaked: the check of its  *)
(* balance in the transfer of withdraw never fails.                        *)
THEOREM RegistryWithdrawals == Spec => []WithdrawalsCovered
<1>1. ASSUME StakesAccounted, NEW i \in 1..Len(nodes)
      PROVE  nodes[i].Unstaked <= contractBalance
  <2> DEFINE y == nodes[i].Unstaked
             none == [nodes[i] EXCEPT !.Unstaked = 0]
             rest == [nodes EXCEPT ![i] = none]
             a == SumStaked(nodes)
             b == SumUnstaked(nodes)
             r == SumUnstaked(rest)
  <2>1. nodes \in Seq(NodeInfo) /\ surplus \in Nat /\ contractBalance = surplus + a + b
    BY ZenonT(30), <1>1 DEF StakesAccounted, TypeOK
  <2>2. nodes[i] \in NodeInfo
    BY <2>1
  <2>3. none \in NodeInfo /\ none.Unstaked = 0
    BY ZenonT(30), <2>2 DEF NodeInfo
  <2> HIDE DEF none
  <2>4. rest \in Seq(NodeInfo) /\ Updated(nodes, i, none, rest)
    BY SMTT(30), <2>1, <2>3 DEF Updated
  <2> HIDE DEF rest
  <2>5. r + y = b + 0
    BY ZenonT(60), <2>1, <2>3, <2>4, UpdateSums
  <2>6. a \in Nat /\ b \in Nat /\ r \in Nat /\ y \in Nat
    BY ZenonT(30), <2>1, <2>2, <2>4, SumTypes, NodeAmounts
  <2> HIDE DEF a, b, r, y
  <2>7. y <= contractBalance
    BY SMTT(30), <2>1, <2>5, <2>6
  <2> QED
    BY ZenonT(30), <2>7 DEF y
<1>2. StakesAccounted => WithdrawalsCovered
  BY Zenon, <1>1 DEF WithdrawalsCovered
<1> QED
  BY <1>2, RegistryStakes, PTL

=============================================================================
