---------------------------- MODULE NodeRegistry ----------------------------
(***************************************************************************)
(* The node registry and the stakes of the governance contract             *)
(* (core/vm/oracle_contracts.go).  A call that fails is reverted by the    *)
(* EVM, so an action is a call that succeeds; the value a call carries is  *)
(* moved to the contract before the method runs.                           *)
(*                                                                         *)
(* The two offset mappings of the contract store the offset plus one, with *)
(* 0 for "absent": the stored value is the index into the sequence nodes.  *)
(***************************************************************************)
EXTENDS Integers, Sequences, FiniteSets

CONSTANTS
    Addresses,      \* accounts that may own a node
    Foundation,     \* the account that owns the contract
    Keys,           \* node key addresses
    Genesis,        \* the nodes registered by the genesis block
    Funds,          \* what every account holds besides its genesis stake
    Amounts,        \* values and amounts of calls
    MinStakes,      \* values updateConfiguration may give minStake
    LockupPeriods,  \* values updateConfiguration may give lockupPeriod
    FineValues,     \* values it may give the fine of every kind
    Messages,       \* signed votes (or blocks) that can be reported
    MaxTime,        \* bound on the block time
    MaxFine         \* bound on the unpaid fine of a node

Accounts == Addresses \cup {Foundation}

NodeInfo == [Owner : Addresses, PublicKey : Keys, Staked : Nat,
             Fined : Nat, Unstaked : Nat, UnstakedAt : Nat]

ASSUME RegistryAssumption ==
    /\ Foundation \notin Addresses
    /\ Genesis \in Seq(NodeInfo)
    /\ \A i \in 1..Len(Genesis) : Genesis[i].Staked > 0 /\ Genesis[i].Fined = 0
          /\ Genesis[i].Unstaked = 0 /\ Genesis[i].UnstakedAt = 0
    /\ \A i, j \in 1..Len(Genesis) :
          Genesis[i].Owner = Genesis[j].Owner
          \/ Genesis[i].PublicKey = Genesis[j].PublicKey => i = j
    /\ Funds \in Nat
    /\ Amounts \subseteq Nat
    /\ MinStakes \subseteq Nat \ {0}
    /\ LockupPeriods \subseteq Nat \ {0}
    /\ FineValues \subseteq Nat
    /\ MaxTime \in Nat
    /\ MaxFine \in Nat
    /\ \A m \in Messages : m.ProposerID \in Keys

VARIABLES
    nodes,                        \* nodeInfo[] nodes
    nodesOffsetByAddress,         \* owner address -> offset + 1, or 0
    nodesOffsetByNodeKeyAddress,  \* node key address -> offset + 1, or 0
    totalStaked,
    notarySetSize,
    minStake,
    lockupPeriod,
    fineValue,                    \* fineValues, the same for every kind of fine
    fineRecords,                  \* hashes of the evidence already fined
    balances,                     \* of the accounts
    contractBalance,              \* of GovernanceContractAddress
    time,                         \* evm.Time, the time of the block
    fines,                        \* history: fines charged for two messages
    surplus                       \* history: value sent with updateConfiguration

offsets == <<nodesOffsetByAddress, nodesOffsetByNodeKeyAddress>>
settings == <<minStake, lockupPeriod, fineValue>>
config == <<settings, fineRecords, fines, surplus>>
money == <<balances, contractBalance>>
vars == <<nodes, offsets, totalStaked, notarySetSize, config, money, time>>

-----------------------------------------------------------------------------
(* CalNotarySetSize: Ceil((n * 0.6 - 1) / 3) * 3 + 1, in integers; the     *)
(* other formula starts at 80 qualified nodes.                             *)
SetSize(n) == 1 - 3 * ((5 - 3 * n) \div 15)

QualifiedNodes(ns, min) ==
    {i \in 1..Len(ns) : ns[i].Fined = 0 /\ ns[i].Staked >= min}

CalNotarySetSize(ns, min) ==
    notarySetSize' = SetSize(Cardinality(QualifiedNodes(ns, min)))

SetNodesOnly(ns) ==
    /\ nodes' = ns
    /\ UNCHANGED notarySetSize

(* Every write of a node ends by computing notarySetSize again.            *)
SetNodes(ns) ==
    /\ nodes' = ns
    /\ CalNotarySetSize(ns, minStake)

UpdateNode(offset, node) == SetNodes([nodes EXCEPT ![offset] = node])

PutNodeOffsets(node, offset) ==
    /\ nodesOffsetByNodeKeyAddress' =
          [nodesOffsetByNodeKeyAddress EXCEPT ![node.PublicKey] = offset]
    /\ nodesOffsetByAddress' = [nodesOffsetByAddress EXCEPT ![node.Owner] = offset]

(* DeleteNodeOffsets of the old node, then PutNodeOffsets of the new one.  *)
MoveNodeOffsets(old, new, offset) ==
    /\ nodesOffsetByNodeKeyAddress' = [nodesOffsetByNodeKeyAddress EXCEPT
          ![old.PublicKey] = 0, ![new.PublicKey] = offset]
    /\ nodesOffsetByAddress' = [nodesOffsetByAddress EXCEPT
          ![old.Owner] = 0, ![new.Owner] = offset]

(* The sum of the first n values of f.                                     *)
Total(f, n) ==
    LET sum[i \in 0..n] == IF i = 0 THEN 0 ELSE sum[i - 1] + f[i]
    IN  sum[n]

SumStaked(ns) == Total([i \in 1..Len(ns) |-> ns[i].Staked], Len(ns))

SumUnstaked(ns) == Total([i \in 1..Len(ns) |-> ns[i].Unstaked], Len(ns))

Registered(addr) == nodesOffsetByAddress[addr] # 0

NodeOf(addr) == nodes[nodesOffsetByAddress[addr]]

(* The EVM moves the value of the call, before the method runs.            *)
Pay(caller, value) ==
    /\ balances[caller] >= value
    /\ balances' = [balances EXCEPT ![caller] = @ - value]
    /\ contractBalance' = contractBalance + value

-----------------------------------------------------------------------------
Register(caller, key, value) ==
    LET node == [Owner |-> caller, PublicKey |-> key, Staked |-> value,
                 Fined |-> 0, Unstaked |-> 0, UnstakedAt |-> 0]
    IN  /\ ~Registered(caller)
        /\ nodesOffsetByNodeKeyAddress[key] = 0
        /\ Pay(caller, value)
        /\ SetNodes(Append(nodes, node))
        /\ PutNodeOffsets(node, Len(nodes) + 1)
        /\ totalStaked' = totalStaked + value
        /\ UNCHANGED <<config, time>>

Stake(caller, value) ==
    /\ value > 0
    /\ Registered(caller)
    /\ NodeOf(caller).Fined = 0
    /\ Pay(caller, value)
    /\ UpdateNode(nodesOffsetByAddress[caller], [NodeOf(caller) EXCEPT !.Staked = @ + value])
    /\ totalStaked' = totalStaked + value
    /\ UNCHANGED <<offsets, config, time>>

CanUnstakeAgain(node, amount) ==
    /\ node.Fined = 0
    /\ node.Staked >= amount

CanUnstakeFined(node, amount) ==
    /\ node.Unstaked = 0
    /\ node.Staked >= amount

CanUnstake(node, amount) ==
    /\ node.Fined = 0
    /\ node.Unstaked = 0
    /\ node.Staked >= amount

Unstake(caller, amount) ==
    LET node == NodeOf(caller)
    IN  /\ Registered(caller)
        /\ CanUnstake(node, amount)
        /\ UpdateNode(nodesOffsetByAddress[caller],
              [node EXCEPT !.Staked = @ - amount, !.Unstaked = amount,
                           !.UnstakedAt = time])
        /\ totalStaked' = totalStaked - amount
        /\ UNCHANGED <<offsets, config, money, time>>

Withdrawable(node) ==
    /\ node.Fined = 0
    /\ node.UnstakedAt # 0
    /\ time > node.UnstakedAt + lockupPeriod

(* What withdraw leaves in the registry: the node is kept while it has a   *)
(* stake; otherwise the last node of the array takes its place.            *)
KeepNode(offset, node) ==
    /\ UpdateNode(offset, node)
    /\ UNCHANGED offsets

RemoveNodeStaleOffset(offset, node) ==
    LET last == nodes[Len(nodes)]
    IN  /\ SetNodes([i \in 1..(Len(nodes) - 1) |->
                        IF i = offset THEN last ELSE nodes[i]])
        /\ nodesOffsetByNodeKeyAddress' =
              [nodesOffsetByNodeKeyAddress EXCEPT ![node.PublicKey] = 0]
        /\ nodesOffsetByAddress' =
              [nodesOffsetByAddress EXCEPT ![last.Owner] = offset, ![node.Owner] = 0]

RemoveNodeUnfilled(offset, node) ==
    LET last == nodes[Len(nodes)]
    IN  /\ SetNodes(SubSeq(nodes, 1, Len(nodes) - 1))
        /\ nodesOffsetByNodeKeyAddress' = [nodesOffsetByNodeKeyAddress EXCEPT
              ![last.PublicKey] = offset, ![node.PublicKey] = 0]
        /\ nodesOffsetByAddress' = [nodesOffsetByAddress EXCEPT
              ![last.Owner] = offset, ![node.Owner] = 0]

RemoveNode(offset, node) ==
    LET last == nodes[Len(nodes)]
    IN  /\ SetNodes([i \in 1..(Len(nodes) - 1) |->
                        IF i = offset THEN last ELSE nodes[i]])
        /\ nodesOffsetByNodeKeyAddress' = [nodesOffsetByNodeKeyAddress EXCEPT
              ![last.PublicKey] = offset, ![node.PublicKey] = 0]
        /\ nodesOffsetByAddress' = [nodesOffsetByAddress EXCEPT
              ![last.Owner] = offset, ![node.Owner] = 0]

Withdraw(caller) ==
    LET offset == nodesOffsetByAddress[caller]
        node == NodeOf(caller)
        left == [node EXCEPT !.Unstaked = 0, !.UnstakedAt = 0]
    IN  /\ Registered(caller)
        /\ Withdrawable(node)
        /\ IF node.Staked = 0 THEN RemoveNode(offset, node) ELSE KeepNode(offset, left)
        /\ contractBalance >= node.Unstaked
        /\ contractBalance' = contractBalance - node.Unstaked
        /\ balances' = [balances EXCEPT ![node.Owner] = @ + node.Unstaked]
        /\ UNCHANGED <<totalStaked, config, time>>

(* The fine goes through the contract to its owner, the foundation.        *)
PayFine(caller, addr, value) ==
    LET node == NodeOf(addr)
    IN  /\ Registered(addr)
        /\ node.Fined > 0
        /\ node.Fined >= value
        /\ balances[caller] >= value
        /\ balances' = [balances EXCEPT ![caller] = @ - value, ![Foundation] = @ + value]
        /\ UpdateNode(nodesOffsetByAddress[addr], [node EXCEPT !.Fined = @ - value])
        /\ UNCHANGED <<offsets, totalStaked, config, contractBalance, time>>

(* NeedPenaltyForkVote and NeedPenaltyForkBlock of the consensus core; the *)
(* Position of a vote stands for its type and its period too.              *)
NeedPenalty(m1, m2) ==
    /\ m1.ProposerID = m2.ProposerID
    /\ m1.Position = m2.Position
    /\ m1.Hash # m2.Hash

RecordHashUnsorted(m1, m2) == <<m1, m2>>

(* The hash of the sorted payloads: the order of the two does not matter.  *)
RecordHash(m1, m2) == {m1, m2}

FinedNode(node) == [node EXCEPT !.Fined = @ + fineValue]

Report(m1, m2) ==
    LET offset == nodesOffsetByNodeKeyAddress[m1.ProposerID]
        owner == nodes[offset].Owner
    IN  /\ NeedPenalty(m1, m2)
        /\ offset # 0
        /\ RecordHash(m1, m2) \notin fineRecords
        /\ fineRecords' = fineRecords \cup {RecordHash(m1, m2)}
        /\ fines' = [fines EXCEPT ![{m1, m2}] = @ + 1]
        /\ Registered(owner)
        /\ NodeOf(owner).Fined + fineValue <= MaxFine
        /\ UpdateNode(nodesOffsetByAddress[owner], FinedNode(NodeOf(owner)))
        /\ UNCHANGED <<offsets, totalStaked, settings, surplus, money, time>>

(* The fine of a node that stopped a DKG, by fineFailStopDKG.              *)
Disqualify(key) ==
    LET offset == nodesOffsetByNodeKeyAddress[key]
    IN  /\ offset # 0
        /\ nodes[offset].Fined + fineValue <= MaxFine
        /\ UpdateNode(offset, FinedNode(nodes[offset]))
        /\ UNCHANGED <<offsets, totalStaked, config, money, time>>

(* By the owner of the node, or by the foundation for it.                  *)
TransferNodeOwnership(oldOwner, newOwner) ==
    LET offset == nodesOffsetByAddress[oldOwner]
        node == [NodeOf(oldOwner) EXCEPT !.Owner = newOwner]
    IN  /\ Registered(oldOwner)
        /\ ~Registered(newOwner)
        /\ MoveNodeOffsets(NodeOf(oldOwner), node, offset)
        /\ UpdateNode(offset, node)
        /\ UNCHANGED <<totalStaked, config, money, time>>

ReplaceNodePublicKey(caller, newKey) ==
    LET offset == nodesOffsetByAddress[caller]
        node == [NodeOf(caller) EXCEPT !.PublicKey = newKey]
    IN  /\ Registered(caller)
        /\ nodesOffsetByNodeKeyAddress[newKey] = 0
        /\ MoveNodeOffsets(NodeOf(caller), node, offset)
        /\ UpdateNode(offset, node)
        /\ UNCHANGED <<totalStaked, config, money, time>>

(* By the foundation; the value of this call is not rejected and stays.    *)
(* The settings that no call of the registry reads are left out.           *)
UpdateConfiguration(min, lockup, fine, value) ==
    /\ Pay(Foundation, value)
    /\ surplus' = surplus + value
    /\ minStake' = min
    /\ lockupPeriod' = lockup
    /\ fineValue' = fine
    /\ CalNotarySetSize(nodes, min)
    /\ UNCHANGED <<nodes, offsets, totalStaked, fineRecords, fines, time>>

(* The next block has a later time.                                        *)
NextBlock ==
    /\ time < MaxTime
    /\ time' = time + 1
    /\ UNCHANGED <<nodes, offsets, totalStaked, notarySetSize, config, money>>

(* The mapping the registrations of the genesis block leave.               *)
GenesisOffsets(S, id) ==
    [x \in S |-> IF \E i \in DOMAIN id : id[i] = x
                 THEN CHOOSE i \in DOMAIN id : id[i] = x ELSE 0]

Init ==
    /\ nodes = Genesis
    /\ nodesOffsetByAddress =
          GenesisOffsets(Addresses, [i \in 1..Len(Genesis) |-> Genesis[i].Owner])
    /\ nodesOffsetByNodeKeyAddress =
          GenesisOffsets(Keys, [i \in 1..Len(Genesis) |-> Genesis[i].PublicKey])
    /\ totalStaked = SumStaked(Genesis)
    /\ minStake \in MinStakes
    /\ lockupPeriod \in LockupPeriods
    /\ fineValue \in FineValues
    /\ notarySetSize = SetSize(Cardinality(QualifiedNodes(Genesis, minStake)))
    /\ fineRecords = {}
    /\ balances = [a \in Accounts |-> Funds]
    /\ contractBalance = SumStaked(Genesis)
    /\ time = 1
    /\ fines = [c \in SUBSET Messages |-> 0]
    /\ surplus = 0

Next ==
    \/ \E caller \in Addresses, key \in Keys, value \in Amounts : Register(caller, key, value)
    \/ \E caller \in Addresses, value \in Amounts : Stake(caller, value)
    \/ \E caller \in Addresses, amount \in Amounts : Unstake(caller, amount)
    \/ \E caller \in Addresses : Withdraw(caller)
    \/ \E caller, addr \in Addresses, value \in Amounts : PayFine(caller, addr, value)
    \/ \E m1, m2 \in Messages : Report(m1, m2)
    \/ \E key \in Keys : Disqualify(key)
    \/ \E old, new \in Addresses : TransferNodeOwnership(old, new)
    \/ \E caller \in Addresses, key \in Keys : ReplaceNodePublicKey(caller, key)
    \/ \E min \in MinStakes, lockup \in LockupPeriods, fine \in FineValues, value \in Amounts :
          UpdateConfiguration(min, lockup, fine, value)
    \/ NextBlock

Spec == Init /\ [][Next]_vars

-----------------------------------------------------------------------------
TypeOK ==
    /\ nodes \in Seq(NodeInfo)
    /\ nodesOffsetByAddress \in [Addresses -> Nat]
    /\ nodesOffsetByNodeKeyAddress \in [Keys -> Nat]
    /\ totalStaked \in Nat
    /\ notarySetSize \in Nat
    /\ minStake \in MinStakes
    /\ lockupPeriod \in LockupPeriods
    /\ fineValue \in FineValues
    /\ balances \in [Accounts -> Nat]
    /\ contractBalance \in Nat
    /\ time \in Nat
    /\ surplus \in Nat
    /\ fines \in [SUBSET Messages -> Nat]

(* offset leads from every id in the array to its index, and nowhere else. *)
Exact(offset, id) ==
    /\ \A i \in DOMAIN id : offset[id[i]] = i
    /\ \A x \in DOMAIN offset : offset[x] # 0 =>
          offset[x] \in DOMAIN id /\ id[offset[x]] = x

(* The two mappings are exact inverses of the array, through every         *)
(* registration, removal (the last node moves into the gap), change of     *)
(* owner and change of key: a call reaches the node of its caller, a       *)
(* report the node that signed, and no entry points past the end.          *)
OffsetsExact ==
    /\ Exact(nodesOffsetByAddress, [i \in 1..Len(nodes) |-> nodes[i].Owner])
    /\ Exact(nodesOffsetByNodeKeyAddress, [i \in 1..Len(nodes) |-> nodes[i].PublicKey])

(* totalStaked, which the block reward is computed from, is the sum of the *)
(* stakes, and the contract holds exactly what the nodes can still         *)
(* withdraw, beside what came with updateConfiguration: withdraw never     *)
(* fails for lack of balance, and no stake is lost in the contract.        *)
StakesAccounted ==
    /\ TypeOK
    /\ totalStaked = SumStaked(nodes)
    /\ contractBalance = surplus + SumStaked(nodes) + SumUnstaked(nodes)

(* The cached notarySetSize, which later rounds read as the size of the    *)
(* notary set, is never stale after a change of a stake, of a fine, of the *)
(* array or of minStake.                                                   *)
NotarySetSizeCurrent ==
    notarySetSize = SetSize(Cardinality(QualifiedNodes(nodes, minStake)))

(* Two conflicting messages are fined at most once, in whichever order and *)
(* however often they are reported.                                        *)
FinedOncePerConflict == \A c \in DOMAIN fines : fines[c] <= 1

(* Node i is still there, under the same owner or the same key.            *)
StakeKept(i) ==
    \E j \in 1..Len(nodes') :
       /\ nodes'[j].Owner = nodes[i].Owner \/ nodes'[j].PublicKey = nodes[i].PublicKey
       /\ nodes'[j].Staked = nodes[i].Staked
       /\ nodes'[j].Unstaked = nodes[i].Unstaked

FinedKept == \A i \in 1..Len(nodes) : nodes[i].Fined > 0 => StakeKept(i)

(* A node with an unpaid fine is neither removed nor loses any of its      *)
(* stake, whatever is done to its owner and key in the meantime.           *)
FinedNodesLocked == [][FinedKept]_vars

-----------------------------------------------------------------------------
Elements(ns) == {ns[i] : i \in 1..Len(ns)}

Book == INSTANCE StakeBook WITH
    book <- Elements(nodes),
    held <- contractBalance,
    fined <- fineRecords,
    First <- Elements(Genesis),
    Deposits <- SumStaked(Genesis)

(* The array with its two mappings, kept by swapping and shrinking, and    *)
(* the records of the fines are a faithful representation of a set of      *)
(* nodes found by owner or by key: every call does to that set, and to the *)
(* money, what it promises, to the right node and to no other.             *)
KeepsBook == Book!Spec
=============================================================================
