----------------------------- MODULE StakeBook -----------------------------
(***************************************************************************)
(* What the node registry promises to those who call it: a set of nodes,   *)
(* at most one of an owner and at most one of a key, in which every call   *)
(* changes the node of the caller, every report the node that signed, and  *)
(* money is neither made nor lost.  Nothing is said of how the nodes are   *)
(* stored and found.                                                       *)
(***************************************************************************)
EXTENDS Integers

CONSTANTS
    Addresses, Foundation, Keys, Funds, Amounts, LockupPeriods, FineValues,
    Messages, MaxTime, MaxFine,
    First,      \* the nodes of the genesis block
    Deposits    \* what the contract holds for them

VARIABLES
    book,           \* the nodes
    balances,       \* of the accounts
    held,           \* by the contract
    fined,          \* the pairs of messages that have been fined
    lockupPeriod,
    fineValue,
    time

money == <<balances, held>>
settings == <<lockupPeriod, fineValue>>
vars == <<book, money, fined, settings, time>>

Init ==
    /\ book = First
    /\ balances = [a \in Addresses \cup {Foundation} |-> Funds]
    /\ held = Deposits
    /\ fined = {}
    /\ lockupPeriod \in LockupPeriods
    /\ fineValue \in FineValues
    /\ time = 1

(* The addresses and keys that have no node.                               *)
FreeAddresses == Addresses \ {n.Owner : n \in book}

FreeKeys == Keys \ {n.PublicKey : n \in book}

Replace(n, new) == book' = (book \ {n}) \cup {new}

Pay(addr, value) ==
    /\ balances[addr] >= value
    /\ balances' = [balances EXCEPT ![addr] = @ - value]
    /\ held' = held + value

Register(addr, key, value) ==
    /\ Pay(addr, value)
    /\ book' = book \cup {[Owner |-> addr, PublicKey |-> key, Staked |-> value,
                           Fined |-> 0, Unstaked |-> 0, UnstakedAt |-> 0]}
    /\ UNCHANGED <<fined, settings, time>>

Stake(n, value) ==
    /\ value > 0
    /\ n.Fined = 0
    /\ Pay(n.Owner, value)
    /\ Replace(n, [n EXCEPT !.Staked = @ + value])
    /\ UNCHANGED <<fined, settings, time>>

Unstake(n, amount) ==
    /\ n.Fined = 0
    /\ n.Unstaked = 0
    /\ n.Staked >= amount
    /\ Replace(n, [n EXCEPT !.Staked = @ - amount, !.Unstaked = amount,
                            !.UnstakedAt = time])
    /\ UNCHANGED <<money, fined, settings, time>>

(* What was unstaked is paid, without a condition on what is held; a node  *)
(* with no stake left goes.                                                *)
Withdraw(n) ==
    /\ n.Fined = 0
    /\ n.UnstakedAt # 0
    /\ time > n.UnstakedAt + lockupPeriod
    /\ \/ n.Staked = 0 /\ book' = book \ {n}
       \/ n.Staked # 0 /\ Replace(n, [n EXCEPT !.Unstaked = 0, !.UnstakedAt = 0])
    /\ held' = held - n.Unstaked
    /\ balances' = [balances EXCEPT ![n.Owner] = @ + n.Unstaked]
    /\ UNCHANGED <<fined, settings, time>>

PayFine(payer, n, value) ==
    /\ n.Fined > 0
    /\ n.Fined >= value
    /\ balances[payer] >= value
    /\ balances' = [balances EXCEPT ![payer] = @ - value, ![Foundation] = @ + value]
    /\ Replace(n, [n EXCEPT !.Fined = @ - value])
    /\ UNCHANGED <<held, fined, settings, time>>

Fine(n) ==
    /\ n.Fined + fineValue <= MaxFine
    /\ Replace(n, [n EXCEPT !.Fined = @ + fineValue])
    /\ UNCHANGED <<money, settings, time>>

Report(m1, m2, n) ==
    /\ n.PublicKey = m1.ProposerID
    /\ m1.ProposerID = m2.ProposerID
    /\ m1.Position = m2.Position
    /\ m1.Hash # m2.Hash
    /\ {m1, m2} \notin fined
    /\ fined' = fined \cup {{m1, m2}}
    /\ Fine(n)

Disqualify(n) ==
    /\ Fine(n)
    /\ UNCHANGED fined

TransferNodeOwnership(n, newOwner) ==
    /\ Replace(n, [n EXCEPT !.Owner = newOwner])
    /\ UNCHANGED <<money, fined, settings, time>>

ReplaceNodePublicKey(n, newKey) ==
    /\ Replace(n, [n EXCEPT !.PublicKey = newKey])
    /\ UNCHANGED <<money, fined, settings, time>>

UpdateConfiguration(lockup, fine, value) ==
    /\ Pay(Foundation, value)
    /\ lockupPeriod' = lockup
    /\ fineValue' = fine
    /\ UNCHANGED <<book, fined, time>>

NextBlock ==
    /\ time < MaxTime
    /\ time' = time + 1
    /\ UNCHANGED <<book, money, fined, settings>>

NodeNext(n) ==
    \/ \E value \in Amounts : Stake(n, value) \/ Unstake(n, value)
    \/ Withdraw(n)
    \/ \E payer \in Addresses, value \in Amounts : PayFine(payer, n, value)
    \/ \E m1, m2 \in Messages : Report(m1, m2, n)
    \/ Disqualify(n)
    \/ \E newOwner \in FreeAddresses : TransferNodeOwnership(n, newOwner)
    \/ \E newKey \in FreeKeys : ReplaceNodePublicKey(n, newKey)

Next ==
    \/ NextBlock
    \/ \E lockup \in LockupPeriods, fine \in FineValues, value \in Amounts :
          UpdateConfiguration(lockup, fine, value)
    \/ \E addr \in FreeAddresses, key \in FreeKeys, value \in Amounts :
          Register(addr, key, value)
    \/ \E n \in book : NodeNext(n)

Spec == Init /\ [][Next]_vars
=============================================================================
