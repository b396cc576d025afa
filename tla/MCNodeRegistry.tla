--------------------------- MODULE MCNodeRegistry ---------------------------
(***************************************************************************)
(* NodeRegistry for TLC: two genesis nodes with a stake of one, a third    *)
(* key, and two conflicting messages of the first node key.                *)
(***************************************************************************)
EXTENDS NodeRegistry

CONSTANTS a1, a2, k1, k2, k3

GenesisNode(owner, key) ==
    [Owner |-> owner, PublicKey |-> key, Staked |-> 1,
     Fined |-> 0, Unstaked |-> 0, UnstakedAt |-> 0]

MCGenesis == <<GenesisNode(a1, k1), GenesisNode(a2, k2)>>

MCMessages == [ProposerID : {k1}, Position : {0}, Hash : {1, 2}]
=============================================================================
