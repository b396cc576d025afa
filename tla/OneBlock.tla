------------------------------ MODULE OneBlock ------------------------------
(***************************************************************************)
(* What the agreement of a position promises the rest of the node: each    *)
(* member confirms at most once, and the members that confirm a block      *)
(* confirm the same one.  The empty block is outside the promise.          *)
(***************************************************************************)
CONSTANTS Members, Blocks, NULL, None

VARIABLE confirmed   \* per member: the hash it confirmed, or None

Init == confirmed = [m \in Members |-> None]

Confirm(m, h) ==
    /\ confirmed[m] = None
    /\ h \in Blocks => \A n \in Members : confirmed[n] \in Blocks => confirmed[n] = h
    /\ confirmed' = [confirmed EXCEPT ![m] = h]

Next == \E m \in Members, h \in Blocks \cup {NULL} : Confirm(m, h)

Spec == Init /\ [][Next]_confirmed
=============================================================================
