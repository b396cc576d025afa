-------------------------- MODULE MCGovernanceDKG --------------------------
(* Five nodes; a reset replaces node a by node e in the notary set of four. *)
EXTENDS GovernanceDKG, TLC

CONSTANTS a, b, c, d, e

MCNode       == {a, b, c, d, e}
MCPrevSet    == {b, c, d, e}
MCJoined     == {b, c, d}
MCNotarySets == 0 :> {a, b, c, d} @@ 1 :> {b, c, d, e}
MCFaulty     == {a, e}
MCNacked     == {a, e}

Symmetry == Permutations({b, c, d})
=============================================================================
