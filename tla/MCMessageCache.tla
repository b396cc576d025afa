--------------------------- MODULE MCMessageCache ---------------------------
(***************************************************************************)
(* MessageCache for TLC: two votes at position 1 and one each at 2 and 3,  *)
(* two blocks that compete for position 1 and one at position 2.           *)
(***************************************************************************)
EXTENDS MessageCache, TLC

CONSTANTS v1, v2, v3, v4, b1, b2, b3

MCPosition == (v1 :> 1) @@ (v2 :> 1) @@ (v3 :> 2) @@ (v4 :> 3)
              @@ (b1 :> 1) @@ (b2 :> 1) @@ (b3 :> 2)
=============================================================================
