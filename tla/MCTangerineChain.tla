------------------------- MODULE MCTangerineChain -------------------------
(***************************************************************************)
(* TangerineChain for TLC: every witness names the block two below.        *)
(***************************************************************************)
EXTENDS TangerineChain

MCWitness == [n \in 0..MaxHeight |-> IF n > 1 THEN n - 2 ELSE 0]
=============================================================================
