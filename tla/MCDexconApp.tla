---------------------------- MODULE MCDexconApp ----------------------------
(* Small instances of DexconApp for TLC. *)
EXTENDS DexconApp, TLC

\* Replicas are interchangeable, and so are senders: nothing names one.
Symmetric == Permutations(Replica) \cup Permutations(Address)
=============================================================================
