-------------------------- MODULE MCProviderCircuit --------------------------
(* Small instances of ProviderCircuit, and the bugs its properties catch. *)
EXTENDS ProviderCircuit, TLC

Symmetric == Permutations(Attempts) \cup Permutations(Accounts)
=============================================================================
