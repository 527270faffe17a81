---------------------------- MODULE MCDelegatedKeys ---------------------------
(* Instances of DelegatedKeys for TLC. *)
EXTENDS DelegatedKeys, TLC

\* Keys and Servers are interchangeable: nothing orders them.
Symmetry == Permutations(Keys) \cup Permutations(Servers)

=============================================================================
