--------------------------- MODULE MCUpstreamGate ---------------------------
(* Symmetry for the bounded instances of UpstreamGate. *)
EXTENDS UpstreamGate, TLC

Symmetry == Permutations(Accounts) \cup Permutations(Clients)
=============================================================================
