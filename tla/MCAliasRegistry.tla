-------------------------- MODULE MCAliasRegistry --------------------------
(* Instances of AliasRegistry for TLC.                                     *)
EXTENDS AliasRegistry, TLC

Symmetry == Permutations(Aliases) \cup Permutations(Groups)
=============================================================================
