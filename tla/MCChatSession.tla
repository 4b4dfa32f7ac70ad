---------------------------- MODULE MCChatSession ----------------------------
(* Symmetry for the bounded instances of ChatSession. *)
EXTENDS ChatSession, TLC

Symmetry == Permutations(Accounts) \cup Permutations(Requests) \cup Permutations(Convs)
=============================================================================
