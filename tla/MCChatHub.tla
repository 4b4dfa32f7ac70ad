----------------------------- MODULE MCChatHub -----------------------------
(***************************************************************************)
(* Bounded instances of ChatHub for TLC.                                   *)
(***************************************************************************)
EXTENDS ChatHub
=============================================================================
