------------------------- MODULE MCCredentialStore -------------------------
(* The instance of CredentialStore for TLC. *)
EXTENDS CredentialStore
=============================================================================
