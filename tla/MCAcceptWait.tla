---------------------------- MODULE MCAcceptWait ----------------------------
(* Small instances of AcceptWait for TLC. *)
EXTENDS AcceptWait

=============================================================================
