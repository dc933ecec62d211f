---------------------------- MODULE MCClientProcess ----------------------------
(* Small instances of ClientProcess for TLC. *)
EXTENDS ClientProcess
=============================================================================
