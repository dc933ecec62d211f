--------------------------- MODULE MCServerLifecycle ---------------------------
(* Small instances of ServerLifecycle for TLC. *)
EXTENDS ServerLifecycle

CONSTANTS s1, s2   \* servers
CONSTANTS h1, h2   \* socket handles
=============================================================================
