----------------------------- MODULE MCLoginLobby -----------------------------
(* Small instances of LoginLobby for TLC. *)
EXTENDS LoginLobby, TLC

CONSTANTS c1, c2   \* clients
CONSTANTS i1       \* an id, which both ask for

SameId == [c \in Client |-> i1]
=============================================================================
