------------------------- MODULE MCUserLoopServer -------------------------
(* Small instances of UserLoopServer for TLC. *)
EXTENDS UserLoopServer, TLC

\* Connections and sockets are interchangeable in the safety runs.
Symmetry == Permutations(Conn) \cup Permutations(Socket)
=============================================================================
