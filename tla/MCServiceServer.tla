-------------------------- MODULE MCServiceServer --------------------------
(* Small instances of ServiceServer for TLC. *)
EXTENDS ServiceServer, TLC

\* Connections and sockets are interchangeable in the safety runs.
Symmetry == Permutations(Conn) \cup Permutations(Socket)
=============================================================================
