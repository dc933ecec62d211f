--------------------------- MODULE MCSessionTable ---------------------------
(* Small instances of SessionTable for TLC. *)
EXTENDS SessionTable

\* Connections are interchangeable in the safety runs.
Symmetry == Permutations(Conn)
=============================================================================
