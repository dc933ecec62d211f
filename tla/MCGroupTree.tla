----------------------------- MODULE MCGroupTree -----------------------------
(* Small instances of GroupTree for TLC. *)
EXTENDS GroupTree, TLC

\* Players are interchangeable, and so are the groups the players create.
Symmetry == Permutations(Player) \cup Permutations(Group \ {Root, Wait})
=============================================================================
