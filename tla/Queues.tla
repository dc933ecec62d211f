-------------------------------- MODULE Queues --------------------------------
(***************************************************************************)
(* Erasing from a list or a vector: what is kept, in its order.  This is   *)
(* SelectSeq by the positions that are kept; SelectSeq itself is a         *)
(* recursive function, about which nothing could be proved in general.     *)
(***************************************************************************)
EXTENDS Naturals, Sequences, FiniteSets

\* How many positions of K there are up to i.
Place(K, i) == Cardinality({j \in K : j <= i})

\* The elements of q at the positions K.
Kept(q, K) ==
  [n \in 1..Cardinality(K) |-> q[CHOOSE i \in K : Place(K, i) = n]]

=============================================================================
