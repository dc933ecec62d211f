--------------------------- MODULE DeferredTable ---------------------------
(***************************************************************************)
(* What StableVectorMap promises its users: a table whose elements are     *)
(* only marked when they are removed, so that a walk over the table is     *)
(* never disturbed, and are taken out together later on.                   *)
(***************************************************************************)
CONSTANT Element

VARIABLES
  live,    \* the elements of the table
  pending  \* those of them whose removal is asked for

Init == live = {} /\ pending = {}

Add(e) ==
  /\ e \notin live /\ pending = {}
  /\ live' = live \cup {e}
  /\ UNCHANGED pending

Mark(e) ==
  /\ e \in live
  /\ pending' = pending \cup {e}
  /\ UNCHANGED live

Apply ==
  /\ live' = live \ pending
  /\ pending' = {}

Next == Apply \/ \E e \in Element : Add(e) \/ Mark(e)

Spec == Init /\ [][Next]_<<live, pending>>
=============================================================================
