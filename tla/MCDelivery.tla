----------------------------- MODULE MCDelivery -----------------------------
(* Small instances of Delivery: at most two commits, and of the events from *)
(* outside each at most once.                                               *)
EXTENDS Delivery, TLC

CONSTANTS c1, c2

MCChange == {c1, c2}
One == {c1}
Symmetry == Permutations(MCChange)

Only(events) == [e \in Event |-> IF e \in events THEN 1 ELSE 0]
All == Only(Event)
Crashes == Only({"crash", "rerun"})
Pauses == Only({"pause"})
=============================================================================
