--------------------------- MODULE MCNodeScaling ---------------------------
(* Nodes are numbers because the inventory sorts them by name.  Two slots   *)
(* let an old waiter and a new one of a node coexist; with these bounds a   *)
(* third one is never taken.                                                *)
EXTENDS NodeScaling

CONSTANTS w1, w2

MCSlots == {w1, w2}

(* Sound for the safety runs, not used with liveness properties.            *)
MCSlotSymmetry == Permutations(MCSlots)
=============================================================================
