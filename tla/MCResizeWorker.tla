--------------------------- MODULE MCResizeWorker ---------------------------
(* Two namespaces, two senders and one goroutine slot more than the worker  *)
(* should ever need, so that a second call in a namespace has room.         *)
EXTENDS ResizeWorker, TLC

CONSTANTS n1, n2, s1, s2, c1, c2, c3

MCNamespaces == {n1, n2}
MCSenders == {s1, s2}
MCCalls == {c1, c2, c3}

(* Namespaces, senders and slots are interchangeable: sound for the safety  *)
(* runs, not used with liveness properties.                                 *)
MCSymmetry == Permutations(MCNamespaces) \cup Permutations(MCSenders)
                \cup Permutations(MCCalls)
=============================================================================
