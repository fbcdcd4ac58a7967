-------------------------- MODULE ScalingInventory --------------------------
(***************************************************************************)
(* The operations of internal/nodescaling/inventory.go on the node list of *)
(* a NodeScalingInventory, as the node scaling controller uses them.       *)
(*                                                                         *)
(* A node's Order is only ever compared with other nodes' orders, orders   *)
(* are distinct and the list is stored sorted by order, so the list is a   *)
(* sequence of [node, used] records, lowest order first.                   *)
(***************************************************************************)
EXTENDS Integers, SequencesExt

Entry(n) == [node |-> n, used |-> FALSE]

Names(list) == {list[i].node : i \in DOMAIN list}

NodesOf(list) == [i \in DOMAIN list |-> list[i].node]

AtMost(k, s) == SubSeq(s, 1, IF Len(s) < k THEN Len(s) ELSE k)

(* A finite set of numbers, lowest first; the members of a list at the      *)
(* places in I, in the order of the list.                                   *)
InOrder(S) ==
  CHOOSE s \in [1 .. Cardinality(S) -> S] : \A i, j \in DOMAIN s : i < j => s[i] < s[j]

Pick(list, I) == [k \in 1 .. Cardinality(I) |-> list[InOrder(I)[k]]]

UsedAt(list) == {i \in DOMAIN list : list[i].used}
UnusedAt(list) == DOMAIN list \ UsedAt(list)
UsedNodes(list) == Pick(NodesOf(list), UsedAt(list))

UnusedNodes(list) == Pick(NodesOf(list), UnusedAt(list))

(* updateNodeUsage, for a node that is in the list.                         *)
SetUsage(list, n, used) ==
  [i \in DOMAIN list |-> IF list[i].node = n THEN [list[i] EXCEPT !.used = used] ELSE list[i]]

(* BuildNodeScalingInventorySpec: nodes no longer observed are dropped, new *)
(* ones get the orders after every existing one, by name.                   *)
NewEntries(names) == [k \in 1 .. Cardinality(names) |-> Entry(InOrder(names)[k])]
Retained(list, observed) == Pick(list, {i \in DOMAIN list : list[i].node \in observed})

RebuildWithoutUse(list, observed) == NewEntries(observed)
RebuildAllAsNew(list, observed) == Retained(list, observed) \o NewEntries(observed)
Rebuild(list, observed) == Retained(list, observed) \o NewEntries(observed \ Names(list))

(* FindUnusedInventoryNodes and FindHighestOrderUsedInventoryNodes, as the  *)
(* sequence of names they select; empty where the code returns an error.    *)
FindUnused(list, limit) == AtMost(limit, UnusedNodes(list))

FindHighestUsed(list, limit) == AtMost(limit, Reverse(UsedNodes(list)))

CountUnused(list) == Len(UnusedNodes(list))
CountUsed(list) == Len(UsedNodes(list))
=============================================================================
