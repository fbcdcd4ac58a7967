------------------------- MODULE NodeScalingProofs --------------------------
(***************************************************************************)
(* Theorems about the node scaling controller, its map scaleInWaiters and  *)
(* its inventory, for any number of nodes, waiter goroutines and crashes,  *)
(* and any failures.  First what the selections of inventory.go return and *)
(* the updates preserve, for node lists of any length: the facts that the  *)
(* proofs about the controller rest on.                                    *)
(***************************************************************************)
EXTENDS NodeScaling, SequenceTheorems, Induction

Lists(N) == Seq([node : N, used : BOOLEAN])

(* No node is listed twice.                                                 *)
Distinct(list) == \A i, j \in DOMAIN list : list[i].node = list[j].node => i = j

-----------------------------------------------------------------------------
(* InOrder lists every member of a finite set of numbers, in order.         *)
LEMMA InOrderProperties ==
  ASSUME NEW S \in SUBSET Nat, IsFiniteSet(S)
  PROVE  /\ Cardinality(S) \in Nat
         /\ InOrder(S) \in [1 .. Cardinality(S) -> S]
         /\ \A i, j \in 1 .. Cardinality(S) : i < j <=> InOrder(S)[i] < InOrder(S)[j]
         /\ \A i, j \in 1 .. Cardinality(S) : InOrder(S)[i] = InOrder(S)[j] => i = j
         /\ \A x \in S : \E k \in 1 .. Cardinality(S) : InOrder(S)[k] = x
<1> DEFINE n == Cardinality(S)
           s == InOrder(S)
<1>1. n \in Nat
  BY FS_CardinalityType
<1>2. s \in [1 .. n -> S] /\ \A i, j \in DOMAIN s : i < j => s[i] < s[j]
  BY OrderExists DEF InOrder
<1>3. DOMAIN s = 1 .. n
  BY <1>2
<1> HIDE DEF n, s
<1>4. \A i \in 1 .. n : s[i] \in Nat
  BY <1>2
<1>5. \A i, j \in 1 .. n : i < j <=> s[i] < s[j]
  <2>1. ASSUME NEW i \in 1 .. n, NEW j \in 1 .. n, s[i] < s[j], ~(i < j)
        PROVE  FALSE
    <3>1. i = j \/ j < i
      BY <1>1, <2>1
    <3>2. s[i] = s[j] \/ s[j] < s[i]
      BY <1>2, <1>3, <3>1
    <3> QED BY <1>4, <2>1, <3>2
  <2> QED BY <1>2, <1>3, <2>1
<1>6. \A i, j \in 1 .. n : s[i] = s[j] => i = j
  <2>1. ASSUME NEW i \in 1 .. n, NEW j \in 1 .. n, s[i] = s[j]
        PROVE  i = j
    <3>1. ~(s[i] < s[j]) /\ ~(s[j] < s[i])
      BY <1>4, <2>1
    <3>2. ~(i < j) /\ ~(j < i)
      BY <1>5, <3>1
    <3> QED BY <1>1, <3>2
  <2> QED BY <2>1
<1>7. s \in Injection(1 .. n, S)
  BY <1>2, <1>3, <1>6 DEF Injection, IsInjective
<1>8. IsFiniteSet(1 .. n) /\ Cardinality(1 .. n) = n
  BY <1>1, PlacesAreFinite
<1>9. s \in Surjection(1 .. n, S)
  BY <1>7, <1>8, FS_Injection DEF n
<1>10. \A x \in S : \E k \in 1 .. n : s[k] = x
  BY <1>9 DEF Surjection
<1> QED BY <1>1, <1>2, <1>5, <1>6, <1>10 DEF n, s

(* A function on 1 .. n is a sequence of length n.                          *)
LEMMA FunctionIsSeq ==
  ASSUME NEW E, NEW n \in Nat, NEW s \in [1 .. n -> E]
  PROVE  s \in Seq(E) /\ Len(s) = n
OBVIOUS

(* Pick returns the members of a list at the given places, in order.        *)
LEMMA PickProperties ==
  ASSUME NEW E, NEW list \in Seq(E), NEW I \in SUBSET (1 .. Len(list))
  PROVE  /\ IsFiniteSet(I) /\ Cardinality(I) \in 0 .. Len(list)
         /\ Pick(list, I) \in Seq(E)
         /\ Len(Pick(list, I)) = Cardinality(I)
         /\ DOMAIN Pick(list, I) = 1 .. Cardinality(I)
         /\ InOrder(I) \in [1 .. Cardinality(I) -> I]
         /\ \A k \in 1 .. Cardinality(I) : Pick(list, I)[k] = list[InOrder(I)[k]]
<1> DEFINE n == Cardinality(I)
<1>1. Len(list) \in Nat
  BY LenProperties
<1>2. IsFiniteSet(I) /\ n \in 0 .. Len(list)
  <2>1. IsFiniteSet(1 .. Len(list)) /\ Cardinality(1 .. Len(list)) = Len(list)
    BY <1>1, PlacesAreFinite
  <2>2. IsFiniteSet(I) /\ n <= Len(list)
    BY <2>1, FS_Subset
  <2>3. n \in Nat
    BY <2>2, FS_CardinalityType
  <2> QED BY <1>1, <2>2, <2>3
<1>3. I \in SUBSET Nat
  BY <1>1
<1>4. InOrder(I) \in [1 .. n -> I]
  BY <1>2, <1>3, InOrderProperties
<1>5. Pick(list, I) = [k \in 1 .. n |-> list[InOrder(I)[k]]]
  BY DEF Pick
<1> HIDE DEF n
<1>6. \A k \in 1 .. n : list[InOrder(I)[k]] \in E
  BY <1>4, ElementOfSeq
<1>7. Pick(list, I) \in [1 .. n -> E]
  BY <1>5, <1>6
<1>8. Pick(list, I) \in Seq(E) /\ Len(Pick(list, I)) = n
  BY <1>2, <1>7
<1> QED BY <1>2, <1>4, <1>5, <1>8 DEF n

(* Every place picked is found again.                                       *)
LEMMA PickFinds ==
  ASSUME NEW E, NEW list \in Seq(E), NEW I \in SUBSET (1 .. Len(list)), NEW i \in I
  PROVE  \E k \in 1 .. Cardinality(I) : InOrder(I)[k] = i /\ Pick(list, I)[k] = list[i]
<1>1. I \in SUBSET Nat /\ IsFiniteSet(I)
  BY LenProperties, PickProperties
<1>2. PICK k \in 1 .. Cardinality(I) : InOrder(I)[k] = i
  BY <1>1, InOrderProperties
<1> QED BY <1>2, PickProperties

(* The first k members.                                                     *)
LEMMA AtMostProperties ==
  ASSUME NEW E, NEW s \in Seq(E), NEW k \in Nat
  PROVE  /\ AtMost(k, s) \in Seq(E)
         /\ Len(AtMost(k, s)) = IF Len(s) < k THEN Len(s) ELSE k
         /\ Len(AtMost(k, s)) \in 0 .. Len(s)
         /\ \A i \in 1 .. Len(AtMost(k, s)) : i \in 1 .. Len(s) /\ AtMost(k, s)[i] = s[i]
<1> DEFINE m == IF Len(s) < k THEN Len(s) ELSE k
<1>1. Len(s) \in Nat /\ m \in 0 .. Len(s)
  BY LenProperties
<1>2. AtMost(k, s) = SubSeq(s, 1, m)
  BY DEF AtMost
<1>3. \A i \in 1 .. m : i \in 1 .. Len(s) /\ s[i] \in E
  BY <1>1, ElementOfSeq
<1> HIDE DEF m
<1>4. /\ SubSeq(s, 1, m) \in Seq(E)
      /\ Len(SubSeq(s, 1, m)) = IF 1 <= m THEN m - 1 + 1 ELSE 0
      /\ \A i \in 1 .. m - 1 + 1 : SubSeq(s, 1, m)[i] = s[1 + i - 1]
  BY <1>1, <1>3, SubSeqProperties
<1>5. Len(SubSeq(s, 1, m)) = m /\ \A i \in 1 .. m : SubSeq(s, 1, m)[i] = s[i]
  BY <1>1, <1>4
<1>6. m = IF Len(s) < k THEN Len(s) ELSE k
  BY DEF m
<1> QED BY <1>1, <1>2, <1>3, <1>4, <1>5, <1>6

(* A list backwards.                                                        *)
LEMMA ReverseProperties ==
  ASSUME NEW E, NEW s \in Seq(E)
  PROVE  /\ Reverse(s) \in Seq(E)
         /\ Len(Reverse(s)) = Len(s)
         /\ \A i \in 1 .. Len(s) : /\ Len(s) - i + 1 \in 1 .. Len(s)
                                   /\ Reverse(s)[i] = s[Len(s) - i + 1]
<1>1. Len(s) \in Nat
  BY LenProperties
<1>2. \A i \in 1 .. Len(s) : Len(s) - i + 1 \in 1 .. Len(s) /\ s[Len(s) - i + 1] \in E
  BY <1>1, ElementOfSeq
<1>3. Reverse(s) = [i \in 1 .. Len(s) |-> s[(Len(s) - i) + 1]]
  BY DEF Reverse
<1>4. Reverse(s) \in [1 .. Len(s) -> E]
  BY <1>2, <1>3
<1>5. Reverse(s) \in Seq(E) /\ Len(Reverse(s)) = Len(s)
  BY <1>1, <1>4
<1> QED BY <1>2, <1>3, <1>5

(* The names of the nodes listed, in order.                                 *)
LEMMA NodesOfProperties ==
  ASSUME NEW N, NEW list \in Lists(N)
  PROVE  /\ Len(list) \in Nat /\ DOMAIN list = 1 .. Len(list)
         /\ \A i \in 1 .. Len(list) : list[i].node \in N /\ list[i].used \in BOOLEAN
         /\ NodesOf(list) \in Seq(N) /\ Len(NodesOf(list)) = Len(list)
         /\ \A i \in 1 .. Len(list) : NodesOf(list)[i] = list[i].node
<1>1. Len(list) \in Nat /\ DOMAIN list = 1 .. Len(list)
  BY LenProperties DEF Lists
<1>2. \A i \in 1 .. Len(list) : list[i] \in [node : N, used : BOOLEAN]
  BY ElementOfSeq DEF Lists
<1>3. NodesOf(list) = [i \in 1 .. Len(list) |-> list[i].node]
  BY <1>1 DEF NodesOf
<1>4. NodesOf(list) \in [1 .. Len(list) -> N]
  BY <1>2, <1>3
<1>5. NodesOf(list) \in Seq(N) /\ Len(NodesOf(list)) = Len(list)
  BY <1>1, <1>4
<1> QED BY <1>1, <1>2, <1>3, <1>5

-----------------------------------------------------------------------------
(* Setting the usage of a node touches nothing else.                        *)
LEMMA SetUsageProperties ==
  ASSUME NEW N, NEW list \in Lists(N), NEW n, NEW used \in BOOLEAN
  PROVE  /\ SetUsage(list, n, used) \in Lists(N)
         /\ Len(SetUsage(list, n, used)) = Len(list)
         /\ \A i \in 1 .. Len(list) :
              /\ SetUsage(list, n, used)[i].node = list[i].node
              /\ SetUsage(list, n, used)[i].used = IF list[i].node = n THEN used ELSE list[i].used
<1> DEFINE new == SetUsage(list, n, used)
           entry(i) == IF list[i].node = n THEN [list[i] EXCEPT !.used = used] ELSE list[i]
<1>1. Len(list) \in Nat /\ DOMAIN list = 1 .. Len(list)
  BY NodesOfProperties
<1>2. new = [i \in 1 .. Len(list) |-> entry(i)]
  BY <1>1 DEF SetUsage
<1>3. ASSUME NEW i \in 1 .. Len(list)
      PROVE  /\ entry(i) \in [node : N, used : BOOLEAN]
             /\ entry(i).node = list[i].node
             /\ entry(i).used = IF list[i].node = n THEN used ELSE list[i].used
  <2>1. list[i] \in [node : N, used : BOOLEAN]
    BY ElementOfSeq DEF Lists
  <2> QED BY <2>1
<1> HIDE DEF entry, new
<1>4. new \in [1 .. Len(list) -> [node : N, used : BOOLEAN]]
  BY <1>2, <1>3
<1>5. new \in Lists(N) /\ Len(new) = Len(list)
  BY <1>1, <1>4 DEF Lists
<1>6. \A i \in 1 .. Len(list) : new[i] = entry(i)
  BY <1>2
<1> QED BY <1>3, <1>5, <1>6 DEF new

(* The names and their order stay, and so does that no node is listed twice. *)
LEMMA SetUsageKeepsNames ==
  ASSUME NEW N, NEW list \in Lists(N), NEW n, NEW used \in BOOLEAN
  PROVE  /\ NodesOf(SetUsage(list, n, used)) = NodesOf(list)
         /\ Distinct(list) => Distinct(SetUsage(list, n, used))
<1> DEFINE new == SetUsage(list, n, used)
<1>1. new \in Lists(N) /\ Len(new) = Len(list)
      /\ \A i \in 1 .. Len(list) : new[i].node = list[i].node
  BY SetUsageProperties
<1> HIDE DEF new
<1>2. DOMAIN new = DOMAIN list /\ DOMAIN list = 1 .. Len(list)
  BY <1>1, NodesOfProperties
<1>3. NodesOf(new) = NodesOf(list)
  BY <1>1, <1>2 DEF NodesOf
<1>4. Distinct(list) => Distinct(new)
  BY <1>1, <1>2 DEF Distinct
<1> QED BY <1>3, <1>4 DEF new

(* Used and unused places make up the list.                                 *)
LEMMA CountsAddUp ==
  ASSUME NEW N, NEW list \in Lists(N)
  PROVE  /\ UsedAt(list) \in SUBSET (1 .. Len(list)) /\ UnusedAt(list) \in SUBSET (1 .. Len(list))
         /\ UsedNodes(list) \in Seq(N) /\ UnusedNodes(list) \in Seq(N)
         /\ CountUsed(list) = Cardinality(UsedAt(list))
         /\ CountUnused(list) = Cardinality(UnusedAt(list))
         /\ CountUsed(list) \in Nat /\ CountUnused(list) \in Nat
         /\ CountUsed(list) + CountUnused(list) = Len(list)
<1> DEFINE U == UsedAt(list)
           V == UnusedAt(list)
<1>1. /\ Len(list) \in Nat /\ DOMAIN list = 1 .. Len(list)
      /\ NodesOf(list) \in Seq(N) /\ Len(NodesOf(list)) = Len(list)
  BY NodesOfProperties
<1>2. U \in SUBSET (1 .. Len(list)) /\ V = (1 .. Len(list)) \ U /\ V \in SUBSET (1 .. Len(list))
  BY <1>1 DEF UsedAt, UnusedAt
<1>3. UsedNodes(list) = Pick(NodesOf(list), U) /\ UnusedNodes(list) = Pick(NodesOf(list), V)
  BY DEF UsedNodes, UnusedNodes
<1> HIDE DEF U, V
<1>4. /\ Pick(NodesOf(list), U) \in Seq(N) /\ Len(Pick(NodesOf(list), U)) = Cardinality(U)
      /\ IsFiniteSet(U) /\ Cardinality(U) \in 0 .. Len(list)
  BY <1>1, <1>2, PickProperties
<1>5. /\ Pick(NodesOf(list), V) \in Seq(N) /\ Len(Pick(NodesOf(list), V)) = Cardinality(V)
      /\ IsFiniteSet(V) /\ Cardinality(V) \in 0 .. Len(list)
  BY <1>1, <1>2, PickProperties
<1>6. Cardinality(V) = Len(list) - Cardinality(U)
  <2>1. IsFiniteSet(1 .. Len(list)) /\ Cardinality(1 .. Len(list)) = Len(list)
    BY <1>1, PlacesAreFinite
  <2>2. (1 .. Len(list)) \cap U = U
    BY <1>2
  <2>3. Cardinality((1 .. Len(list)) \ U)
          = Cardinality(1 .. Len(list)) - Cardinality((1 .. Len(list)) \cap U)
    BY <2>1, FS_Difference
  <2> QED BY <1>2, <2>1, <2>2, <2>3
<1>7. CountUsed(list) = Cardinality(U) /\ CountUnused(list) = Cardinality(V)
  BY <1>3, <1>4, <1>5 DEF CountUsed, CountUnused
<1>8. Cardinality(U) \in Nat /\ Cardinality(V) \in Nat /\ Cardinality(U) + Cardinality(V) = Len(list)
  BY <1>1, <1>4, <1>5, <1>6
<1> QED BY <1>2, <1>3, <1>4, <1>5, <1>7, <1>8 DEF U, V

(* A node is in use when it is listed at a used place.                      *)
LEMMA UsedIsListed ==
  ASSUME NEW N, NEW list \in Lists(N), NEW n
  PROVE  [node |-> n, used |-> TRUE] \in ToSet(list)
           <=> \E u \in UsedAt(list) : NodesOf(list)[u] = n
<1>1. /\ DOMAIN list = 1 .. Len(list)
      /\ \A i \in 1 .. Len(list) : NodesOf(list)[i] = list[i].node
  BY NodesOfProperties
<1>2. \A i \in 1 .. Len(list) : list[i] \in [node : N, used : BOOLEAN]
  BY ElementOfSeq DEF Lists
<1>3. ASSUME NEW i \in 1 .. Len(list), list[i] = [node |-> n, used |-> TRUE]
      PROVE  list[i].node = n /\ list[i].used
  BY <1>3
<1>4. ASSUME NEW i \in 1 .. Len(list), list[i].node = n, list[i].used
      PROVE  list[i] = [node |-> n, used |-> TRUE]
  <2>1. list[i] \in [node : N, used : BOOLEAN]
    BY <1>2
  <2>2. list[i].used \in BOOLEAN /\ list[i] = [node |-> list[i].node, used |-> list[i].used]
    BY <2>1
  <2>3. list[i].used = TRUE
    BY <1>4, <2>2, Zenon
  <2> QED BY <1>4, <2>2, <2>3, Zenon
<1>5. ASSUME [node |-> n, used |-> TRUE] \in ToSet(list)
      PROVE  \E u \in UsedAt(list) : NodesOf(list)[u] = n
  <2>1. PICK i \in 1 .. Len(list) : list[i] = [node |-> n, used |-> TRUE]
    BY <1>1, <1>5 DEF ToSet
  <2> QED BY <1>1, <1>3, <2>1 DEF UsedAt
<1>6. ASSUME NEW u \in UsedAt(list), NodesOf(list)[u] = n
      PROVE  [node |-> n, used |-> TRUE] \in ToSet(list)
  <2>1. u \in 1 .. Len(list) /\ list[u].used /\ list[u].node = n
    BY <1>1, <1>6 DEF UsedAt
  <2>2. list[u] = [node |-> n, used |-> TRUE]
    BY <1>4, <2>1
  <2> QED BY <1>1, <2>1, <2>2 DEF ToSet
<1> QED BY <1>5, <1>6

(* Asked for as many nodes as are in use, the search finds all of them.     *)
LEMMA AllUsedFound ==
  ASSUME NEW N, NEW list \in Lists(N)
  PROVE  /\ FindHighestUsed(list, CountUsed(list)) = Reverse(UsedNodes(list))
         /\ Len(FindHighestUsed(list, CountUsed(list))) = CountUsed(list)
<1> DEFINE used == Reverse(UsedNodes(list))
<1>1. UsedNodes(list) \in Seq(N)
  BY CountsAddUp
<1>2. used \in Seq(N) /\ Len(used) = Len(UsedNodes(list))
  BY <1>1, ReverseProperties
<1>3. Len(used) = CountUsed(list)
  BY <1>2 DEF CountUsed
<1>4. FindHighestUsed(list, CountUsed(list)) = AtMost(CountUsed(list), used)
  BY DEF FindHighestUsed
<1> HIDE DEF used
<1>5. Len(used) \in Nat
  BY <1>2, LenProperties
<1>6. AtMost(Len(used), used) = SubSeq(used, 1, Len(used))
  BY <1>5 DEF AtMost
<1>7. AtMost(Len(used), used) = used
  BY <1>2, <1>6, SubSeqFull
<1> QED BY <1>3, <1>4, <1>7 DEF used

(* Marking a node unused does not lower the number of spares, and no place  *)
(* becomes used.                                                            *)
LEMMA UnusedGrows ==
  ASSUME NEW N, NEW list \in Lists(N), NEW n
  PROVE  /\ UsedAt(SetUsage(list, n, FALSE)) \subseteq UsedAt(list)
         /\ CountUnused(SetUsage(list, n, FALSE)) >= CountUnused(list)
<1> DEFINE new == SetUsage(list, n, FALSE)
<1>1. new \in Lists(N) /\ Len(new) = Len(list)
      /\ \A i \in 1 .. Len(list) : new[i].used = IF list[i].node = n THEN FALSE ELSE list[i].used
  <2> DEFINE Set(used, s) == /\ s \in Lists(N) /\ Len(s) = Len(list)
                             /\ \A i \in 1 .. Len(list) :
                                  s[i].used = IF list[i].node = n THEN used ELSE list[i].used
  <2>1. ASSUME NEW used \in BOOLEAN PROVE Set(used, SetUsage(list, n, used))
    BY SetUsageProperties
  <2>2. FALSE \in BOOLEAN
    OBVIOUS
  <2> HIDE DEF Set
  <2>3. Set(FALSE, SetUsage(list, n, FALSE))
    BY <2>1, <2>2, Zenon
  <2> QED BY <2>3 DEF Set
<1> HIDE DEF new
<1>2. DOMAIN new = DOMAIN list /\ DOMAIN list = 1 .. Len(list)
  BY <1>1, NodesOfProperties
<1>3. UsedAt(new) \subseteq UsedAt(list)
  BY <1>1, <1>2 DEF UsedAt
<1>4. UnusedAt(list) \subseteq UnusedAt(new)
  BY <1>2, <1>3 DEF UnusedAt
<1>5. IsFiniteSet(UnusedAt(new))
  <2>1. NodesOf(new) \in Seq(N) /\ Len(NodesOf(new)) = Len(new)
    BY <1>1, NodesOfProperties
  <2>2. UnusedAt(new) \in SUBSET (1 .. Len(NodesOf(new)))
    BY <1>1, <2>1, CountsAddUp
  <2> QED BY <2>1, <2>2, PickProperties
<1>6. Cardinality(UnusedAt(list)) <= Cardinality(UnusedAt(new))
  BY <1>4, <1>5, FS_Subset
<1>7. CountUnused(list) = Cardinality(UnusedAt(list)) /\ CountUnused(new) = Cardinality(UnusedAt(new))
      /\ CountUnused(list) \in Nat /\ CountUnused(new) \in Nat
  BY <1>1, CountsAddUp
<1>8. CountUnused(new) >= CountUnused(list)
  BY <1>6, <1>7
<1> QED BY <1>3, <1>8 DEF new

(* A list without a node listed twice has as many entries as names.         *)
LEMMA DistinctCounts ==
  ASSUME NEW N, NEW list \in Lists(N), Distinct(list)
  PROVE  Len(list) = Cardinality(Names(list))
<1>1. /\ Len(list) \in Nat /\ DOMAIN list = 1 .. Len(list)
      /\ NodesOf(list) \in Seq(N) /\ Len(NodesOf(list)) = Len(list)
      /\ \A i \in 1 .. Len(list) : NodesOf(list)[i] = list[i].node
  BY NodesOfProperties
<1>2. NodesOf(list) = [i \in 1 .. Len(list) |-> list[i].node]
  BY <1>1 DEF NodesOf
<1>3. NodesOf(list) \in [1 .. Len(list) -> Names(list)]
  BY <1>1, <1>2 DEF Names
<1>4. NodesOf(list) \in Injection(1 .. Len(list), Names(list))
  BY <1>1, <1>2, <1>3 DEF Injection, IsInjective, Distinct
<1>5. NodesOf(list) \in Surjection(1 .. Len(list), Names(list))
  BY <1>1, <1>2, <1>3 DEF Surjection, Names
<1>6. ExistsBijection(1 .. Len(list), Names(list))
  BY <1>4, <1>5 DEF ExistsBijection, Bijection
<1> QED BY <1>1, <1>6, FS_CountingElements

-----------------------------------------------------------------------------
(* The entries of nodes seen for the first time: by name, none in use.      *)
LEMMA NewEntriesProperties ==
  ASSUME NEW N \in SUBSET Nat, NEW names \in SUBSET N, IsFiniteSet(names)
  PROVE  /\ NewEntries(names) \in Lists(N)
         /\ Len(NewEntries(names)) = Cardinality(names)
         /\ \A k \in 1 .. Cardinality(names) : NewEntries(names)[k].node = InOrder(names)[k]
         /\ \A k \in 1 .. Cardinality(names) : InOrder(names)[k] \in names
         /\ \A i, j \in 1 .. Cardinality(names) : InOrder(names)[i] = InOrder(names)[j] => i = j
<1> DEFINE n == Cardinality(names)
<1>1. names \in SUBSET Nat
  OBVIOUS
<1>2. /\ n \in Nat /\ InOrder(names) \in [1 .. n -> names]
      /\ \A i, j \in 1 .. n : InOrder(names)[i] = InOrder(names)[j] => i = j
  BY <1>1, InOrderProperties
<1>3. NewEntries(names) = [k \in 1 .. n |-> [node |-> InOrder(names)[k], used |-> FALSE]]
  BY DEF NewEntries, Entry
<1> HIDE DEF n
<1>4. \A k \in 1 .. n : InOrder(names)[k] \in names /\ InOrder(names)[k] \in N
  BY <1>2
<1>5. NewEntries(names) \in [1 .. n -> [node : N, used : BOOLEAN]]
  BY <1>3, <1>4
<1>6. NewEntries(names) \in Lists(N) /\ Len(NewEntries(names)) = n
  <2> DEFINE E == [node : N, used : BOOLEAN]
  <2>1. n \in Nat /\ NewEntries(names) \in [1 .. n -> E]
    BY <1>2, <1>5
  <2>2. Lists(N) = Seq(E)
    BY DEF Lists
  <2> HIDE DEF E
  <2>3. NewEntries(names) \in Seq(E) /\ Len(NewEntries(names)) = n
    BY <2>1, FunctionIsSeq
  <2> QED BY <2>2, <2>3
<1>7. \A k \in 1 .. n : NewEntries(names)[k].node = InOrder(names)[k]
  BY <1>3
<1> QED BY <1>2, <1>4, <1>6, <1>7 DEF n

(* Rebuilding keeps the entries of the nodes observed as they are and lists *)
(* no node twice.                                                           *)
LEMMA RebuildProperties ==
  ASSUME NEW N \in SUBSET Nat, NEW list \in Lists(N), Distinct(list),
         NEW observed \in SUBSET N, IsFiniteSet(observed)
  PROVE  /\ Rebuild(list, observed) \in Lists(N)
         /\ Distinct(Rebuild(list, observed))
         /\ \A i \in 1 .. Len(list) : list[i].node \in observed =>
              \E k \in 1 .. Len(Rebuild(list, observed)) : Rebuild(list, observed)[k] = list[i]
<1> DEFINE I == {i \in DOMAIN list : list[i].node \in observed}
           names == observed \ Names(list)
           r == Retained(list, observed)
           e == NewEntries(names)
           c == Cardinality(I)
           d == Cardinality(names)
<1>1. Len(list) \in Nat /\ DOMAIN list = 1 .. Len(list) /\ list \in Seq([node : N, used : BOOLEAN])
  BY NodesOfProperties DEF Lists
<1>2. I \in SUBSET (1 .. Len(list)) /\ r = Pick(list, I)
  BY <1>1 DEF Retained
<1>3. names \in SUBSET N /\ IsFiniteSet(names)
  BY FS_Difference
<1>4. Rebuild(list, observed) = r \o e
  BY DEF Rebuild
<1>5. \A i \in 1 .. Len(list) : list[i].node \in observed => i \in I
  BY <1>1
<1>6. \A i \in 1 .. Len(list) : list[i].node \notin names
  BY <1>1 DEF Names
<1> HIDE DEF I, names, r, e
<1>7. /\ c \in Nat /\ r \in Lists(N) /\ Len(r) = c
      /\ InOrder(I) \in [1 .. c -> I]
      /\ \A k \in 1 .. c : r[k] = list[InOrder(I)[k]]
  BY <1>1, <1>2, PickProperties DEF Lists
<1>8. \A k, l \in 1 .. c : InOrder(I)[k] = InOrder(I)[l] => k = l
  <2>1. I \in SUBSET Nat /\ IsFiniteSet(I)
    BY <1>1, <1>2, PickProperties
  <2> QED BY <2>1, InOrderProperties
<1>9. d \in Nat /\ e \in Lists(N) /\ Len(e) = d
  BY <1>3, NewEntriesProperties, FS_CardinalityType DEF e
<1>10. \A k \in 1 .. d : e[k].node \in names
  BY <1>3, NewEntriesProperties DEF e
<1>11. \A k, l \in 1 .. d : e[k].node = e[l].node => k = l
  BY <1>3, NewEntriesProperties DEF e
<1> HIDE DEF c, d
<1> DEFINE new == r \o e
<1>12. /\ new \in Lists(N) /\ Len(new) = c + d
       /\ \A k \in 1 .. c + d : new[k] = IF k <= c THEN r[k] ELSE e[k - c]
  BY <1>7, <1>9, ConcatProperties DEF Lists
<1> HIDE DEF new
<1>13. \A k \in 1 .. c + d : \/ k \in 1 .. c /\ new[k] = r[k]
                             \/ k - c \in 1 .. d /\ k > c /\ new[k] = e[k - c]
  BY <1>7, <1>9, <1>12
<1>14. \A k \in 1 .. c : r[k].node \notin names
  BY <1>2, <1>6, <1>7
<1>15. \A k, l \in 1 .. c : r[k].node = r[l].node => k = l
  <2>1. ASSUME NEW k \in 1 .. c, NEW l \in 1 .. c, r[k].node = r[l].node
        PROVE  InOrder(I)[k] = InOrder(I)[l]
    <3>1. InOrder(I)[k] \in DOMAIN list /\ InOrder(I)[l] \in DOMAIN list
      BY <1>1, <1>2, <1>7
    <3> QED BY <1>7, <2>1, <3>1 DEF Distinct
  <2> QED BY <1>8, <2>1
<1>16. Distinct(new)
  <2>1. ASSUME NEW k \in 1 .. c + d, NEW l \in 1 .. c + d, new[k].node = new[l].node
        PROVE  k = l
    <3>1. CASE k \in 1 .. c /\ new[k] = r[k]
      <4>1. l \in 1 .. c /\ new[l] = r[l]
        BY <1>10, <1>13, <1>14, <2>1, <3>1
      <4> QED BY <1>15, <2>1, <3>1, <4>1
    <3>2. CASE k - c \in 1 .. d /\ k > c /\ new[k] = e[k - c]
      <4>1. l - c \in 1 .. d /\ l > c /\ new[l] = e[l - c]
        BY <1>10, <1>13, <1>14, <2>1, <3>2
      <4>2. k - c = l - c
        BY <1>11, <2>1, <3>2, <4>1
      <4> QED BY <1>7, <4>2
    <3> QED BY <1>13, <3>1, <3>2
  <2>2. DOMAIN new = 1 .. c + d
    BY <1>12, NodesOfProperties
  <2> QED BY <2>1, <2>2 DEF Distinct
<1>17. ASSUME NEW i \in 1 .. Len(list), list[i].node \in observed
       PROVE  \E k \in 1 .. Len(new) : new[k] = list[i]
  <2>1. i \in I
    BY <1>5, <1>17
  <2>2. PICK k \in 1 .. c : Pick(list, I)[k] = list[i]
    BY <1>1, <1>2, <2>1, PickFinds DEF c
  <2>3. k \in 1 .. c + d /\ k <= c
    BY <1>7, <1>9
  <2>4. new[k] = list[i]
    BY <1>2, <1>12, <2>2, <2>3
  <2> QED BY <1>12, <2>3, <2>4
<1> QED BY <1>4, <1>12, <1>16, <1>17 DEF new

-----------------------------------------------------------------------------
Falling(f, n) == \A k, l \in 1 .. n : k < l <=> f[l] < f[k]
Covers(f, p, h, q) ==
  /\ p \in Nat /\ f \in [1 .. p -> Nat] /\ Falling(f, p)
  /\ q \in Nat /\ h \in [1 .. q -> Nat] /\ Falling(h, q)
  /\ \A k \in 1 .. q : \E l \in 1 .. p : f[l] = h[k]

(* Of two strictly decreasing sequences, one with every member of the other *)
(* has each of them at the same place or later.                             *)
LEMMA RankInLarger ==
  ASSUME NEW F, NEW p, NEW H, NEW q, Covers(F, p, H, q)
  PROVE  \A i \in 1 .. p, j \in 1 .. q : F[i] = H[j] => j <= i
<1> SUFFICES ASSUME NEW i \in 1 .. p, NEW j \in 1 .. q, F[i] = H[j] PROVE j <= i
  OBVIOUS
<1>0. /\ p \in Nat /\ F \in [1 .. p -> Nat] /\ Falling(F, p)
      /\ q \in Nat /\ H \in [1 .. q -> Nat] /\ Falling(H, q)
  BY DEF Covers
<1> DEFINE m == [k \in 1 .. j |-> CHOOSE l \in 1 .. p : F[l] = H[k]]
<1>1. ASSUME NEW k \in 1 .. j
      PROVE  m[k] \in 1 .. i /\ F[m[k]] = H[k]
  <2>1. k \in 1 .. q /\ ~(j < k)
    BY <1>0
  <2>2. m[k] \in 1 .. p /\ F[m[k]] = H[k]
    BY <2>1 DEF Covers
  <2>3. ~(H[k] < H[j])
    BY <1>0, <2>1 DEF Falling
  <2>4. ~(F[m[k]] < F[i])
    BY <1>0, <2>2, <2>3
  <2>5. ~(i < m[k])
    BY <1>0, <2>2, <2>4 DEF Falling
  <2> QED BY <1>0, <2>2, <2>5
<1>2. m \in [1 .. j -> 1 .. i]
  BY <1>1
<1> HIDE DEF m
<1>3. ASSUME NEW k \in 1 .. j, NEW l \in 1 .. j, m[k] = m[l]
      PROVE  k = l
  <2>1. H[k] = H[l] /\ k \in 1 .. q /\ l \in 1 .. q
    <3>1. F[m[k]] = H[k] /\ F[m[l]] = H[l]
      BY <1>1
    <3> QED BY <1>0, <1>3, <3>1
  <2>2. H[k] \in Nat /\ H[l] \in Nat
    BY <1>0, <2>1
  <2>3. ~(k < l) /\ ~(l < k)
    BY <1>0, <2>1, <2>2 DEF Falling
  <2> QED BY <2>1, <2>3
<1>4. m \in Injection(1 .. j, 1 .. i)
  BY <1>2, <1>3 DEF Injection, IsInjective
<1>5. /\ IsFiniteSet(1 .. i) /\ Cardinality(1 .. i) = i
      /\ IsFiniteSet(1 .. j) /\ Cardinality(1 .. j) = j
  <2>1. i \in Nat /\ j \in Nat
    BY <1>0
  <2> QED BY <2>1, PlacesAreFinite
<1>6. Cardinality(1 .. j) <= Cardinality(1 .. i)
  BY <1>4, <1>5, FS_Injection
<1> QED BY <1>0, <1>5, <1>6

(* The places picked, from the last one to the first, and the names there.  *)
Descending(I) == [k \in 1 .. Cardinality(I) |-> InOrder(I)[Cardinality(I) - k + 1]]

Descends(N, names, I, s) ==
  /\ Cardinality(I) \in Nat
  /\ Descending(I) \in [1 .. Cardinality(I) -> I]
  /\ Falling(Descending(I), Cardinality(I))
  /\ \A i \in I : \E k \in 1 .. Cardinality(I) : Descending(I)[k] = i
  /\ s \in Seq(N) /\ Len(s) = Cardinality(I)
  /\ \A k \in 1 .. Cardinality(I) : s[k] = names[Descending(I)[k]]

(* The members at some places of a list, last place first.                  *)
LEMMA DescendingProperties ==
  ASSUME NEW N, NEW names \in Seq(N), NEW I \in SUBSET (1 .. Len(names))
  PROVE  Descends(N, names, I, Reverse(Pick(names, I)))
<1> DEFINE n == Cardinality(I)
           up == InOrder(I)
           down == Descending(I)
<1>1. I \in SUBSET Nat /\ IsFiniteSet(I)
  <2>1. Len(names) \in Nat
    BY LenProperties
  <2>2. IsFiniteSet(1 .. Len(names))
    BY <2>1, PlacesAreFinite
  <2>3. IsFiniteSet(I)
    BY <2>2, FS_Subset
  <2> QED BY <2>1, <2>3
<1>2. n \in Nat /\ up \in [1 .. n -> I]
  BY <1>1, InOrderProperties
<1>3. \A k, l \in 1 .. n : k < l <=> up[k] < up[l]
  BY <1>1, InOrderProperties
<1>4. \A i \in I : \E k \in 1 .. n : up[k] = i
  BY <1>1, InOrderProperties
<1>5. down = [k \in 1 .. n |-> up[n - k + 1]]
  BY DEF Descending
<1>6. /\ Pick(names, I) \in Seq(N) /\ Len(Pick(names, I)) = n
      /\ \A k \in 1 .. n : Pick(names, I)[k] = names[up[k]]
  BY PickProperties
<1> HIDE DEF n, up, down
<1>7. \A k \in 1 .. n : n - k + 1 \in 1 .. n
  BY <1>2
<1>8. down \in [1 .. n -> I] /\ \A k \in 1 .. n : down[k] = up[n - k + 1]
  BY <1>2, <1>5, <1>7
<1>9. ASSUME NEW k \in 1 .. n, NEW l \in 1 .. n
      PROVE  k < l <=> down[l] < down[k]
  <2>1. k < l <=> n - l + 1 < n - k + 1
    BY <1>2
  <2> QED BY <1>3, <1>7, <1>8, <2>1
<1>10. ASSUME NEW i \in I
       PROVE  \E k \in 1 .. n : down[k] = i
  <2>1. PICK l \in 1 .. n : up[l] = i
    BY <1>4
  <2>2. n - l + 1 \in 1 .. n /\ n - (n - l + 1) + 1 = l
    BY <1>2
  <2> QED BY <1>8, <2>1, <2>2
<1>11. /\ Reverse(Pick(names, I)) \in Seq(N) /\ Len(Reverse(Pick(names, I))) = n
       /\ \A k \in 1 .. n : Reverse(Pick(names, I))[k] = Pick(names, I)[n - k + 1]
  BY <1>6, ReverseProperties
<1>12. \A k \in 1 .. n : Reverse(Pick(names, I))[k] = names[down[k]]
  BY <1>6, <1>7, <1>8, <1>11
<1> QED BY <1>2, <1>8, <1>9, <1>10, <1>11, <1>12 DEF n, up, down, Falling, Descends

(* Two reads of a list, the places of the second among those of the first:  *)
(* of the first read, highest place first, take as many as there are of the *)
(* first a members in G of the second.  The names taken that are in G and   *)
(* in the second read are among those.                                      *)
LEMMA ChosenAreRemovable ==
  ASSUME NEW N, NEW names \in Seq(N), \A i, j \in 1 .. Len(names) : names[i] = names[j] => i = j,
         NEW I \in SUBSET (1 .. Len(names)), NEW U \in SUBSET I, NEW G, NEW a \in Nat,
         NEW used, used = Reverse(Pick(names, U)),
         NEW removable, removable = AtMost(a, Pick(used, {k \in DOMAIN used : used[k] \in G})),
         NEW chosen, chosen = AtMost(Len(removable), Reverse(Pick(names, I))),
         NEW i \in 1 .. Len(chosen), chosen[i] \in G,
         NEW u \in U, names[u] = chosen[i]
  PROVE  chosen[i] \in ToSet(removable)
<1> DEFINE W == {k \in DOMAIN used : used[k] \in G}
           p == Cardinality(I)
           q == Cardinality(U)
           r == Cardinality(W)
<1>1. U \in SUBSET (1 .. Len(names))
  OBVIOUS
<1>2. /\ p \in Nat
      /\ Descending(I) \in [1 .. p -> I]
      /\ Falling(Descending(I), p)
      /\ \A x \in I : \E k \in 1 .. p : Descending(I)[k] = x
      /\ Reverse(Pick(names, I)) \in Seq(N)
      /\ Len(Reverse(Pick(names, I))) = p
      /\ \A k \in 1 .. p : Reverse(Pick(names, I))[k] = names[Descending(I)[k]]
  <2>1. Descends(N, names, I, Reverse(Pick(names, I)))
    BY DescendingProperties
  <2> QED BY <2>1 DEF Descends
<1>3. /\ q \in Nat
      /\ Descending(U) \in [1 .. q -> U]
      /\ Falling(Descending(U), q)
      /\ \A x \in U : \E k \in 1 .. q : Descending(U)[k] = x
      /\ used \in Seq(N)
      /\ Len(used) = q
      /\ \A k \in 1 .. q : used[k] = names[Descending(U)[k]]
  <2>1. Descends(N, names, U, used)
    BY <1>1, DescendingProperties
  <2> QED BY <2>1 DEF Descends
<1>4. DOMAIN used = 1 .. q
  BY <1>3, LenProperties
<1>5. W \in SUBSET (1 .. Len(used))
  BY <1>3, <1>4
<1>6. /\ r \in Nat /\ InOrder(W) \in [1 .. r -> W]
      /\ Pick(used, W) \in Seq(N) /\ Len(Pick(used, W)) = r
      /\ \A k \in 1 .. r : Pick(used, W)[k] = used[InOrder(W)[k]]
  <2> HIDE DEF W
  <2>1. used \in Seq(N) /\ Len(used) \in Nat
    BY <1>3, LenProperties
  <2>2. r \in 0 .. Len(used)
    BY <1>5, <2>1, PickProperties
  <2>3. r \in Nat
    BY <2>1, <2>2
  <2>4. /\ InOrder(W) \in [1 .. r -> W]
        /\ Pick(used, W) \in Seq(N) /\ Len(Pick(used, W)) = r
        /\ \A k \in 1 .. r : Pick(used, W)[k] = used[InOrder(W)[k]]
    BY <1>5, <2>1, PickProperties
  <2> QED BY <2>3, <2>4
<1>7. /\ \A k, l \in 1 .. r : k < l <=> InOrder(W)[k] < InOrder(W)[l]
      /\ \A x \in W : \E k \in 1 .. r : InOrder(W)[k] = x
  <2>1. W \in SUBSET Nat /\ IsFiniteSet(W)
    BY <1>3, <1>5, PickProperties
  <2> QED BY <2>1, InOrderProperties
<1>8. removable = AtMost(a, Pick(used, W))
  OBVIOUS
<1>9. \A k \in 1 .. q : used[k] \in G => k \in W
  BY <1>4
<1> HIDE DEF W, p, q, r
<1>10. /\ p \in Nat /\ q \in Nat /\ r \in Nat /\ Len(names) \in Nat
      /\ I \in SUBSET Nat /\ U \in SUBSET Nat
  BY <1>2, <1>3, <1>6, LenProperties
<1>11. /\ removable \in Seq(N) /\ Len(removable) \in 0 .. r
       /\ \A k \in 1 .. Len(removable) : removable[k] = Pick(used, W)[k]
  <2> DEFINE P == Pick(used, W)
  <2>1. P \in Seq(N) /\ Len(P) = r /\ removable = AtMost(a, P)
    BY <1>6, <1>8
  <2> HIDE DEF P
  <2>2. /\ AtMost(a, P) \in Seq(N) /\ Len(AtMost(a, P)) \in 0 .. Len(P)
        /\ \A k \in 1 .. Len(AtMost(a, P)) : AtMost(a, P)[k] = P[k]
    BY <2>1, AtMostProperties
  <2> QED BY <2>1, <2>2 DEF P
<1>12. /\ i \in 1 .. p /\ chosen[i] = Reverse(Pick(names, I))[i]
       /\ i <= Len(removable)
  <2>1. Len(removable) \in Nat
    BY <1>6, <1>11
  <2>2. /\ Len(chosen) = IF p < Len(removable) THEN p ELSE Len(removable)
        /\ i \in 1 .. p /\ chosen[i] = Reverse(Pick(names, I))[i]
    BY <1>2, <2>1, AtMostProperties
  <2> QED BY <1>2, <2>1, <2>2
<1>13. u = Descending(I)[i]
  <2>1. names[u] = names[Descending(I)[i]]
    BY <1>2, <1>12
  <2>2. Descending(I)[i] \in 1 .. Len(names) /\ u \in 1 .. Len(names)
    BY <1>2, <1>12
  <2> QED BY <2>1, <2>2
<1>14. PICK k \in 1 .. q : Descending(U)[k] = u
  BY <1>3
<1>15. used[k] = names[u] /\ k \in W
  BY <1>3, <1>9, <1>14
<1>16. PICK j \in 1 .. r : InOrder(W)[j] = k
  BY <1>7, <1>15
<1>17. \A l \in 1 .. r : InOrder(W)[l] \in 1 .. q /\ Descending(U)[InOrder(W)[l]] \in U
  <2>1. \A l \in 1 .. r : InOrder(W)[l] \in 1 .. q
    BY <1>3, <1>5, <1>6
  <2> QED BY <1>3, <2>1
<1> DEFINE H == [l \in 1 .. r |-> Descending(U)[InOrder(W)[l]]]
<1>18. H \in [1 .. r -> Nat] /\ \A l \in 1 .. r : H[l] = Descending(U)[InOrder(W)[l]]
  BY <1>10, <1>17
<1> HIDE DEF H
<1>19. Falling(H, r)
  BY <1>3, <1>7, <1>17, <1>18 DEF Falling
<1>20. Covers(Descending(I), p, H, r)
  <2>1. \A l \in 1 .. r : H[l] \in I
    BY <1>17, <1>18
  <2>2. Descending(I) \in [1 .. p -> Nat]
    BY <1>10, <1>2
  <2>3. p \in Nat /\ r \in Nat /\ Falling(Descending(I), p) /\ H \in [1 .. r -> Nat]
    BY <1>10, <1>2, <1>18
  <2> QED BY <1>2, <1>19, <2>1, <2>2, <2>3 DEF Covers
<1>21. Descending(I)[i] = H[j]
  BY <1>13, <1>14, <1>16, <1>18
<1>22. j <= i
  <2>1. \A x \in 1 .. p, y \in 1 .. r : Descending(I)[x] = H[y] => y <= x
    BY <1>20, RankInLarger
  <2> QED BY <1>12, <1>16, <1>21, <2>1
<1>23. j \in 1 .. Len(removable)
  BY <1>6, <1>11, <1>12, <1>22
<1>24. removable[j] = chosen[i]
  BY <1>6, <1>11, <1>15, <1>16, <1>23
<1>25. DOMAIN removable = 1 .. Len(removable)
  BY <1>11, LenProperties
<1> QED BY <1>23, <1>24, <1>25 DEF ToSet

-----------------------------------------------------------------------------
Entries == [slot : Slots, due : BOOLEAN]
Waiters == [node : Nodes, pc : WaiterPCs, cancelled : BOOLEAN]

Shaped ==
  /\ registry \in [Nodes -> Entries \cup {None}]
  /\ waiter \in [Slots -> Waiters \cup {None}]

(* RegistryEntriesAreLive, for one node.                                    *)
Leads(n) ==
  /\ waiter[registry[n].slot] # None
  /\ waiter[registry[n].slot].node = n
  /\ ~waiter[registry[n].slot].cancelled

RegistryInv == Shaped /\ \A n \in Nodes : registry[n] # None => Leads(n)

-----------------------------------------------------------------------------
(* None is not a goroutine.                                                 *)
LEMMA WaiterIsSome ==
  ASSUME NEW r \in Waiters
  PROVE  r # None
BY ScalingAssumption DEF Waiters, WaiterPCs

(* What the entry of a registered node leads to.                            *)
LEMMA EntryFields ==
  ASSUME RegistryInv, NEW n \in Nodes, registry[n] # None
  PROVE  /\ registry[n] \in Entries /\ registry[n].slot \in Slots
         /\ waiter[registry[n].slot] \in Waiters
         /\ waiter[registry[n].slot].node = n
         /\ ~waiter[registry[n].slot].cancelled
<1>1. registry[n] \in Entries /\ registry[n].slot \in Slots
  BY DEF RegistryInv, Shaped, Entries
<1>2. waiter[registry[n].slot] # None /\ waiter[registry[n].slot].node = n
      /\ ~waiter[registry[n].slot].cancelled
  BY DEF RegistryInv, Leads
<1> QED BY <1>1, <1>2 DEF RegistryInv, Shaped

(* A goroutine that goes on is still the goroutine of its node.             *)
LEMMA GotoKeeps ==
  ASSUME RegistryInv, NEW w \in Slots, waiter[w] # None, NEW pc \in WaiterPCs, Goto(w, pc),
         UNCHANGED registry
  PROVE  RegistryInv'
<1>1. waiter[w] \in Waiters
  BY DEF RegistryInv, Shaped
<1>2. waiter' = [waiter EXCEPT ![w] = [node |-> waiter[w].node, pc |-> pc,
                                       cancelled |-> waiter[w].cancelled]]
  <2>1. [waiter[w] EXCEPT !.pc = pc]
          = [node |-> waiter[w].node, pc |-> pc, cancelled |-> waiter[w].cancelled]
    BY <1>1 DEF Waiters
  <2>2. waiter' = [waiter EXCEPT ![w] = [waiter[w] EXCEPT !.pc = pc]]
    BY DEF Goto
  <2> QED BY <2>1, <2>2
<1>3. [node |-> waiter[w].node, pc |-> pc, cancelled |-> waiter[w].cancelled] \in Waiters
  BY <1>1 DEF Waiters
<1>4. Shaped'
  BY <1>2, <1>3 DEF RegistryInv, Shaped
<1>5. ASSUME NEW n \in Nodes, registry'[n] # None
      PROVE  Leads(n)'
  <2>1. CASE registry[n].slot = w
    BY <1>2, <1>3, <1>5, <2>1, EntryFields, WaiterIsSome DEF Leads, RegistryInv, Shaped
  <2>2. CASE registry[n].slot # w
    BY <1>2, <1>5, <2>2, EntryFields, WaiterIsSome DEF Leads, RegistryInv, Shaped
  <2> QED BY <2>1, <2>2
<1> QED BY <1>4, <1>5 DEF RegistryInv

-----------------------------------------------------------------------------
(* Cancelling a goroutine takes the only entry that leads to it.            *)
LEMMA StopKeeps ==
  ASSUME RegistryInv, NEW n, StopScaleInWaiter(n)
  PROVE  RegistryInv'
<1>1. CASE n \notin Registered
  <2>1. waiter' = waiter /\ registry' = registry
    BY <1>1 DEF StopScaleInWaiter, Registered, RegistryInv, Shaped
  <2> QED BY <2>1 DEF RegistryInv, Shaped, Leads
<1>2. CASE n \in Registered
  <2>1. n \in Nodes /\ registry[n] # None
    BY <1>2 DEF Registered
  <2> DEFINE s == registry[n].slot
             stopped == [waiter[s] EXCEPT !.cancelled = TRUE]
  <2>2. s \in Slots /\ waiter[s] \in Waiters /\ waiter[s].node = n
    BY <2>1, EntryFields
  <2>3. waiter' = [waiter EXCEPT ![s] = stopped]
    BY <1>2 DEF StopScaleInWaiter
  <2>4. stopped \in Waiters
    BY <2>2 DEF Waiters
  <2>5. registry' = [registry EXCEPT ![n] = None]
    BY DEF StopScaleInWaiter
  <2> HIDE DEF stopped
  <2>6. Shaped'
    BY <2>2, <2>3, <2>4, <2>5 DEF RegistryInv, Shaped
  <2>7. ASSUME NEW m \in Nodes, registry'[m] # None
        PROVE  Leads(m)'
    <3>1. m # n /\ registry'[m] = registry[m]
      BY <2>1, <2>5, <2>7 DEF RegistryInv, Shaped
    <3>2. registry[m].slot # s
      BY <2>2, <2>7, <3>1, EntryFields
    <3> QED BY <2>3, <2>7, <3>1, <3>2, EntryFields, WaiterIsSome DEF Leads, RegistryInv, Shaped
  <2> QED BY <2>6, <2>7 DEF RegistryInv
<1> QED BY <1>1, <1>2

(* A new goroutine and its entry.                                           *)
LEMMA StartKeeps ==
  ASSUME RegistryInv, NEW n \in Nodes, StartScaleInWaiter(n)
  PROVE  RegistryInv'
<1>1. CASE UNCHANGED <<registry, waiter>>
  BY <1>1 DEF RegistryInv, Shaped, Leads
<1>2. CASE ~UNCHANGED <<registry, waiter>>
  <2>1. PICK w \in Slots : /\ waiter[w] = None
                           /\ waiter' = [waiter EXCEPT ![w] = NewWaiter(n)]
                           /\ registry' = [registry EXCEPT ![n] = [slot |-> w, due |-> FALSE]]
    BY <1>2 DEF StartScaleInWaiter
  <2>2. NewWaiter(n) \in Waiters /\ NewWaiter(n).node = n /\ ~NewWaiter(n).cancelled
    BY DEF NewWaiter, Waiters, WaiterPCs
  <2>3. [slot |-> w, due |-> FALSE] \in Entries
    BY DEF Entries
  <2>4. Shaped'
    BY <2>1, <2>2, <2>3 DEF RegistryInv, Shaped
  <2>5. ASSUME NEW m \in Nodes, registry'[m] # None
        PROVE  Leads(m)'
    <3>1. CASE m = n
      BY <2>1, <2>2, <3>1, WaiterIsSome DEF Leads, RegistryInv, Shaped
    <3>2. CASE m # n
      <4>1. registry'[m] = registry[m]
        BY <2>1, <3>2 DEF RegistryInv, Shaped
      <4>2. registry[m].slot # w
        BY <2>1, <2>5, <4>1, EntryFields, WaiterIsSome
      <4> QED BY <2>1, <2>5, <4>1, <4>2, EntryFields, WaiterIsSome DEF Leads, RegistryInv, Shaped
    <3> QED BY <3>1, <3>2
  <2> QED BY <2>4, <2>5 DEF RegistryInv
<1> QED BY <1>1, <1>2

(* A goroutine that ends takes away the entry of its node, which is its own *)
(* or that of another goroutine of the same node.                           *)
LEMMA ExitKeeps ==
  ASSUME RegistryInv, NEW w \in Slots, Exit(w)
  PROVE  RegistryInv'
<1> DEFINE n == waiter[w].node
<1>1. n \in Nodes
  BY DEF Exit, Waiting, RegistryInv, Shaped, Waiters
<1>2. registry' = [registry EXCEPT ![n] = None] /\ waiter' = [waiter EXCEPT ![w] = None]
  BY DEF Exit, ClearScaleInWaiter
<1>3. Shaped'
  BY <1>1, <1>2 DEF RegistryInv, Shaped
<1>4. ASSUME NEW m \in Nodes, registry'[m] # None
      PROVE  Leads(m)'
  <2>1. m # n /\ registry'[m] = registry[m]
    BY <1>1, <1>2, <1>4 DEF RegistryInv, Shaped
  <2>2. registry[m].slot # w
    BY <1>4, <2>1, EntryFields
  <2> QED BY <1>2, <1>4, <2>1, <2>2, EntryFields, WaiterIsSome DEF Leads, RegistryInv, Shaped
<1> QED BY <1>3, <1>4 DEF RegistryInv

(* The force delay passes.                                                  *)
LEMMA ForceKeeps ==
  ASSUME RegistryInv, NEW n \in Nodes, ForceDelayElapses(n)
  PROVE  RegistryInv'
<1> DEFINE entry == [registry[n] EXCEPT !.due = TRUE]
<1>1. registry[n] \in Entries /\ registry[n] # None
  BY EntryFields DEF ForceDelayElapses
<1>2. registry' = [registry EXCEPT ![n] = entry] /\ waiter' = waiter
  BY DEF ForceDelayElapses
<1>3. entry \in Entries /\ entry.slot = registry[n].slot
  BY <1>1 DEF Entries
<1> HIDE DEF entry
<1>4. Shaped'
  BY <1>2, <1>3 DEF RegistryInv, Shaped
<1> QED BY <1>1, <1>2, <1>3, <1>4 DEF RegistryInv, Shaped, Leads

-----------------------------------------------------------------------------
(* The invariant is inductive.                                              *)
LEMMA RegistryInductive == RegistryInv /\ [Next]_vars => RegistryInv'
<1> SUFFICES ASSUME RegistryInv, [Next]_vars PROVE RegistryInv'
  OBVIOUS
<1>1. ASSUME UNCHANGED <<registry, waiter>> PROVE RegistryInv'
  BY <1>1 DEF RegistryInv, Shaped, Leads
<1>2. ASSUME ActivateNode PROVE RegistryInv'
  <2>1. CASE Head(main.todo) \in main.reuse
    BY <1>2, <2>1, StopKeeps DEF ActivateNode
  <2>2. CASE Head(main.todo) \notin main.reuse
    BY <1>1, <1>2, <2>2 DEF ActivateNode
  <2> QED BY <2>1, <2>2
<1>3. ASSUME ReserveNode PROVE RegistryInv'
  <2>1. CASE UNCHANGED <<registry, waiter>>
    BY <1>1, <2>1
  <2>2. CASE Head(main.todo) \in Up /\ StartScaleInWaiter(Head(main.todo))
    BY <2>2, StartKeeps DEF Up
  <2> QED BY <1>3, <2>1, <2>2 DEF ReserveNode
<1>4. CASE MainStep
  <2>1. ASSUME NEW A, A <=> (BeginScaleOut \/ MarkUsed \/ Replenish \/ RecordReplicas \/ BeginScaleIn), A
        PROVE  UNCHANGED <<registry, waiter>>
    BY <2>1 DEF BeginScaleOut, MarkUsed, Replenish, RecordReplicas, BeginScaleIn
  <2>2. ASSUME NEW A, A <=> (Shrink \/ EvaluateForReserve \/ TickSync \/ AutoEvaluate
                               \/ EnsureBaseline \/ FirstSync), A
        PROVE  UNCHANGED <<registry, waiter>>
    BY <2>2 DEF Shrink, EvaluateForReserve, TickSync, AutoEvaluate, EnsureBaseline, FirstSync
  <2> QED BY <1>1, <1>2, <1>3, <1>4, <2>1, <2>2 DEF MainStep
<1>5. ASSUME NEW w \in Slots, WaiterStep(w) PROVE RegistryInv'
  <2>1. CASE Exit(w)
    BY <2>1, ExitKeeps
  <2>2. CASE CheckReservation(w) \/ CheckPods(w) \/ MarkUnused(w) \/ Requeue(w) \/ SeeCancelled(w)
    <3>1. waiter[w] # None /\ UNCHANGED registry /\ \E pc \in WaiterPCs : Goto(w, pc)
      BY <2>2 DEF CheckReservation, CheckPods, MarkUnused, Requeue, SeeCancelled, Waiting, WaiterPCs
    <3> QED BY <3>1, GotoKeeps
  <2> QED BY <1>5, <2>1, <2>2 DEF WaiterStep
<1>6. CASE Crash
  <2>1. registry' = [n \in Nodes |-> None] /\ waiter' = [w \in Slots |-> None]
    BY <1>6 DEF Crash
  <2> QED BY <2>1 DEF RegistryInv, Shaped, Leads
<1>7. ASSUME NEW n \in Nodes, NodeRemoved(n) \/ Relabel(n) \/ PodArrives(n) \/ PodLeaves(n)
      PROVE  RegistryInv'
  BY <1>1, <1>7 DEF NodeRemoved, Relabel, PodArrives, PodLeaves, unchangedByCluster
<1>8. CASE RequestScaleOut \/ TriggerDelayElapses \/ NodeJoins \/ BaseLoadChanges
  BY <1>1, <1>8 DEF RequestScaleOut, TriggerDelayElapses, NodeJoins, BaseLoadChanges, unchangedByCluster
<1>9. CASE UNCHANGED vars
  BY <1>1, <1>9 DEF vars
<1> QED BY <1>4, <1>5, <1>6, <1>7, <1>8, <1>9, ForceKeeps DEF Next

(* The map is empty at the start.                                           *)
LEMMA RegistryInit == Init => RegistryInv
BY DEF Init, RegistryInv, Shaped, Leads

(* An entry of scaleInWaiters always leads to a goroutine that runs for its *)
(* node and has not been cancelled, although entries are deleted by the     *)
(* node's name and goroutines end in any order.                             *)
THEOREM RegistryCanBeTrusted == Safety => []RegistryEntriesAreLive
<1>1. RegistryInv => RegistryEntriesAreLive
  BY DEF RegistryInv, RegistryEntriesAreLive, Leads, Live
<1> QED BY <1>1, RegistryInit, RegistryInductive, PTL DEF Safety

-----------------------------------------------------------------------------
(* The types of everything, for any number of nodes and goroutines.         *)
Mains == [pc : MainPCs, todo : Seq(Nodes), reuse : SUBSET Nodes, count : Nat,
          removable : SUBSET Nodes]

(* The handlers that go through a list of nodes have one left to handle.    *)
WorkLeft == main.pc \in {"activate", "markUsed", "evaluate", "reserve"} => main.todo # <<>>

Typed ==
  /\ TypeOK /\ RegistryInv
  /\ main \in Mains /\ WorkLeft
  /\ inventory \in [nodes : Lists(Nodes), replicas : Nat] /\ Distinct(inventory.nodes)
  /\ IsFiniteSet(Up)

(* Which steps change what: everything else leaves the variable alone.      *)
WhoChanges ==
  /\ UNCHANGED status \/ NodeJoins \/ \E n \in Nodes : NodeRemoved(n)
  /\ \/ UNCHANGED marks \/ ActivateNode \/ ReserveNode \/ NodeJoins
     \/ \E n \in Nodes : NodeRemoved(n) \/ Relabel(n)
  /\ UNCHANGED pods \/ \E n \in Nodes : NodeRemoved(n) \/ PodArrives(n) \/ PodLeaves(n)
  /\ UNCHANGED baseFree \/ BaseLoadChanges
  /\ UNCHANGED replicas \/ Replenish \/ Shrink \/ EnsureBaseline
  /\ \/ UNCHANGED inventory \/ MarkUsed \/ RecordReplicas \/ TickSync \/ FirstSync
     \/ \E w \in Slots : MarkUnused(w)
  /\ UNCHANGED outQ \/ RequestScaleOut \/ BeginScaleOut \/ Crash
  /\ UNCHANGED inQ \/ BeginScaleIn \/ AutoEvaluate \/ Crash \/ \E w \in Slots : Requeue(w)
  /\ UNCHANGED main \/ MainStep \/ Crash
  /\ UNCHANGED trigger \/ MarkUsed \/ AutoEvaluate \/ TriggerDelayElapses \/ Crash

(* Every step is one of the actions that change what it changes.            *)
LEMMA StepsChange == [Next]_vars => WhoChanges
<1> SUFFICES ASSUME [Next]_vars PROVE WhoChanges
  OBVIOUS
<1>1. CASE MainStep
  <2>1. CASE BeginScaleOut \/ ActivateNode \/ MarkUsed \/ Replenish \/ RecordReplicas
    BY <1>1, <2>1 DEF WhoChanges, BeginScaleOut, ActivateNode, MarkUsed, Replenish, RecordReplicas,
                      cluster, bounds
  <2>2. CASE BeginScaleIn \/ Shrink \/ EvaluateForReserve \/ ReserveNode
    BY <1>1, <2>2 DEF WhoChanges, BeginScaleIn, Shrink, EvaluateForReserve, ReserveNode, cluster, bounds
  <2>3. CASE TickSync \/ AutoEvaluate \/ EnsureBaseline \/ FirstSync
    BY <1>1, <2>3 DEF WhoChanges, TickSync, AutoEvaluate, EnsureBaseline, FirstSync, cluster, bounds
  <2> QED BY <1>1, <2>1, <2>2, <2>3 DEF MainStep
<1>2. ASSUME NEW w \in Slots, WaiterStep(w) PROVE WhoChanges
  <2>1. CASE CheckReservation(w) \/ CheckPods(w) \/ SeeCancelled(w) \/ Exit(w)
    BY <2>1 DEF WhoChanges, CheckReservation, CheckPods, SeeCancelled, Exit, unchangedByWaiter,
                cluster, bounds
  <2>2. CASE MarkUnused(w) \/ Requeue(w)
    BY <2>2 DEF WhoChanges, MarkUnused, Requeue, unchangedByWaiter, cluster, bounds
  <2> QED BY <1>2, <2>1, <2>2 DEF WaiterStep
<1>3. ASSUME NEW n \in Nodes,
             ForceDelayElapses(n) \/ NodeRemoved(n) \/ Relabel(n) \/ PodArrives(n) \/ PodLeaves(n)
      PROVE  WhoChanges
  BY <1>3 DEF WhoChanges, ForceDelayElapses, NodeRemoved, Relabel, PodArrives, PodLeaves,
              unchangedByWaiter, unchangedByCluster, cluster, bounds
<1>4. CASE RequestScaleOut \/ TriggerDelayElapses \/ Crash \/ NodeJoins \/ BaseLoadChanges
  BY <1>4 DEF WhoChanges, RequestScaleOut, TriggerDelayElapses, Crash, NodeJoins, BaseLoadChanges,
              unchangedByCluster, cluster, bounds
<1>5. CASE UNCHANGED vars
  BY <1>5 DEF vars, WhoChanges
<1> QED BY <1>1, <1>2, <1>3, <1>4, <1>5 DEF Next

(* The machines there are can be counted, and so can those with room.       *)
LEMMA FewMachines ==
  ASSUME Typed
  PROVE  Cardinality(Up) \in Nat /\ Available \in Nat /\ IsFiniteSet(Observed)
         /\ Observed \in SUBSET Nodes
<1> DEFINE free == {n \in Nodes : Schedulable(n) /\ ~pods[n]}
<1>1. free \in SUBSET Up /\ Observed \in SUBSET Up /\ Observed \in SUBSET Nodes
  BY DEF Schedulable, Up, Observed
<1> HIDE DEF free
<1>2. IsFiniteSet(free) /\ IsFiniteSet(Observed) /\ IsFiniteSet(Up)
  BY <1>1, FS_Subset DEF Typed
<1>3. Cardinality(free) \in Nat /\ Cardinality(Up) \in Nat
  BY <1>2, FS_CardinalityType
<1>4. baseFree \in Nat
  BY ScalingAssumption DEF Typed, TypeOK
<1> QED BY <1>1, <1>2, <1>3, <1>4 DEF Available, free

(* Every selection is a list of nodes, no longer than asked for.            *)
LEMMA SelectionsAreNodes ==
  ASSUME Typed, NEW k \in Nat
  PROVE  /\ ReusableWaiters(k) \in Seq(Nodes) /\ Len(ReusableWaiters(k)) \in 0 .. k
         /\ FindUnused(inventory.nodes, k) \in Seq(Nodes)
         /\ FindHighestUsed(inventory.nodes, k) \in Seq(Nodes)
         /\ RemovableNodes \in Seq(Nodes)
<1> DEFINE used == UsedNodes(inventory.nodes)
           spares == UnusedNodes(inventory.nodes)
<1>1. used \in Seq(Nodes) /\ spares \in Seq(Nodes)
  BY CountsAddUp DEF Typed
<1>2. Reverse(used) \in Seq(Nodes)
  BY <1>1, ReverseProperties
<1> HIDE DEF used, spares
<1> DEFINE R(s) == {i \in DOMAIN s : s[i] \in Registered}
           C(s) == {i \in DOMAIN s : Schedulable(s[i])}
<1>3. Pick(used, R(used)) \in Seq(Nodes)
  <2>1. R(used) \in SUBSET (1 .. Len(used))
    BY <1>1, LenProperties
  <2> QED BY <1>1, <2>1, PickProperties
<1>4. Pick(Reverse(used), C(Reverse(used))) \in Seq(Nodes)
  <2>1. C(Reverse(used)) \in SUBSET (1 .. Len(Reverse(used)))
    BY <1>2, LenProperties
  <2> QED BY <1>2, <2>1, PickProperties
<1>5. ReusableWaiters(k) = AtMost(k, Pick(used, R(used)))
  BY DEF ReusableWaiters, used
<1>6. RemovableNodes = AtMost(Available, Pick(Reverse(used), C(Reverse(used))))
  BY DEF RemovableNodes, used
<1>7. FindUnused(inventory.nodes, k) = AtMost(k, spares)
  BY DEF FindUnused, spares
<1>8. FindHighestUsed(inventory.nodes, k) = AtMost(k, Reverse(used))
  BY DEF FindHighestUsed, used
<1> HIDE DEF R, C
<1>9. AtMost(k, Pick(used, R(used))) \in Seq(Nodes)
  BY <1>3, AtMostProperties
<1>10. Len(AtMost(k, Pick(used, R(used)))) \in 0 .. k
  <2>1. Len(Pick(used, R(used))) \in Nat
    BY <1>3, LenProperties
  <2>2. Len(AtMost(k, Pick(used, R(used))))
          = IF Len(Pick(used, R(used))) < k THEN Len(Pick(used, R(used))) ELSE k
    BY <1>3, AtMostProperties
  <2> QED BY <2>1, <2>2
<1>11. AtMost(k, spares) \in Seq(Nodes) /\ AtMost(k, Reverse(used)) \in Seq(Nodes)
  BY <1>1, <1>2, AtMostProperties
<1>12. AtMost(Available, Pick(Reverse(used), C(Reverse(used)))) \in Seq(Nodes)
  BY <1>4, AtMostProperties, FewMachines
<1> QED BY <1>5, <1>6, <1>7, <1>8, <1>9, <1>10, <1>11, <1>12

(* What a list mentions are nodes.                                          *)
LEMMA MembersAreNodes ==
  ASSUME NEW s \in Seq(Nodes)
  PROVE  ToSet(s) \in SUBSET Nodes
BY LenProperties, ElementOfSeq DEF ToSet

-----------------------------------------------------------------------------
(* The cluster.                                                             *)
LEMMA ClusterTyped ==
  ASSUME Typed, WhoChanges
  PROVE  /\ status' \in [Nodes -> {"unborn", "up", "gone"}]
         /\ marks' \in [Nodes -> SUBSET Marks]
         /\ pods' \in [Nodes -> BOOLEAN]
         /\ baseFree' \in 0 .. BaseFree
         /\ IsFiniteSet(Up')
<1>1. /\ status \in [Nodes -> {"unborn", "up", "gone"}] /\ marks \in [Nodes -> SUBSET Marks]
      /\ pods \in [Nodes -> BOOLEAN] /\ baseFree \in 0 .. BaseFree
  BY DEF Typed, TypeOK
<1>2. status' \in [Nodes -> {"unborn", "up", "gone"}]
  BY <1>1 DEF WhoChanges, NodeJoins, NodeRemoved
<1>3. marks' \in [Nodes -> SUBSET Marks]
  BY <1>1 DEF WhoChanges, ActivateNode, ReserveNode, NodeJoins, NodeRemoved, Relabel, Marks
<1>4. pods' \in [Nodes -> BOOLEAN]
  BY <1>1 DEF WhoChanges, NodeRemoved, PodArrives, PodLeaves
<1>5. baseFree' \in 0 .. BaseFree
  BY <1>1 DEF WhoChanges, BaseLoadChanges
<1>6. IsFiniteSet(Up')
  <2>1. CASE UNCHANGED status
    BY <2>1 DEF Typed, Up
  <2>2. CASE NodeJoins
    <3>1. PICK n \in Nodes : status' = [status EXCEPT ![n] = "up"]
      BY <2>2 DEF NodeJoins
    <3>2. Up' = Up \cup {n}
      BY <1>1, <3>1 DEF Up
    <3> QED BY <3>2, FS_AddElement DEF Typed
  <2>3. ASSUME NEW n \in Nodes, NodeRemoved(n) PROVE IsFiniteSet(Up')
    <3>1. Up' = Up \ {n}
      BY <1>1, <2>3 DEF Up, NodeRemoved
    <3> QED BY <3>1, FS_RemoveElement DEF Typed
  <2> QED BY <2>1, <2>2, <2>3 DEF WhoChanges
<1> QED BY <1>2, <1>3, <1>4, <1>5, <1>6

(* The counters and the trigger.                                            *)
LEMMA CountersTyped ==
  ASSUME Typed, WhoChanges
  PROVE  /\ replicas' \in Nat
         /\ outQ' \in 0 .. QueueCap /\ inQ' \in 0 .. QueueCap
         /\ trigger' \in {"unset", "armed", "due"}
<1>1. /\ replicas \in Nat /\ outQ \in 0 .. QueueCap /\ inQ \in 0 .. QueueCap
      /\ trigger \in {"unset", "armed", "due"} /\ main.count \in Nat
  BY DEF Typed, TypeOK
<1>2. replicas' \in Nat
  BY <1>1, ScalingAssumption DEF WhoChanges, Replenish, ScaleOutTarget, Smaller, Shrink, ScaleInTarget,
                                 Bigger, EnsureBaseline
<1>3. outQ' \in 0 .. QueueCap
  BY <1>1, ScalingAssumption DEF WhoChanges, RequestScaleOut, BeginScaleOut, Crash
<1>4. inQ' \in 0 .. QueueCap
  BY <1>1, ScalingAssumption DEF WhoChanges, BeginScaleIn, AutoEvaluate, Crash, Requeue, EnqueueScaleIn
<1>5. trigger' \in {"unset", "armed", "due"}
  BY <1>1 DEF WhoChanges, MarkUsed, AutoEvaluate, TriggerDelayElapses, Crash
<1> QED BY <1>2, <1>3, <1>4, <1>5

(* The inventory: no step lists a node twice.                               *)
LEMMA InventoryTyped ==
  ASSUME Typed, WhoChanges
  PROVE  inventory' \in [nodes : Lists(Nodes), replicas : Nat] /\ Distinct(inventory'.nodes)
<1> DEFINE Sound(o) == o \in [nodes : Lists(Nodes), replicas : Nat] /\ Distinct(o.nodes)
<1> SUFFICES Sound(inventory')
  OBVIOUS
<1>1. Sound(inventory) /\ replicas \in Nat /\ inventory.nodes \in Lists(Nodes)
  BY DEF Typed, TypeOK
<1>2. ASSUME NEW n, NEW used \in BOOLEAN,
             inventory' = [inventory EXCEPT !.nodes = SetUsage(@, n, used)]
      PROVE  Sound(inventory')
  <2>1. SetUsage(inventory.nodes, n, used) \in Lists(Nodes)
        /\ Distinct(SetUsage(inventory.nodes, n, used))
    BY <1>1, SetUsageProperties, SetUsageKeepsNames
  <2> QED BY <1>1, <1>2, <2>1
<1>3. ASSUME inventory' = [inventory EXCEPT !.replicas = replicas] PROVE Sound(inventory')
  BY <1>1, <1>3
<1>4. ASSUME SyncInventory PROVE Sound(inventory')
  <2>1. CASE UNCHANGED inventory
    BY <1>1, <2>1
  <2>2. CASE inventory' = [nodes |-> Rebuild(inventory.nodes, Observed), replicas |-> replicas]
    <3>1. Rebuild(inventory.nodes, Observed) \in Lists(Nodes)
          /\ Distinct(Rebuild(inventory.nodes, Observed))
      BY <1>1, RebuildProperties, FewMachines, ScalingAssumption
    <3> QED BY <1>1, <2>2, <3>1
  <2> QED BY <1>4, <2>1, <2>2 DEF SyncInventory
<1>5. TRUE \in BOOLEAN /\ FALSE \in BOOLEAN
  OBVIOUS
<1> HIDE DEF Sound
<1>6. CASE MarkUsed
  <2>1. UNCHANGED inventory \/ \E n : inventory' = [inventory EXCEPT !.nodes = SetUsage(@, n, TRUE)]
    BY <1>6 DEF MarkUsed
  <2> QED BY <1>1, <1>2, <1>5, <2>1, Zenon
<1>7. ASSUME NEW w \in Slots, MarkUnused(w) PROVE Sound(inventory')
  <2>1. UNCHANGED inventory \/ \E n : inventory' = [inventory EXCEPT !.nodes = SetUsage(@, n, FALSE)]
    BY <1>7 DEF MarkUnused
  <2> QED BY <1>1, <1>2, <1>5, <2>1, Zenon
<1>8. CASE TickSync \/ FirstSync \/ RecordReplicas \/ UNCHANGED inventory
  BY <1>1, <1>3, <1>4, <1>8 DEF TickSync, FirstSync, RecordReplicas
<1> QED BY <1>6, <1>7, <1>8 DEF WhoChanges

(* The Run goroutine.                                                       *)
LEMMA AtTyped ==
  ASSUME NEW pc \in MainPCs
  PROVE  At(pc) \in Mains /\ At(pc).pc = pc /\ At(pc).todo = <<>>
<1>1. <<>> \in Seq(Nodes) /\ {} \in SUBSET Nodes /\ 0 \in Nat
  BY EmptySeq
<1> QED BY <1>1 DEF At, Mains

(* The Run goroutine moves between its program points with node lists that  *)
(* are not empty where it takes their head.                                 *)
LEMMA MainTyped ==
  ASSUME Typed, WhoChanges
  PROVE  main' \in Mains /\ WorkLeft'
<1> DEFINE Sound(m) == m \in Mains /\ (m.pc \in {"activate", "markUsed", "evaluate", "reserve"} => m.todo # <<>>)
<1> SUFFICES Sound(main')
  BY DEF WorkLeft
<1>1. Sound(main) /\ main \in Mains
  BY DEF Typed, WorkLeft
<1>2. ASSUME NEW pc \in MainPCs \ {"activate", "markUsed", "evaluate", "reserve"} PROVE Sound(At(pc))
  BY AtTyped
<1>3. Sound(Idle) /\ Sound(At("record")) /\ Sound(At("autoEvaluate")) /\ Sound(At("baseline"))
      /\ Sound(At("firstSync"))
  BY <1>2 DEF Idle, MainPCs
<1>4. inventory.nodes \in Lists(Nodes) /\ inventory.replicas \in Nat
  BY DEF Typed
<1>5. main.todo # <<>> => /\ Tail(main.todo) \in Seq(Nodes)
                          /\ Head(main.todo) \in Nodes
  BY <1>1, HeadTailProperties DEF Mains
<1>6. CASE BeginScaleOut
  <2> DEFINE reuse == ReusableWaiters(ActivatedSpares)
             spares == FindUnused(inventory.nodes, ActivatedSpares - Len(reuse))
             todo == reuse \o spares
             count == ReplenishCount(Len(spares))
             m == [pc |-> "activate", todo |-> todo, reuse |-> ToSet(reuse), count |-> count,
                   removable |-> {}]
  <2>1. reuse \in Seq(Nodes) /\ Len(reuse) \in 0 .. ActivatedSpares
    BY SelectionsAreNodes, ScalingAssumption
  <2>2. ActivatedSpares - Len(reuse) \in Nat
    BY <2>1, ScalingAssumption
  <2>3. spares \in Seq(Nodes)
    BY <2>2, SelectionsAreNodes
  <2> HIDE DEF reuse, spares
  <2>4. todo \in Seq(Nodes) /\ Len(spares) \in Nat
    BY <2>1, <2>3, ConcatProperties, LenProperties
  <2>5. count \in Nat
    BY <1>4, <2>4, ScalingAssumption DEF ReplenishCount, Bigger
  <2>6. ToSet(reuse) \in SUBSET Nodes
    BY <2>1, MembersAreNodes
  <2> HIDE DEF todo, count
  <2>7. m \in Mains /\ m.todo = todo
    BY <2>4, <2>5, <2>6 DEF Mains, MainPCs
  <2>8. main' = Idle \/ (todo # <<>> /\ main' = m)
    BY <1>6 DEF BeginScaleOut, At, todo, count, reuse, spares
  <2> HIDE DEF m
  <2> QED BY <1>3, <2>7, <2>8
<1>7. CASE ActivateNode
  <2>1. main' = Idle \/ (main.pc = "activate" /\ main' = [main EXCEPT !.pc = "markUsed"])
    BY <1>7 DEF ActivateNode
  <2> QED BY <1>1, <1>3, <2>1 DEF Mains, MainPCs
<1>8. CASE MarkUsed
  <2> DEFINE rest == Tail(main.todo)
             m == [main EXCEPT !.todo = rest, !.pc = IF rest = <<>> THEN "replenish" ELSE "activate"]
  <2>1. main' = Idle \/ main' = m
    BY <1>8 DEF MarkUsed
  <2>2. rest \in Seq(Nodes)
    BY <1>1, <1>5, <1>8 DEF MarkUsed
  <2> HIDE DEF rest
  <2>3. m \in Mains /\ m.todo = rest /\ m.pc = IF rest = <<>> THEN "replenish" ELSE "activate"
    BY <1>1, <2>2 DEF Mains, MainPCs
  <2> HIDE DEF m
  <2> QED BY <1>3, <2>1, <2>3
<1>9. CASE Replenish \/ RecordReplicas \/ Shrink
  BY <1>3, <1>9 DEF Replenish, RecordReplicas, Shrink
<1>10. CASE BeginScaleIn
  <2> DEFINE excess == SpareExcess(inventory.nodes)
             used == CountUsed(inventory.nodes)
             m == [pc |-> "shrink", todo |-> <<>>, reuse |-> {}, count |-> excess, removable |-> {}]
             e == [pc |-> "evaluate", todo |-> FindHighestUsed(inventory.nodes, used), reuse |-> {},
                   count |-> 0, removable |-> {}]
  <2>1. used \in Nat /\ excess \in Int
    BY <1>4, CountsAddUp, ScalingAssumption DEF SpareExcess
  <2>2. FindHighestUsed(inventory.nodes, used) \in Seq(Nodes)
    BY <2>1, SelectionsAreNodes
  <2>3. main' = Idle \/ (used > 0 /\ main' = e) \/ (excess > 0 /\ main' = m)
    BY <1>10 DEF BeginScaleIn, At
  <2>4. <<>> \in Seq(Nodes)
    BY EmptySeq
  <2>5. used > 0 => e \in Mains /\ e.todo # <<>>
    <3>1. Len(e.todo) = used
      BY <1>4, AllUsedFound
    <3>2. Len(<<>>) = 0
      BY EmptySeq
    <3> QED BY <2>2, <3>1, <3>2 DEF Mains, MainPCs
  <2> HIDE DEF excess, used
  <2>6. excess > 0 => m \in Mains /\ m.pc = "shrink"
    BY <2>1, <2>4 DEF Mains, MainPCs
  <2> HIDE DEF e, m
  <2> QED BY <1>3, <2>3, <2>5, <2>6
<1>11. CASE EvaluateForReserve
  <2> DEFINE todo == ReserveCandidates(main.todo, RemovableNodes)
             m == [pc |-> "reserve", todo |-> todo, reuse |-> {}, count |-> 0,
                   removable |-> ToSet(RemovableNodes)]
  <2>1. main' = Idle \/ (RemovableNodes # <<>> /\ main.todo # <<>> /\ main' = m)
    BY <1>1, <1>11 DEF EvaluateForReserve, At
  <2>2. RemovableNodes \in Seq(Nodes)
    BY SelectionsAreNodes
  <2>3. Len(RemovableNodes) \in Nat
    BY <2>2, LenProperties
  <2>4. todo \in Seq(Nodes)
    BY <1>1, <2>3, AtMostProperties DEF Mains, ReserveCandidates
  <2>5. ToSet(RemovableNodes) \in SUBSET Nodes
    BY <2>2, MembersAreNodes
  <2>6. RemovableNodes # <<>> /\ main.todo # <<>> => todo # <<>>
    <3>1. main.todo \in Seq(Nodes)
      BY <1>1 DEF Mains
    <3>2. RemovableNodes # <<>> /\ main.todo # <<>> => Len(RemovableNodes) > 0 /\ Len(main.todo) > 0
      BY <2>2, <3>1, EmptySeq
    <3>3. Len(todo) = IF Len(main.todo) < Len(RemovableNodes) THEN Len(main.todo)
                                                              ELSE Len(RemovableNodes)
      BY <2>3, <3>1, AtMostProperties DEF ReserveCandidates
    <3> QED BY <3>2, <3>3, EmptySeq
  <2> HIDE DEF todo
  <2>7. m \in Mains /\ m.todo = todo
    BY <2>4, <2>5 DEF Mains, MainPCs
  <2> HIDE DEF m
  <2> QED BY <1>3, <2>1, <2>6, <2>7
<1>12. CASE ReserveNode
  <2>1. \/ main' = Idle
        \/ Tail(main.todo) # <<>> /\ main' = [main EXCEPT !.todo = Tail(main.todo)]
    BY <1>12 DEF ReserveNode
  <2>2. Tail(main.todo) \in Seq(Nodes)
    BY <1>1, <1>5, <1>12 DEF ReserveNode
  <2> QED BY <1>1, <1>3, <2>1, <2>2 DEF Mains
<1>13. CASE TickSync \/ AutoEvaluate \/ EnsureBaseline \/ FirstSync \/ Crash
  BY <1>3, <1>13 DEF TickSync, AutoEvaluate, EnsureBaseline, FirstSync, Crash
<1>14. CASE UNCHANGED main
  BY <1>1, <1>14
<1> QED BY <1>6, <1>7, <1>8, <1>9, <1>10, <1>11, <1>12, <1>13, <1>14 DEF WhoChanges, MainStep

(* Typed is inductive.                                                      *)
LEMMA TypedInductive == Typed /\ [Next]_vars => Typed'
<1> SUFFICES ASSUME Typed, [Next]_vars PROVE Typed'
  OBVIOUS
<1>1. WhoChanges /\ RegistryInv'
  BY StepsChange, RegistryInductive DEF Typed
<1>2. main' \in Mains /\ WorkLeft'
  BY <1>1, MainTyped
<1>3. inventory' \in [nodes : Lists(Nodes), replicas : Nat] /\ Distinct(inventory'.nodes)
  BY <1>1, InventoryTyped
<1>4. /\ main'.pc \in MainPCs /\ main'.todo \in Seq(Nodes)
      /\ main'.reuse \subseteq Nodes /\ main'.removable \subseteq Nodes /\ main'.count \in Nat
  BY <1>2 DEF Mains
<1>5. inventory'.replicas \in Nat /\ inventory'.nodes \in Seq([node : Nodes, used : BOOLEAN])
  BY <1>3 DEF Lists
<1>6. /\ registry' \in [Nodes -> [slot : Slots, due : BOOLEAN] \cup {None}]
      /\ waiter' \in [Slots -> [node : Nodes, pc : WaiterPCs, cancelled : BOOLEAN] \cup {None}]
  BY <1>1 DEF RegistryInv, Shaped, Entries, Waiters
<1>7. TypeOK' /\ IsFiniteSet(Up)'
  BY <1>1, <1>4, <1>5, <1>6, ClusterTyped, CountersTyped DEF TypeOK
<1> QED BY <1>1, <1>2, <1>3, <1>7 DEF Typed

(* The controller starts well typed.                                        *)
LEMMA TypedInit == Init => Typed
<1> SUFFICES ASSUME Init PROVE Typed
  OBVIOUS
<1>1. RegistryInv
  BY RegistryInit
<1>2. main \in Mains /\ main.pc = "baseline"
  BY AtTyped DEF Init, MainPCs
<1>3. inventory \in [nodes : Lists(Nodes), replicas : Nat] /\ Distinct(inventory.nodes)
  <2>1. <<>> \in Lists(Nodes) /\ DOMAIN <<>> = {}
    BY EmptySeq DEF Lists
  <2> QED BY <2>1 DEF Init, Distinct
<1>4. IsFiniteSet(Up)
  <2>1. Up = {}
    BY DEF Init, Up
  <2> QED BY <2>1, FS_EmptySet
<1>5. /\ registry \in [Nodes -> [slot : Slots, due : BOOLEAN] \cup {None}]
      /\ waiter \in [Slots -> [node : Nodes, pc : WaiterPCs, cancelled : BOOLEAN] \cup {None}]
  BY <1>1 DEF RegistryInv, Shaped, Entries, Waiters
<1>6. TypeOK
  BY <1>2, <1>3, <1>5, ScalingAssumption DEF TypeOK, Init, Mains, Lists
<1> QED BY <1>1, <1>2, <1>3, <1>4, <1>6 DEF Typed, WorkLeft

(* So it stays well typed.                                                  *)
LEMMA AlwaysTyped == Safety => []Typed
BY TypedInit, TypedInductive, PTL DEF Safety

(* Whatever joins, leaves, fails and restarts, every variable keeps its     *)
(* type: the queues stay within their capacity and the counts stay natural  *)
(* numbers although they are differences.                                   *)
THEOREM TypesAreRight == Safety => []TypeOK
<1>1. Typed => TypeOK
  BY DEF Typed
<1> QED BY <1>1, AlwaysTyped, PTL

(* A node is listed once in the inventory, however often it drops out of    *)
(* what is observed and comes back.                                         *)
THEOREM NodesListedOnce == Safety => []NoDuplicateEntries
<1>1. Typed => NoDuplicateEntries
  BY DistinctCounts DEF Typed, NoDuplicateEntries
<1> QED BY <1>1, AlwaysTyped, PTL

-----------------------------------------------------------------------------
(* Replenishing spares raises the manifest up to MaxNodes at most, whatever *)
(* the inventory recorded when the spares were counted.                     *)
THEOREM RaisesAreCapped == Safety => RaisesWithinMax
<1>1. Typed /\ [Next]_vars
        => [main.pc = "replenish" /\ replicas <= MaxNodes => replicas' \in replicas .. MaxNodes]_vars
  <2> SUFFICES ASSUME Typed, [Next]_vars, main.pc = "replenish", replicas <= MaxNodes
               PROVE  replicas' \in replicas .. MaxNodes
    OBVIOUS
  <2>1. replicas \in Nat /\ main.count \in Nat /\ MaxNodes \in Nat
    BY ScalingAssumption DEF Typed, TypeOK
  <2>2. UNCHANGED replicas \/ Replenish
    BY StepsChange DEF WhoChanges, Shrink, EnsureBaseline
  <2> QED BY <2>1, <2>2 DEF Replenish, ScaleOutTarget, Smaller
<1> QED BY <1>1, AlwaysTyped, PTL DEF Safety, RaisesWithinMax

(* A node that carries a scaling mark is still in use after the node list   *)
(* has been rebuilt from the nodes observed.                                *)
THEOREM RebuildKeepsUse == Safety => SyncPreservesUse
<1>1. ASSUME Typed, [Next]_vars, NEW n \in Up, main.pc = "idle", main'.pc = "autoEvaluate",
             HasScalingRole(n), IsUsed(n)
      PROVE  IsUsed(n)'
  <2>1. inventory.nodes \in Lists(Nodes) /\ DOMAIN inventory.nodes = 1 .. Len(inventory.nodes)
    BY <1>1, NodesOfProperties DEF Typed
  <2>2. PICK i \in 1 .. Len(inventory.nodes) : inventory.nodes[i] = [node |-> n, used |-> TRUE]
    BY <1>1, <2>1 DEF IsUsed, ToSet
  <2>3. UNCHANGED inventory \/ SyncInventory
    BY <1>1, StepsChange DEF WhoChanges, MarkUsed, RecordReplicas, TickSync, FirstSync, MarkUnused,
                             unchangedByWaiter
  <2>4. CASE UNCHANGED inventory
    BY <1>1, <2>4 DEF IsUsed
  <2>5. CASE inventory' = [nodes |-> Rebuild(inventory.nodes, Observed), replicas |-> replicas]
    <3> DEFINE new == Rebuild(inventory.nodes, Observed)
    <3>1. n \in Observed
      BY <1>1 DEF Observed
    <3>2. new \in Lists(Nodes) /\ \E k \in 1 .. Len(new) : new[k] = inventory.nodes[i]
      <4>1. /\ Nodes \in SUBSET Nat /\ Observed \in SUBSET Nodes /\ IsFiniteSet(Observed)
            /\ Distinct(inventory.nodes) /\ inventory.nodes[i].node \in Observed
        BY <1>1, <2>2, <3>1, FewMachines, ScalingAssumption DEF Typed
      <4> QED BY <2>1, <4>1, RebuildProperties
    <3> HIDE DEF new
    <3>3. DOMAIN new = 1 .. Len(new)
      BY <3>2, NodesOfProperties
    <3> QED BY <2>2, <2>5, <3>2, <3>3 DEF IsUsed, ToSet, new
  <2> QED BY <2>3, <2>4, <2>5 DEF SyncInventory
<1>2. Typed /\ [Next]_vars
        => [\A n \in Up : main.pc = "idle" /\ main'.pc = "autoEvaluate" /\ HasScalingRole(n) /\ IsUsed(n)
              => IsUsed(n)']_vars
  BY <1>1
<1> QED BY <1>2, AlwaysTyped, PTL DEF Safety, SyncPreservesUse

-----------------------------------------------------------------------------
(* Scale-in.  What the Run goroutine remembers while it waits for the API   *)
(* still holds of the inventory, which waiters change meanwhile.            *)

(* The excess of spares that was counted is still there.                    *)
ShrinkIsSafe == main.pc = "shrink" => main.count <= CountUnused(inventory.nodes) - PreparedSpares

(* The used nodes of the first read, last one first, cover those there are. *)
FirstReadCovers ==
  main.pc = "evaluate" =>
    \E I \in SUBSET (1 .. Len(inventory.nodes)) :
      /\ UsedAt(inventory.nodes) \subseteq I
      /\ main.todo = Reverse(Pick(NodesOf(inventory.nodes), I))

(* The nodes still to reserve were found removable, or are no longer in use *)
(* or schedulable.                                                          *)
ReserveIsSafe ==
  main.pc = "reserve" =>
    \A i \in DOMAIN main.todo :
      Schedulable(main.todo[i]) /\ IsUsed(main.todo[i]) => main.todo[i] \in main.removable

ScaleInInv == Typed /\ ShrinkIsSafe /\ FirstReadCovers /\ ReserveIsSafe

(* While the Run goroutine scales in, the node list only loses uses.        *)
LEMMA OnlyMarkedUnused ==
  ASSUME Typed, WhoChanges, main.pc \in {"shrink", "evaluate", "reserve"}
  PROVE  UNCHANGED inventory \/ \E n : inventory'.nodes = SetUsage(inventory.nodes, n, FALSE)
<1>1. inventory \in [nodes : Lists(Nodes), replicas : Nat]
  BY DEF Typed
<1>2. UNCHANGED inventory \/ \E w \in Slots : MarkUnused(w)
  BY DEF WhoChanges, MarkUsed, RecordReplicas, TickSync, FirstSync
<1>3. ASSUME NEW w \in Slots, MarkUnused(w)
      PROVE  UNCHANGED inventory \/ \E n : inventory' = [inventory EXCEPT !.nodes = SetUsage(@, n, FALSE)]
  BY <1>3 DEF MarkUnused
<1> QED BY <1>1, <1>2, <1>3

(* So no node comes into use, and none becomes schedulable.                 *)
LEMMA NothingComesUp ==
  ASSUME Typed, Typed', WhoChanges, main.pc \in {"shrink", "evaluate", "reserve"}
  PROVE  /\ UsedAt(inventory'.nodes) \subseteq UsedAt(inventory.nodes)
         /\ NodesOf(inventory'.nodes) = NodesOf(inventory.nodes)
         /\ Len(inventory'.nodes) = Len(inventory.nodes)
         /\ CountUnused(inventory'.nodes) >= CountUnused(inventory.nodes)
         /\ \A n : IsUsed(n)' => IsUsed(n)
         /\ \A n : Schedulable(n)' => Schedulable(n)
<1>1. inventory.nodes \in Lists(Nodes) /\ CountUnused(inventory.nodes) \in Nat
  BY CountsAddUp DEF Typed
<1>2. /\ UsedAt(inventory'.nodes) \subseteq UsedAt(inventory.nodes)
      /\ NodesOf(inventory'.nodes) = NodesOf(inventory.nodes)
      /\ Len(inventory'.nodes) = Len(inventory.nodes)
      /\ CountUnused(inventory'.nodes) >= CountUnused(inventory.nodes)
  <2>1. CASE UNCHANGED inventory
    BY <1>1, <2>1
  <2>2. ASSUME NEW n, inventory'.nodes = SetUsage(inventory.nodes, n, FALSE)
        PROVE  /\ UsedAt(inventory'.nodes) \subseteq UsedAt(inventory.nodes)
               /\ NodesOf(inventory'.nodes) = NodesOf(inventory.nodes)
               /\ Len(inventory'.nodes) = Len(inventory.nodes)
               /\ CountUnused(inventory'.nodes) >= CountUnused(inventory.nodes)
    <3> DEFINE Keeps(used) == /\ NodesOf(SetUsage(inventory.nodes, n, used)) = NodesOf(inventory.nodes)
                              /\ Len(SetUsage(inventory.nodes, n, used)) = Len(inventory.nodes)
    <3>1. \A used \in BOOLEAN : Keeps(used)
      BY <1>1, SetUsageProperties, SetUsageKeepsNames
    <3>2. FALSE \in BOOLEAN
      OBVIOUS
    <3> HIDE DEF Keeps
    <3>3. Keeps(FALSE)
      BY <3>1, <3>2, Zenon
    <3> QED BY <1>1, <2>2, <3>3, UnusedGrows DEF Keeps
  <2> QED BY <2>1, <2>2, OnlyMarkedUnused
<1>3. \A n : IsUsed(n)' => IsUsed(n)
  <2>1. ASSUME NEW n, IsUsed(n)'
        PROVE  IsUsed(n)
    <3>1. inventory'.nodes \in Lists(Nodes) /\ inventory.nodes \in Lists(Nodes)
      BY DEF Typed
    <3>2. \E u \in UsedAt(inventory'.nodes) : NodesOf(inventory'.nodes)[u] = n
      BY <2>1, <3>1, UsedIsListed DEF IsUsed
    <3>3. \E u \in UsedAt(inventory.nodes) : NodesOf(inventory.nodes)[u] = n
      BY <1>2, <3>2
    <3> QED BY <3>1, <3>3, UsedIsListed DEF IsUsed
  <2> QED BY <2>1
<1>4. \A n : Schedulable(n)' => Schedulable(n)
  <2>1. status \in [Nodes -> {"unborn", "up", "gone"}] /\ marks \in [Nodes -> SUBSET Marks]
    BY DEF Typed, TypeOK
  <2>2. ASSUME NEW n, Schedulable(n)'
        PROVE  Schedulable(n)
    <3>1. n \in Nodes /\ status'[n] = "up" /\ "taint" \notin marks'[n]
      BY <2>2 DEF Schedulable, Up
    <3>2. "taint" \notin marks[n]
      BY <2>1, <3>1 DEF WhoChanges, ActivateNode, ReserveNode, NodeJoins, NodeRemoved, Relabel, Marks
    <3>3. status[n] = "up"
      BY <2>1, <3>1 DEF WhoChanges, NodeJoins, NodeRemoved, Marks
    <3> QED BY <3>1, <3>2, <3>3 DEF Schedulable, Up
  <2> QED BY <2>2
<1> QED BY <1>2, <1>3, <1>4

(* How the Run goroutine gets to each point of a scale-in.                  *)
LEMMA ScaleInSteps ==
  ASSUME Typed, WhoChanges
  PROVE  /\ main'.pc \in {"shrink", "evaluate"} => UNCHANGED main \/ BeginScaleIn
         /\ main'.pc = "reserve" => UNCHANGED main \/ EvaluateForReserve \/ ReserveNode
<1>0. Idle.pc = "idle"
  BY DEF Idle, At
<1>1. main \in Mains
  BY DEF Typed
<1>2. CASE BeginScaleOut
  <2> DEFINE reuse == ReusableWaiters(ActivatedSpares)
             spares == FindUnused(inventory.nodes, ActivatedSpares - Len(reuse))
             m == [pc |-> "activate", todo |-> reuse \o spares, reuse |-> ToSet(reuse),
                   count |-> ReplenishCount(Len(spares)), removable |-> {}]
  <2>1. main' = Idle \/ main' = m
    BY <1>2 DEF BeginScaleOut, At
  <2>2. m.pc = "activate"
    OBVIOUS
  <2> HIDE DEF m
  <2> QED BY <1>0, <2>1, <2>2
<1>3. CASE ActivateNode
  <2>1. main'.pc \in {"idle", "markUsed"}
    BY <1>1, <1>3 DEF ActivateNode, Mains, At, Idle
  <2> QED BY <2>1
<1>4. CASE MarkUsed
  <2> DEFINE rest == Tail(main.todo)
             pc == IF rest = <<>> THEN "replenish" ELSE "activate"
             m == [main EXCEPT !.todo = rest, !.pc = pc]
  <2>1. main' = Idle \/ main' = m
    BY <1>4 DEF MarkUsed
  <2>2. pc \in {"replenish", "activate"}
    OBVIOUS
  <2> HIDE DEF rest, pc
  <2>3. m.pc = pc
    BY <1>1 DEF Mains
  <2> HIDE DEF m
  <2> QED BY <1>0, <2>1, <2>2, <2>3
<1>5. CASE Replenish \/ RecordReplicas \/ Shrink \/ TickSync \/ AutoEvaluate \/ EnsureBaseline
           \/ FirstSync \/ Crash
  <2>1. main' \in {Idle, At("record"), At("autoEvaluate"), At("firstSync"), At("baseline")}
    BY <1>5 DEF Replenish, RecordReplicas, Shrink, TickSync, AutoEvaluate, EnsureBaseline, FirstSync, Crash
  <2>2. main'.pc \in {"idle", "record", "autoEvaluate", "firstSync", "baseline"}
    BY <2>1 DEF Idle, At
  <2> QED BY <2>2
<1>6. CASE BeginScaleIn
  <2>1. main'.pc \in {"idle", "shrink", "evaluate"}
    BY <1>6 DEF BeginScaleIn, At, Idle
  <2> QED BY <1>6, <2>1
<1>7. CASE EvaluateForReserve
  <2> DEFINE todo == ReserveCandidates(main.todo, RemovableNodes)
             m == [pc |-> "reserve", todo |-> todo, reuse |-> {}, count |-> 0,
                   removable |-> ToSet(RemovableNodes)]
  <2>1. main' = Idle \/ main' = m
    BY <1>7 DEF EvaluateForReserve, At
  <2>2. m.pc = "reserve"
    OBVIOUS
  <2> HIDE DEF m
  <2> QED BY <1>0, <1>7, <2>1, <2>2
<1>8. CASE ReserveNode
  <2> DEFINE m == [main EXCEPT !.todo = Tail(main.todo)]
  <2>1. main' = Idle \/ main' = m
    BY <1>8 DEF ReserveNode
  <2>2. m.pc = main.pc /\ main.pc = "reserve"
    BY <1>1, <1>8 DEF Mains, ReserveNode
  <2> HIDE DEF m
  <2> QED BY <1>0, <1>8, <2>1, <2>2
<1> QED BY <1>2, <1>3, <1>4, <1>5, <1>6, <1>7, <1>8 DEF WhoChanges, MainStep

(* Waiters that mark nodes unused only add to the excess that was counted.  *)
LEMMA ShrinkStaysSafe ==
  ASSUME ScaleInInv, Typed', WhoChanges
  PROVE  ShrinkIsSafe'
<1> SUFFICES ASSUME main'.pc = "shrink"
             PROVE  main'.count <= CountUnused(inventory'.nodes) - PreparedSpares
  BY DEF ShrinkIsSafe
<1>1. /\ CountUnused(inventory.nodes) \in Nat /\ CountUnused(inventory'.nodes) \in Nat
      /\ PreparedSpares \in Nat /\ main.count \in Nat /\ Typed
  BY CountsAddUp, ScalingAssumption DEF ScaleInInv, Typed, TypeOK
<1>2. CASE UNCHANGED main
  <2>1. main.pc = "shrink" /\ main.count <= CountUnused(inventory.nodes) - PreparedSpares
    BY <1>2 DEF ScaleInInv, ShrinkIsSafe
  <2>2. CountUnused(inventory'.nodes) >= CountUnused(inventory.nodes)
    BY <1>1, <2>1, NothingComesUp
  <2> QED BY <1>1, <1>2, <2>1, <2>2
<1>3. CASE BeginScaleIn
  <2>1. inventory' = inventory
    BY <1>3 DEF BeginScaleIn
  <2>2. main'.count = SpareExcess(inventory.nodes)
    BY <1>3 DEF BeginScaleIn, At, Idle
  <2> QED BY <1>1, <2>1, <2>2 DEF SpareExcess
<1> QED BY <1>1, <1>2, <1>3, ScaleInSteps

(* They also take uses away from under the list that was read first.        *)
LEMMA FirstReadStillCovers ==
  ASSUME ScaleInInv, Typed', WhoChanges
  PROVE  FirstReadCovers'
<1> SUFFICES ASSUME main'.pc = "evaluate"
             PROVE  \E I \in SUBSET (1 .. Len(inventory'.nodes)) :
                      /\ UsedAt(inventory'.nodes) \subseteq I
                      /\ main'.todo = Reverse(Pick(NodesOf(inventory'.nodes), I))
  BY DEF FirstReadCovers
<1>1. Typed
  BY DEF ScaleInInv
<1>2. CASE UNCHANGED main
  <2>1. main.pc = "evaluate"
    BY <1>2
  <2>2. PICK I \in SUBSET (1 .. Len(inventory.nodes)) :
               /\ UsedAt(inventory.nodes) \subseteq I
               /\ main.todo = Reverse(Pick(NodesOf(inventory.nodes), I))
    BY <2>1 DEF ScaleInInv, FirstReadCovers
  <2>3. /\ UsedAt(inventory'.nodes) \subseteq UsedAt(inventory.nodes)
        /\ NodesOf(inventory'.nodes) = NodesOf(inventory.nodes)
        /\ Len(inventory'.nodes) = Len(inventory.nodes)
    BY <1>1, <2>1, NothingComesUp
  <2> QED BY <1>2, <2>2, <2>3
<1>3. CASE BeginScaleIn
  <2> DEFINE list == inventory.nodes
  <2>1. inventory' = inventory
    BY <1>3 DEF BeginScaleIn
  <2>2. main'.todo = FindHighestUsed(list, CountUsed(list))
    BY <1>3 DEF BeginScaleIn, At, Idle
  <2>3. list \in Lists(Nodes)
    BY <1>1 DEF Typed
  <2> HIDE DEF list
  <2>4. main'.todo = Reverse(Pick(NodesOf(list), UsedAt(list)))
    BY <2>2, <2>3, AllUsedFound DEF UsedNodes
  <2>5. UsedAt(list) \in SUBSET (1 .. Len(list))
    BY <2>3, CountsAddUp
  <2> QED BY <2>1, <2>4, <2>5 DEF list
<1> QED BY <1>1, <1>2, <1>3, ScaleInSteps

(* The evaluation finds removable every node that the choice by number      *)
(* takes and that is used and schedulable now.                              *)
LEMMA ChoiceIsSafe ==
  ASSUME ScaleInInv, main.pc = "evaluate",
         NEW chosen, chosen = ReserveCandidates(main.todo, RemovableNodes),
         NEW i \in 1 .. Len(chosen), Schedulable(chosen[i]), IsUsed(chosen[i])
  PROVE  chosen[i] \in ToSet(RemovableNodes)
<1> DEFINE list == inventory.nodes
           names == NodesOf(list)
           U == UsedAt(list)
           G == {n \in Nodes : Schedulable(n)}
           used == Reverse(Pick(names, U))
<1>1. Typed /\ list \in Lists(Nodes) /\ Distinct(list)
  BY DEF ScaleInInv, Typed
<1>2. PICK I \in SUBSET (1 .. Len(list)) :
             UsedAt(list) \subseteq I /\ main.todo = Reverse(Pick(names, I))
  BY DEF ScaleInInv, FirstReadCovers
<1>3. /\ names \in Seq(Nodes) /\ Len(names) = Len(list)
      /\ \A k, l \in 1 .. Len(names) : names[k] = names[l] => k = l
  BY <1>1, NodesOfProperties DEF Distinct
<1>4. I \in SUBSET (1 .. Len(names)) /\ U \in SUBSET I /\ U \in SUBSET (1 .. Len(names))
  BY <1>2, <1>3
<1>5. PICK u \in U : names[u] = chosen[i]
  BY <1>1, UsedIsListed DEF IsUsed
<1>6. Available \in Nat
  BY <1>1, FewMachines
<1>7. used \in Seq(Nodes)
  <2> HIDE DEF names, U, list
  <2>1. Pick(names, U) \in Seq(Nodes)
    BY <1>3, <1>4, PickProperties
  <2> QED BY <2>1, ReverseProperties
<1>8. chosen[i] \in G
  BY DEF Schedulable, Up
<1>9. UsedNodes(inventory.nodes) = Pick(names, U)
  BY DEF UsedNodes
<1> HIDE DEF list, names, U, used
<1>10. {k \in DOMAIN used : Schedulable(used[k])} = {k \in DOMAIN used : used[k] \in G}
  <2>1. \A k \in DOMAIN used : used[k] \in Nodes
    BY <1>7, LenProperties, ElementOfSeq
  <2> QED BY <2>1
<1>11. RemovableNodes = AtMost(Available, Pick(used, {k \in DOMAIN used : used[k] \in G}))
  BY <1>9, <1>10 DEF RemovableNodes, used
<1> HIDE DEF G
<1>12. chosen = AtMost(Len(RemovableNodes), Reverse(Pick(names, I)))
  BY <1>2 DEF ReserveCandidates
<1>13. used = Reverse(Pick(names, U))
  BY DEF used
<1> QED BY <1>3, <1>4, <1>5, <1>6, <1>8, <1>11, <1>12, <1>13, ChosenAreRemovable

(* What is still to be reserved was chosen safely, and no node comes up.    *)
LEMMA ReserveStaysSafe ==
  ASSUME ScaleInInv, Typed', WhoChanges
  PROVE  ReserveIsSafe'
<1> SUFFICES ASSUME main'.pc = "reserve",
                    NEW i \in DOMAIN main'.todo, Schedulable(main.todo[i])', IsUsed(main.todo[i])'
             PROVE  main'.todo[i] \in main'.removable
  BY DEF ReserveIsSafe
<1>1. Typed /\ main \in Mains
  BY DEF ScaleInInv, Typed
<1>2. ASSUME main.pc \in {"evaluate", "reserve"}
      PROVE  Schedulable(main'.todo[i]) /\ IsUsed(main'.todo[i])
  BY <1>1, <1>2, NothingComesUp
<1>3. CASE UNCHANGED main
  BY <1>2, <1>3 DEF ScaleInInv, ReserveIsSafe
<1>4. CASE EvaluateForReserve
  <2> DEFINE chosen == ReserveCandidates(main.todo, RemovableNodes)
             m == [pc |-> "reserve", todo |-> chosen, reuse |-> {}, count |-> 0,
                   removable |-> ToSet(RemovableNodes)]
  <2>1. Idle.pc = "idle"
    BY DEF Idle, At
  <2>2. main' = Idle \/ main' = m
    BY <1>4 DEF EvaluateForReserve, At
  <2>3. m.todo = chosen /\ m.removable = ToSet(RemovableNodes)
    OBVIOUS
  <2> HIDE DEF m
  <2>4. main'.todo = chosen /\ main'.removable = ToSet(RemovableNodes)
    BY <2>1, <2>2, <2>3
  <2>5. chosen \in Seq(Nodes)
    <3>1. RemovableNodes \in Seq(Nodes)
      BY <1>1, SelectionsAreNodes
    <3>2. Len(RemovableNodes) \in Nat
      BY <3>1, LenProperties
    <3> QED BY <1>1, <3>2, AtMostProperties DEF Mains, ReserveCandidates
  <2>6. main.pc = "evaluate"
    BY <1>4 DEF EvaluateForReserve
  <2> DEFINE all == RemovableNodes
  <2>7. all = RemovableNodes
    OBVIOUS
  <2>8. chosen = ReserveCandidates(main.todo, RemovableNodes)
    OBVIOUS
  <2> HIDE DEF chosen, all
  <2>9. DOMAIN chosen = 1 .. Len(chosen)
    BY <2>5, LenProperties
  <2>10. i \in 1 .. Len(chosen) /\ Schedulable(chosen[i]) /\ IsUsed(chosen[i])
    BY <1>2, <2>4, <2>6, <2>9
  <2>11. chosen[i] \in ToSet(RemovableNodes)
    BY <2>6, <2>8, <2>10, ChoiceIsSafe
  <2> QED BY <2>4, <2>11
<1>5. CASE ReserveNode
  <2> DEFINE m == [main EXCEPT !.todo = Tail(main.todo)]
  <2>1. Idle.pc = "idle"
    BY DEF Idle, At
  <2>2. main' = Idle \/ main' = m
    BY <1>5 DEF ReserveNode
  <2>3. m.todo = Tail(main.todo) /\ m.removable = main.removable
    BY <1>1 DEF Mains
  <2> HIDE DEF m
  <2>4. main'.todo = Tail(main.todo) /\ main'.removable = main.removable
    BY <2>1, <2>2, <2>3
  <2>5. main.pc = "reserve" /\ main.todo # <<>> /\ main.todo \in Seq(Nodes)
    BY <1>1, <1>5 DEF ReserveNode, Mains, Typed, WorkLeft
  <2>6. /\ Tail(main.todo) \in Seq(Nodes) /\ Len(Tail(main.todo)) = Len(main.todo) - 1
        /\ Len(main.todo) \in Nat
        /\ \A k \in 1 .. Len(Tail(main.todo)) : Tail(main.todo)[k] = main.todo[k + 1]
    BY <2>5, HeadTailProperties, LenProperties
  <2>7. DOMAIN main.todo = 1 .. Len(main.todo) /\ DOMAIN Tail(main.todo) = 1 .. Len(Tail(main.todo))
    BY <2>5, <2>6, LenProperties
  <2>8. i \in 1 .. Len(Tail(main.todo))
    BY <2>4, <2>7
  <2>9. i + 1 \in DOMAIN main.todo /\ main'.todo[i] = main.todo[i + 1]
    BY <2>4, <2>6, <2>7, <2>8
  <2> QED BY <1>2, <2>4, <2>5, <2>9 DEF ScaleInInv, ReserveIsSafe
<1> QED BY <1>1, <1>3, <1>4, <1>5, ScaleInSteps

(* The strengthened invariant is inductive.                                 *)
LEMMA ScaleInInductive == ScaleInInv /\ [Next]_vars => ScaleInInv'
<1> SUFFICES ASSUME ScaleInInv, [Next]_vars PROVE ScaleInInv'
  OBVIOUS
<1>1. WhoChanges
  BY StepsChange
<1>2. Typed'
  BY TypedInductive DEF ScaleInInv
<1> QED BY <1>1, <1>2, ShrinkStaysSafe, FirstReadStillCovers, ReserveStaysSafe DEF ScaleInInv

(* It holds when nothing has been read.                                     *)
LEMMA ScaleInInit == Init => ScaleInInv
<1>1. Init => main.pc = "baseline"
  BY DEF Init, At
<1> QED BY <1>1, TypedInit DEF ScaleInInv, ShrinkIsSafe, FirstReadCovers, ReserveIsSafe

(* So it holds throughout.                                                  *)
LEMMA AlwaysScaleInInv == Safety => []ScaleInInv
BY ScaleInInit, ScaleInInductive, PTL DEF Safety

(* The prepared spares are kept when others are removed: the excess that    *)
(* the manifest is lowered by was counted before, and is still there.       *)
THEOREM SparesAreKept == Safety => SpareFloorKept
<1>1. ScaleInInv /\ [Next]_vars
        => (main.pc = "shrink" /\ replicas' < replicas /\ replicas >= Len(inventory.nodes)
              => replicas' >= CountUsed(inventory.nodes) + PreparedSpares)
  <2> SUFFICES ASSUME ScaleInInv, [Next]_vars, main.pc = "shrink",
                      replicas' < replicas, replicas >= Len(inventory.nodes)
               PROVE  replicas' >= CountUsed(inventory.nodes) + PreparedSpares
    OBVIOUS
  <2>1. /\ inventory.nodes \in Lists(Nodes) /\ replicas \in Nat /\ main.count \in Nat
        /\ PreparedSpares \in Nat
    BY ScalingAssumption DEF ScaleInInv, Typed, TypeOK
  <2>2. /\ CountUsed(inventory.nodes) \in Nat /\ CountUnused(inventory.nodes) \in Nat
        /\ CountUsed(inventory.nodes) + CountUnused(inventory.nodes) = Len(inventory.nodes)
    BY <2>1, CountsAddUp
  <2>3. Shrink
    BY <2>1, StepsChange DEF WhoChanges, Replenish, EnsureBaseline
  <2>4. replicas' = ScaleInTarget(main.count)
    BY <2>1, <2>3 DEF Shrink
  <2>5. main.count <= CountUnused(inventory.nodes) - PreparedSpares
    BY DEF ScaleInInv, ShrinkIsSafe
  <2> QED BY <2>1, <2>2, <2>4, <2>5 DEF ScaleInTarget, Bigger
<1>2. ScaleInInv /\ [Next]_vars
        => [main.pc = "shrink" /\ replicas' < replicas /\ replicas >= Len(inventory.nodes)
              => replicas' >= CountUsed(inventory.nodes) + PreparedSpares]_vars
  BY <1>1
<1> QED BY <1>2, AlwaysScaleInInv, PTL DEF Safety, SpareFloorKept

(* Only nodes that the capacity evaluation found removable are taken out of *)
(* use, although they are chosen by number from an older read.              *)
THEOREM RemovableAreReserved == Safety => ReservesOnlyRemovable
<1>1. ASSUME ScaleInInv, [Next]_vars, NEW n \in Nodes,
             Schedulable(n), status'[n] = "up", "taint" \in marks'[n], IsUsed(n)
      PROVE  n \in main.removable
  <2>1. /\ Typed /\ main \in Mains
        /\ status \in [Nodes -> {"unborn", "up", "gone"}] /\ marks \in [Nodes -> SUBSET Marks]
    BY <1>1 DEF ScaleInInv, Typed, TypeOK
  <2>2. status[n] = "up" /\ "taint" \notin marks[n]
    BY <1>1 DEF Schedulable, Up
  <2>3. ReserveNode /\ n = Head(main.todo)
    BY <1>1, <2>1, <2>2, StepsChange
       DEF WhoChanges, ActivateNode, ReserveNode, NodeJoins, NodeRemoved, Relabel, Marks
  <2>4. main.pc = "reserve" /\ main.todo # <<>> /\ main.todo \in Seq(Nodes)
    BY <2>1, <2>3 DEF ReserveNode, Mains, Typed, WorkLeft
  <2>5. 1 \in DOMAIN main.todo /\ main.todo[1] = n
    <3>1. Len(main.todo) \in Nat /\ DOMAIN main.todo = 1 .. Len(main.todo) /\ Len(main.todo) # 0
      BY <2>4, LenProperties, EmptySeq
    <3> QED BY <2>3, <2>4, <3>1, HeadTailProperties
  <2> QED BY <1>1, <2>4, <2>5 DEF ScaleInInv, ReserveIsSafe
<1>2. ScaleInInv /\ [Next]_vars
        => [\A n \in Nodes :
              Schedulable(n) /\ status'[n] = "up" /\ "taint" \in marks'[n] /\ IsUsed(n)
                => n \in main.removable]_vars
  BY <1>1
<1> QED BY <1>2, AlwaysScaleInInv, PTL DEF Safety, ReservesOnlyRemovable
=============================================================================
