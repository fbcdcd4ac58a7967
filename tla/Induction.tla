----------------------------- MODULE Induction ------------------------------
(***************************************************************************)
(* Induction over the natural numbers, stated with sets: what the proofs   *)
(* about ordered selections need.  It comes from WFMin, the existence of a *)
(* minimal element in a well-founded order.                                *)
(***************************************************************************)
EXTENDS Integers, FiniteSetTheorems, WellFoundedInduction, TLAPS

Less == {ss \in Nat \X Nat : ss[1] < ss[2]}

(* The order of the natural numbers is well founded.                        *)
LEMMA LessIsWellFounded == IsWellFoundedOn(Less, Nat)
<1>1. Less = OpToRel(<, Nat)
  BY DEF Less, OpToRel
<1> QED BY <1>1, NatLessThanWellFounded

(* A set that holds 0 and the successor of each of its members is Nat.      *)
LEMMA NatInductionSet ==
  ASSUME NEW T \in SUBSET Nat, 0 \in T, \A n \in T : n + 1 \in T
  PROVE  T = Nat
<1>1. SUFFICES ASSUME Nat \ T # {} PROVE FALSE
  OBVIOUS
<1>2. PICK x \in Nat \ T : \A y \in Nat \ T : ~ (<<y, x>> \in Less)
  BY LessIsWellFounded, <1>1, WFMin
<1>3. x # 0 /\ x - 1 \in Nat /\ x - 1 < x
  OBVIOUS
<1>4. \A y \in Nat : y < x => <<y, x>> \in Less
  BY DEF Less
<1>5. x - 1 \in T
  BY <1>2, <1>3, <1>4
<1> QED BY <1>3, <1>5, <1>2

(* A list of n members has n places.                                        *)
LEMMA PlacesAreFinite ==
  ASSUME NEW n \in Nat
  PROVE  IsFiniteSet(1 .. n) /\ Cardinality(1 .. n) = n
<1>1. IsFiniteSet(1 .. n) /\ Cardinality(1 .. n) = IF 1 > n THEN 0 ELSE n - 1 + 1
  BY FS_Interval
<1> QED BY <1>1

(* A finite set of numbers that is not empty has a greatest member.         *)
LEMMA MaxExists ==
  ASSUME NEW S \in SUBSET Nat, IsFiniteSet(S), S # {}
  PROVE  \E m \in S : \A x \in S : x <= m
<1> DEFINE Greatest(A) == \E m \in A : \A x \in A : x <= m
           T == {n \in Nat : \A A \in SUBSET Nat :
                               IsFiniteSet(A) /\ Cardinality(A) = n + 1 => Greatest(A)}
<1>1. 0 \in T
  <2>1. ASSUME NEW A \in SUBSET Nat, IsFiniteSet(A), Cardinality(A) = 1
        PROVE  Greatest(A)
    <3>1. PICK x : A = {x}
      BY <2>1, FS_Singleton
    <3> QED BY <3>1
  <2> QED BY <2>1
<1>2. ASSUME NEW n \in T PROVE n + 1 \in T
  <2>1. ASSUME NEW A \in SUBSET Nat, IsFiniteSet(A), Cardinality(A) = n + 2
        PROVE  Greatest(A)
    <3>1. n \in Nat
      OBVIOUS
    <3>2. A # {}
      BY <2>1, <3>1, FS_EmptySet
    <3>3. PICK x \in A : TRUE
      BY <3>2
    <3>4. IsFiniteSet(A \ {x}) /\ Cardinality(A \ {x}) = n + 1 /\ A \ {x} \in SUBSET Nat
      BY <2>1, <3>1, <3>3, FS_RemoveElement
    <3>5. Greatest(A \ {x})
      BY <3>4
    <3>6. PICK m \in A \ {x} : \A y \in A \ {x} : y <= m
      BY <3>5
    <3>7. CASE x <= m
      <4>1. \A y \in A : y <= m
        BY <3>6, <3>7
      <4> QED BY <4>1
    <3>8. CASE ~(x <= m)
      <4>1. \A y \in A : y <= x
        BY <3>6, <3>8
      <4> QED BY <4>1, <3>3
    <3> QED BY <3>7, <3>8
  <2>2. n + 1 \in Nat /\ (n + 1) + 1 = n + 2
    OBVIOUS
  <2> QED BY <2>1, <2>2
<1>3. T = Nat
  <2> HIDE DEF T
  <2>1. T \in SUBSET Nat
    BY DEF T
  <2> QED BY <1>1, <1>2, <2>1, NatInductionSet
<1>4. Cardinality(S) \in Nat /\ Cardinality(S) # 0
  BY FS_CardinalityType, FS_EmptySet
<1>5. Cardinality(S) - 1 \in T /\ (Cardinality(S) - 1) + 1 = Cardinality(S)
  BY <1>3, <1>4
<1> QED BY <1>5

(* A finite set of numbers can be listed in increasing order.               *)
LEMMA OrderExists ==
  ASSUME NEW S \in SUBSET Nat, IsFiniteSet(S)
  PROVE  \E s \in [1 .. Cardinality(S) -> S] : \A i, j \in DOMAIN s : i < j => s[i] < s[j]
<1> DEFINE Ordered(s) == \A i, j \in DOMAIN s : i < j => s[i] < s[j]
           T == {n \in Nat : \A A \in SUBSET Nat :
                   IsFiniteSet(A) /\ Cardinality(A) = n => \E s \in [1 .. n -> A] : Ordered(s)}
<1>1. 0 \in T
  <2>1. ASSUME NEW A \in SUBSET Nat
        PROVE  \E s \in [1 .. 0 -> A] : Ordered(s)
    <3>1. [i \in 1 .. 0 |-> 0] \in [1 .. 0 -> A] /\ Ordered([i \in 1 .. 0 |-> 0])
      OBVIOUS
    <3> QED BY <3>1
  <2> QED BY <2>1
<1>2. ASSUME NEW n \in T PROVE n + 1 \in T
  <2>1. n \in Nat
    OBVIOUS
  <2>2. ASSUME NEW A \in SUBSET Nat, IsFiniteSet(A), Cardinality(A) = n + 1
        PROVE  \E s \in [1 .. n + 1 -> A] : Ordered(s)
    <3>1. A # {}
      BY <2>1, <2>2, FS_EmptySet
    <3>2. PICK m \in A : \A x \in A : x <= m
      BY <2>2, <3>1, MaxExists
    <3>3. IsFiniteSet(A \ {m}) /\ Cardinality(A \ {m}) = n /\ A \ {m} \in SUBSET Nat
      <4>1. IsFiniteSet(A \ {m}) /\ Cardinality(A \ {m}) = Cardinality(A) - 1
        BY <2>2, <3>2, FS_RemoveElement
      <4> QED BY <2>1, <2>2, <4>1
    <3>4. PICK r \in [1 .. n -> A \ {m}] : Ordered(r)
      BY <3>3
    <3> DEFINE s == [i \in 1 .. n + 1 |-> IF i = n + 1 THEN m ELSE r[i]]
    <3>5. \A i \in 1 .. n + 1 : i = n + 1 \/ i \in 1 .. n
      BY <2>1
    <3>6. s \in [1 .. n + 1 -> A]
      BY <3>4, <3>5
    <3>7. ASSUME NEW i \in 1 .. n + 1, NEW j \in 1 .. n + 1, i < j
          PROVE  s[i] < s[j]
      <4>1. i \in 1 .. n /\ s[i] = r[i]
        BY <2>1, <3>7
      <4>2. CASE j = n + 1
        <5>1. r[i] \in A \ {m} /\ r[i] \in Nat /\ m \in Nat
          BY <4>1
        <5> QED BY <3>2, <4>1, <4>2, <5>1
      <4>3. CASE j # n + 1
        <5>1. j \in 1 .. n /\ s[j] = r[j]
          BY <4>3, <3>5
        <5> QED BY <3>4, <3>7, <4>1, <5>1
      <4> QED BY <4>2, <4>3
    <3>8. DOMAIN s = 1 .. n + 1
      OBVIOUS
    <3> HIDE DEF s
    <3>9. Ordered(s)
      BY <3>7, <3>8
    <3> QED BY <3>6, <3>9
  <2> QED BY <2>1, <2>2
<1>3. T = Nat
  <2> HIDE DEF T
  <2>1. T \in SUBSET Nat
    BY DEF T
  <2> QED BY <1>1, <1>2, <2>1, NatInductionSet
<1>4. Cardinality(S) \in T
  BY <1>3, FS_CardinalityType
<1> QED BY <1>4

(* A finite set whose members are taken out one by one, in the order that c *)
(* chooses them: P holds of the empty set, and of a set if of the rest.     *)
Reachable(S, c, P) ==
  /\ IsFiniteSet(S) /\ P \in SUBSET (SUBSET S)
  /\ \A s \in SUBSET S : s # {} => c[s] \in s
  /\ {} \in P
  /\ \A s \in SUBSET S : s # {} /\ s \ {c[s]} \in P => s \in P

(* Then P holds of every subset.                                            *)
LEMMA RemovalInduction ==
  ASSUME NEW S, NEW c, NEW P, Reachable(S, c, P)
  PROVE  P = SUBSET S
<1>0. /\ IsFiniteSet(S) /\ P \in SUBSET (SUBSET S)
      /\ \A s \in SUBSET S : s # {} => c[s] \in s
      /\ {} \in P
      /\ \A s \in SUBSET S : s # {} /\ s \ {c[s]} \in P => s \in P
  BY DEF Reachable
<1> DEFINE T == {n \in Nat : \A s \in SUBSET S : Cardinality(s) = n => s \in P}
<1>1. \A s \in SUBSET S : IsFiniteSet(s) /\ Cardinality(s) \in Nat
  BY <1>0, FS_Subset, FS_CardinalityType
<1>2. 0 \in T
  BY <1>0, <1>1, FS_EmptySet
<1>3. ASSUME NEW n \in T PROVE n + 1 \in T
  <2>1. ASSUME NEW s \in SUBSET S, Cardinality(s) = n + 1
        PROVE  s \in P
    <3>1. n \in Nat
      OBVIOUS
    <3>2. s # {}
      BY <2>1, <3>1, FS_EmptySet
    <3>3. c[s] \in s
      BY <1>0, <3>2
    <3>4. Cardinality(s \ {c[s]}) = Cardinality(s) - 1
      BY <1>1, <3>3, FS_RemoveElement
    <3>5. Cardinality(s \ {c[s]}) = n
      BY <2>1, <3>1, <3>4
    <3>6. s \ {c[s]} \in P
      BY <3>5
    <3> QED BY <1>0, <3>2, <3>6
  <2> QED BY <2>1
<1>4. T = Nat
  <2> HIDE DEF T
  <2>1. T \in SUBSET Nat
    BY DEF T
  <2> QED BY <1>2, <1>3, <2>1, NatInductionSet
<1>5. ASSUME NEW s \in SUBSET S PROVE s \in P
  <2>1. Cardinality(s) \in T
    BY <1>1, <1>4
  <2> QED BY <2>1
<1> QED BY <1>0, <1>5

(* A fold over a finite set in the order of c.                              *)
IsFold(fold, S, c, base, step) ==
  \A s \in SUBSET S : fold[s] = IF s = {} THEN base ELSE step[c[s]][fold[s \ {c[s]}]]

(* There is a function that satisfies its recursive equation.               *)
LEMMA FoldExists ==
  ASSUME NEW S, IsFiniteSet(S), NEW c, \A s \in SUBSET S : s # {} => c[s] \in s,
         NEW V, NEW base \in V, NEW step \in [S -> [V -> V]]
  PROVE  \E fold \in [SUBSET S -> V] : IsFold(fold, S, c, base, step)
<1> DEFINE Small(n) == {s \in SUBSET S : Cardinality(s) <= n}
           Solves(f, n) == \A s \in Small(n) :
             f[s] = IF s = {} THEN base ELSE step[c[s]][f[s \ {c[s]}]]
           T == {n \in Nat : \E f \in [Small(n) -> V] : Solves(f, n)}
<1>1. \A s \in SUBSET S : IsFiniteSet(s) /\ Cardinality(s) \in Nat
  BY FS_Subset, FS_CardinalityType
<1>2. \A s \in SUBSET S : s # {} => /\ c[s] \in s /\ s \ {c[s]} \in SUBSET S
                                    /\ Cardinality(s \ {c[s]}) = Cardinality(s) - 1
  BY <1>1, FS_RemoveElement
<1>3. 0 \in T
  <2>1. \A s \in Small(0) : s = {}
    BY <1>1, FS_EmptySet
  <2> DEFINE f == [s \in Small(0) |-> base]
  <2>2. f \in [Small(0) -> V] /\ Solves(f, 0)
    BY <2>1
  <2> QED BY <2>2
<1>4. ASSUME NEW n \in T PROVE n + 1 \in T
  <2>1. n \in Nat
    OBVIOUS
  <2>2. PICK f \in [Small(n) -> V] : Solves(f, n)
    OBVIOUS
  <2> DEFINE g == [s \in Small(n + 1) |->
                     IF s \in Small(n) THEN f[s] ELSE step[c[s]][f[s \ {c[s]}]]]
  <2>3. \A s \in Small(n + 1) : s # {} => s \ {c[s]} \in Small(n) /\ s \ {c[s]} \in Small(n + 1)
    BY <1>1, <1>2, <2>1
  <2>4. {} \in Small(n)
    BY <2>1, FS_EmptySet
  <2>5. g \in [Small(n + 1) -> V]
    <3>1. ASSUME NEW s \in Small(n + 1), s \notin Small(n)
          PROVE  step[c[s]][f[s \ {c[s]}]] \in V
      <4>1. s # {}
        BY <2>4, <3>1
      <4>2. f[s \ {c[s]}] \in V
        BY <2>3, <4>1
      <4>3. c[s] \in S
        BY <1>2, <4>1
      <4> HIDE DEF Small
      <4>4. step[c[s]] \in [V -> V]
        BY <4>3
      <4> QED BY <4>2, <4>4
    <3> HIDE DEF Small
    <3> QED BY <3>1
  <2>6. Solves(g, n + 1)
    <3>1. ASSUME NEW s \in Small(n + 1)
          PROVE  g[s] = IF s = {} THEN base ELSE step[c[s]][g[s \ {c[s]}]]
      <4>1. s # {} => g[s \ {c[s]}] = f[s \ {c[s]}]
        BY <2>3
      <4>2. CASE s \in Small(n)
        <5>1. f[s] = IF s = {} THEN base ELSE step[c[s]][f[s \ {c[s]}]]
          BY <2>2, <4>2
        <5>2. g[s] = f[s]
          BY <4>2
        <5> HIDE DEF g, Small
        <5> QED BY <4>1, <5>1, <5>2
      <4>3. CASE s \notin Small(n)
        <5>1. s # {}
          BY <2>4, <4>3
        <5>2. g[s] = step[c[s]][f[s \ {c[s]}]]
          BY <4>3
        <5> HIDE DEF g, Small
        <5> QED BY <4>1, <5>1, <5>2
      <4> QED BY <4>2, <4>3
    <3> QED BY <3>1
  <2> HIDE DEF g, Solves, Small
  <2> QED BY <2>1, <2>5, <2>6
<1>5. T = Nat
  <2> HIDE DEF T
  <2>1. T \in SUBSET Nat
    BY DEF T
  <2> QED BY <1>3, <1>4, <2>1, NatInductionSet
<1>6. Cardinality(S) \in T
  BY <1>1, <1>5
<1>7. Small(Cardinality(S)) = SUBSET S
  <2>1. \A s \in SUBSET S : Cardinality(s) <= Cardinality(S)
    BY FS_Subset
  <2> QED BY <2>1
<1> HIDE DEF Small
<1> QED BY <1>6, <1>7 DEF IsFold
=============================================================================
