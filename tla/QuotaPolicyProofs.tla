------------------------- MODULE QuotaPolicyProofs --------------------------
(***************************************************************************)
(* What the operators of QuotaPolicy return, for every quota, all bounds,  *)
(* every list of policies and every demand: the facts that the proofs      *)
(* about the quota rest on.  An evaluation applies the policies one after  *)
(* the other to four dimensions, adds a demand, clamps, lets requests fit  *)
(* limits and holds back; each lemma says what its stage keeps.            *)
(***************************************************************************)
EXTENDS QuotaPolicy, SequenceTheorems, Induction

-----------------------------------------------------------------------------
(* Sums.                                                                    *)

Choice(S) == [s \in SUBSET S |-> CHOOSE x \in s : TRUE]
SumRule(f) == [x \in DOMAIN f |-> [n \in Nat |-> f[x] + n]]

(* A sum of natural numbers is the value of a fold, one element at a time.  *)
LEMMA SumIsFold ==
  ASSUME NEW f, IsFiniteSet(DOMAIN f), \A x \in DOMAIN f : f[x] \in Nat
  PROVE  \E fold \in [SUBSET DOMAIN f -> Nat] :
           /\ SumFunction(f) = fold[DOMAIN f]
           /\ IsFold(fold, DOMAIN f, Choice(DOMAIN f), 0, SumRule(f))
<1> DEFINE D == DOMAIN f
           iter == CHOOSE i : i = [s \in SUBSET D |->
                     IF s = {} THEN 0 ELSE f[CHOOSE x \in s : TRUE] + i[s \ {CHOOSE x \in s : TRUE}]]
<1>1. SumFunction(f) = iter[D]
  BY DEF SumFunction, SumFunctionOnSet, FoldFunctionOnSet, MapThenFoldSet
<1>2. \A s \in SUBSET D : s # {} => Choice(D)[s] \in s
  BY DEF Choice
<1>3. SumRule(f) \in [D -> [Nat -> Nat]]
  BY DEF SumRule
<1>4. PICK fold \in [SUBSET D -> Nat] : IsFold(fold, D, Choice(D), 0, SumRule(f))
  <2>1. 0 \in Nat
    OBVIOUS
  <2> HIDE DEF D
  <2>2. IsFiniteSet(D)
    BY DEF D
  <2> QED BY <1>2, <1>3, <2>1, <2>2, FoldExists
<1>5. fold = [s \in SUBSET D |->
                IF s = {} THEN 0 ELSE f[CHOOSE x \in s : TRUE] + fold[s \ {CHOOSE x \in s : TRUE}]]
  <2>1. ASSUME NEW s \in SUBSET D, s # {}
        PROVE  fold[s] = f[CHOOSE x \in s : TRUE] + fold[s \ {CHOOSE x \in s : TRUE}]
    <3>1. Choice(D)[s] = CHOOSE x \in s : TRUE
      BY DEF Choice
    <3>2. fold[s] = SumRule(f)[Choice(D)[s]][fold[s \ {Choice(D)[s]}]]
      BY <1>4, <2>1 DEF IsFold
    <3>3. Choice(D)[s] \in D /\ fold[s \ {Choice(D)[s]}] \in Nat
      BY <1>2, <1>4, <2>1
    <3> QED BY <3>1, <3>2, <3>3 DEF SumRule
  <2>2. fold[{}] = 0
    BY <1>4 DEF IsFold
  <2> QED BY <1>4, <2>1, <2>2
<1>6. iter = [s \in SUBSET D |->
                IF s = {} THEN 0 ELSE f[CHOOSE x \in s : TRUE] + iter[s \ {CHOOSE x \in s : TRUE}]]
  BY <1>5
<1>7. iter \in [SUBSET D -> Nat] /\ IsFold(iter, D, Choice(D), 0, SumRule(f))
  <2> HIDE DEF iter
  <2> DEFINE P == {s \in SUBSET D : iter[s] \in Nat}
  <2>1. {} \in P
    BY <1>6
  <2>2. ASSUME NEW s \in SUBSET D, s # {}, s \ {Choice(D)[s]} \in P
        PROVE  s \in P
    <3>1. Choice(D)[s] = CHOOSE x \in s : TRUE
      BY DEF Choice
    <3>2. iter[s] = f[Choice(D)[s]] + iter[s \ {Choice(D)[s]}]
      BY <1>6, <2>2, <3>1
    <3>3. Choice(D)[s] \in D
      BY <1>2, <2>2
    <3> QED BY <2>2, <3>2, <3>3
  <2>3. P = SUBSET D
    <3>1. P \in SUBSET (SUBSET D)
      OBVIOUS
    <3> HIDE DEF P, D
    <3>2. IsFiniteSet(D)
      BY DEF D
    <3> DEFINE c == Choice(D)
    <3>3. /\ \A s \in SUBSET D : s # {} => c[s] \in s
          /\ \A s \in SUBSET D : s # {} /\ s \ {c[s]} \in P => s \in P
      BY <1>2, <2>2
    <3> HIDE DEF c
    <3>4. Reachable(D, c, P)
      BY <2>1, <3>1, <3>2, <3>3 DEF Reachable
    <3> QED BY <3>4, RemovalInduction
  <2>4. \A s \in SUBSET D : iter[s] \in Nat
    BY <2>3
  <2>5. ASSUME NEW s \in SUBSET D
        PROVE  iter[s] = IF s = {} THEN 0 ELSE SumRule(f)[Choice(D)[s]][iter[s \ {Choice(D)[s]}]]
    <3>1. CASE s = {}
      BY <1>6, <3>1
    <3>2. CASE s # {}
      <4>1. Choice(D)[s] = CHOOSE x \in s : TRUE
        BY DEF Choice
      <4>2. iter[s] = f[Choice(D)[s]] + iter[s \ {Choice(D)[s]}]
        BY <1>6, <3>2, <4>1
      <4>3. Choice(D)[s] \in D /\ iter[s \ {Choice(D)[s]}] \in Nat
        BY <1>2, <2>4, <3>2
      <4> QED BY <3>2, <4>2, <4>3 DEF SumRule
    <3> QED BY <3>1, <3>2
  <2> QED BY <1>6, <2>4, <2>5 DEF IsFold
<1> QED BY <1>1, <1>7

(* It is a natural number.                                                  *)
LEMMA SumProperties ==
  ASSUME NEW f, IsFiniteSet(DOMAIN f), \A x \in DOMAIN f : f[x] \in Nat
  PROVE  SumFunction(f) \in Nat
<1>1. PICK fold \in [SUBSET DOMAIN f -> Nat] : SumFunction(f) = fold[DOMAIN f]
  BY SumIsFold
<1>2. fold[DOMAIN f] \in Nat
  OBVIOUS
<1> QED BY <1>1, <1>2

(* A sum does not decrease when its terms grow.                             *)
LEMMA SumMonotone ==
  ASSUME NEW D, IsFiniteSet(D), NEW f \in [D -> Nat], NEW g \in [D -> Nat],
         \A x \in D : f[x] <= g[x]
  PROVE  SumFunction(f) <= SumFunction(g)
<1> DEFINE c == Choice(D)
<1>1. PICK F \in [SUBSET D -> Nat] : SumFunction(f) = F[D] /\ IsFold(F, D, c, 0, SumRule(f))
  BY SumIsFold
<1>2. PICK G \in [SUBSET D -> Nat] : SumFunction(g) = G[D] /\ IsFold(G, D, c, 0, SumRule(g))
  BY SumIsFold
<1>3. \A s \in SUBSET D : s # {} => c[s] \in s
  BY DEF Choice
<1> DEFINE P == {s \in SUBSET D : F[s] <= G[s]}
<1>4. {} \in P
  <2>1. F[{}] = 0 /\ G[{}] = 0
    BY <1>1, <1>2 DEF IsFold
  <2> QED BY <2>1
<1>5. ASSUME NEW s \in SUBSET D, s # {}, s \ {c[s]} \in P
      PROVE  s \in P
  <2>1. c[s] \in D /\ s \ {c[s]} \in SUBSET D
    BY <1>3, <1>5
  <2>2. F[s] = SumRule(f)[c[s]][F[s \ {c[s]}]] /\ G[s] = SumRule(g)[c[s]][G[s \ {c[s]}]]
    BY <1>1, <1>2, <1>5 DEF IsFold
  <2> HIDE DEF c
  <2>3. F[s] = f[c[s]] + F[s \ {c[s]}] /\ G[s] = g[c[s]] + G[s \ {c[s]}]
    BY <2>1, <2>2 DEF SumRule
  <2>4. F[s \ {c[s]}] <= G[s \ {c[s]}]
    BY <1>5
  <2> QED BY <2>1, <2>3, <2>4
<1>6. P = SUBSET D
  <2>1. P \in SUBSET (SUBSET D)
    OBVIOUS
  <2> HIDE DEF P, c
  <2>2. Reachable(D, c, P)
    BY <1>3, <1>4, <1>5, <2>1 DEF Reachable
  <2> QED BY <2>2, RemovalInduction
<1> QED BY <1>1, <1>2, <1>6

(* A sum of at most two terms.                                              *)
LEMMA SumOfTwo ==
  ASSUME NEW a, NEW b, a # b, NEW D \in SUBSET {a, b}, NEW f \in [D -> Nat],
         NEW m \in Nat, NEW n \in Nat, a \in D => f[a] <= m, b \in D => f[b] <= n
  PROVE  SumFunction(f) \in Nat /\ SumFunction(f) <= m + n
<1> DEFINE c == Choice(D)
<1>1. IsFiniteSet(D)
  <2>1. IsFiniteSet({a, b})
    <3>1. IsFiniteSet({a})
      BY FS_Singleton
    <3>2. IsFiniteSet({a} \cup {b})
      BY <3>1, FS_AddElement
    <3>3. {a} \cup {b} = {a, b}
      OBVIOUS
    <3> QED BY <3>2, <3>3
  <2> QED BY <2>1, FS_Subset
<1>2. PICK F \in [SUBSET D -> Nat] : SumFunction(f) = F[D] /\ IsFold(F, D, c, 0, SumRule(f))
  BY <1>1, SumIsFold
<1>3. \A s \in SUBSET D : s # {} => c[s] \in s
  BY DEF Choice
<1> HIDE DEF c
<1>4. F[{}] = 0
  BY <1>2 DEF IsFold
<1>5. ASSUME NEW s \in SUBSET D, s # {}
      PROVE  F[s] = f[c[s]] + F[s \ {c[s]}]
  <2>1. F[s] = SumRule(f)[c[s]][F[s \ {c[s]}]]
    BY <1>2, <1>5 DEF IsFold
  <2>2. c[s] \in D /\ s \ {c[s]} \in SUBSET D
    BY <1>3, <1>5
  <2> QED BY <1>2, <2>1, <2>2 DEF SumRule
<1>6. ASSUME NEW x \in D
      PROVE  F[{x}] = f[x]
  <2>1. c[{x}] = x
    BY <1>3
  <2>2. F[{x}] = f[x] + F[{x} \ {x}]
    BY <1>5, <2>1
  <2>3. F[{x} \ {x}] = 0
    <3>1. {x} \ {x} = {}
      OBVIOUS
    <3> QED BY <1>4, <3>1
  <2>4. f[x] \in Nat
    OBVIOUS
  <2> QED BY <2>2, <2>3, <2>4
<1>7. CASE D = {}
  BY <1>2, <1>4, <1>7
<1>8. CASE D = {a} \/ D = {b}
  BY <1>2, <1>6, <1>8
<1>9. CASE D = {a, b}
  <2>1. F[D] = f[c[D]] + F[D \ {c[D]}] /\ c[D] \in {a, b}
    BY <1>3, <1>5, <1>9
  <2>2. D \ {a} = {b} /\ D \ {b} = {a}
    BY <1>9
  <2>3. F[{a}] = f[a] /\ F[{b}] = f[b] /\ f[a] \in Nat /\ f[b] \in Nat
    BY <1>6, <1>9
  <2>4. CASE c[D] = a
    <3>1. F[D] = f[a] + F[{b}]
      BY <2>1, <2>2, <2>4
    <3> QED BY <1>2, <1>9, <2>3, <3>1
  <2>5. CASE c[D] = b
    <3>1. F[D] = f[b] + F[{a}]
      BY <2>1, <2>2, <2>5
    <3> QED BY <1>2, <1>9, <2>3, <3>1
  <2> QED BY <2>1, <2>4, <2>5
<1>10. D \in {{}, {a}, {b}, {a, b}}
  OBVIOUS
<1> QED BY <1>7, <1>8, <1>9, <1>10

(* The greatest member of a finite set of numbers is in it.                 *)
LEMMA MaxIsIn ==
  ASSUME NEW s \in SUBSET Nat, IsFiniteSet(s), s # {}
  PROVE  Max(s) \in s /\ \A x \in s : Max(s) >= x
<1>1. \E m \in s : \A x \in s : x <= m
  BY MaxExists
<1>2. \E m \in s : \A x \in s : m >= x
  BY <1>1
<1> QED BY <1>2 DEF Max

-----------------------------------------------------------------------------
(* Resource lists.                                                          *)
Vectors == [Dims -> Nat]
Sides == {"min", "max"}
ResourceNames == {"cpu", "memory"}

(* The bounds that ValidateQuotaScaler returns.                             *)
IsBounds(bounds) == \A side \in Sides, r \in ResourceNames : bounds[side][r] \in Nat

IsQuota(quota) ==
  /\ \A name \in DOMAIN quota.hard : quota.hard[name] \in Nat
  /\ \A name \in DOMAIN quota.used : quota.used[name] \in Nat

(* The names of the four dimensions.                                        *)
LEMMA DimsAreKnown ==
  /\ \A d \in Dims : Resource(d) \in ResourceNames
  /\ Dims = {"requests.cpu", "limits.cpu", "requests.memory", "limits.memory"}
  /\ Resource("requests.cpu") = "cpu" /\ Resource("limits.cpu") = "cpu"
  /\ Resource("requests.memory") = "memory" /\ Resource("limits.memory") = "memory"
BY DEF Dims, CpuDims, MemoryDims, Resource, ResourceNames

(* A quota names natural numbers, or nothing.                               *)
LEMMA ValueIsNat ==
  ASSUME NEW list, \A name \in DOMAIN list : list[name] \in Nat, NEW d
  PROVE  Value(list, d) \in Nat
BY DEF Value

(* The defaults fill in what is missing.                                    *)
LEMMA BoundsAreValid ==
  ASSUME NEW spec, IsScaler(spec)
  PROVE  IsBounds(Validated(spec))
BY PolicyAssumption DEF Validated, IsBounds, IsScaler, Sides, ResourceNames

(* The quota for a target utilization of at most 100 percent is no less     *)
(* than what is used.                                                       *)
LEMMA TargetLeavesRoom ==
  ASSUME NEW used \in Nat, NEW target \in 1 .. 100
  PROVE  ForTarget(used, target) \in Nat /\ ForTarget(used, target) >= used
<1> DEFINE q == (used * 100) \div target
<1>1. q \in Int /\ used * 100 \in Nat /\ target * q <= used * 100 /\ used * 100 < target * (q + 1)
  OBVIOUS
<1>2. target * used <= 100 * used
  OBVIOUS
<1> HIDE DEF q
<1>3. q >= 0
  BY <1>1
<1>4. ASSUME q < used PROVE FALSE
  <2>1. q + 1 <= used
    BY <1>1, <1>4
  <2>2. target * (q + 1) <= target * used
    BY <1>1, <2>1
  <2> QED BY <1>1, <1>2, <2>2
<1> QED BY <1>1, <1>3, <1>4 DEF ForTarget, q

(* What a policy asks of one dimension is a natural number.                 *)
LEMMA PolicyIsNat ==
  ASSUME NEW policy \in Policies, NEW up, NEW used \in Nat, NEW max, NEW limit \in Nat
  PROVE  ActivatePolicy(policy, up, used, max, limit) \in Nat
<1> DEFINE target == IF policy.target = 0 THEN policy.value ELSE policy.target
<1>1. target \in Int
  BY DEF Policies
<1>2. target > 0 => ForTarget(used, target) \in Nat
  <2>1. ASSUME NEW t \in Nat \ {0} PROVE (used * 100) \div t \in Nat
    OBVIOUS
  <2> HIDE DEF target
  <2> QED BY <1>1, <2>1 DEF ForTarget
<1> HIDE DEF target
<1>3. target > 0 => CalculateScaleUp(used, target, limit) \in Nat
                    /\ CalculateScaleDown(used, target, limit) \in Nat
  BY <1>2 DEF CalculateScaleUp, CalculateScaleDown, Least, Greatest
<1>4. Greatest(used, limit) \in Nat
  BY DEF Greatest
<1>5. CASE target <= 0
  BY <1>1, <1>5 DEF ActivatePolicy, target
<1>6. CASE target > 0
  <2>1. ActivatePolicy(policy, up, used, max, limit)
          \in {0, Greatest(used, limit), CalculateScaleUp(used, target, limit),
              CalculateScaleDown(used, target, limit)}
    <3>1. CASE up
      BY <1>1, <1>6, <3>1 DEF ActivatePolicy, target
    <3>2. CASE ~up
      BY <1>1, <1>6, <3>2 DEF ActivatePolicy, target
    <3> QED BY <3>1, <3>2
  <2> QED BY <1>3, <1>4, <1>6, <2>1
<1> QED BY <1>1, <1>5, <1>6

(* What a policy asks for, dimension by dimension.                          *)
LEMMA PolicyVector ==
  ASSUME NEW policy \in Policies, NEW up, NEW quota, IsQuota(quota), NEW bounds, IsBounds(bounds)
  PROVE  ActivateScalerPolicy(policy, up, quota, bounds) \in Vectors
<1>1. ASSUME NEW d \in Dims
      PROVE  ActivatePolicy(policy, up, Value(quota.used, d), Value(quota.hard, d),
                            bounds[IF up THEN "max" ELSE "min"][Resource(d)]) \in Nat
  <2>1. Value(quota.used, d) \in Nat
    BY ValueIsNat DEF IsQuota
  <2>2. bounds[IF up THEN "max" ELSE "min"][Resource(d)] \in Nat
    BY DimsAreKnown DEF IsBounds, Sides
  <2> QED BY <2>1, <2>2, PolicyIsNat
<1> QED BY <1>1 DEF ActivateScalerPolicy, Vectors

PolicyRule(up, quota, bounds, policies, V) ==
  [i \in DOMAIN policies |->
    [v \in V |-> Replace(v, ActivateScalerPolicy(policies[i], up, quota, bounds))]]
Latest(S) == [s \in SUBSET S |-> Max(s)]

(* What holds of the resources before the policies and is kept by each of   *)
(* them holds after all of them.                                            *)
LEMMA PoliciesKeep ==
  ASSUME NEW up, NEW quota, NEW bounds, NEW E, NEW policies \in Seq(E), NEW V, NEW res \in V,
         \A v \in V, p \in E : Replace(v, ActivateScalerPolicy(p, up, quota, bounds)) \in V
  PROVE  ApplyPolicies(up, quota, bounds, res, policies) \in V
<1> DEFINE D == DOMAIN policies
           rule == PolicyRule(up, quota, bounds, policies, V)
           Solves(i) == i = [s \in SUBSET D |->
             IF s = {} THEN res
             ELSE Replace(i[s \ {Max(s)}],
                          ActivateScalerPolicy(policies[Max(s)], up, quota, bounds))]
           iter == CHOOSE i : Solves(i)
<1>1. ApplyPolicies(up, quota, bounds, res, policies) = iter[D]
  BY DEF ApplyPolicies, FoldLeft, MapThenFoldSet
<1>2. D = 1 .. Len(policies) /\ D \in SUBSET Nat /\ IsFiniteSet(D)
  BY LenProperties, PlacesAreFinite
<1>3. \A s \in SUBSET D : s # {} => Max(s) \in s
  <2>1. ASSUME NEW s \in SUBSET D, s # {}
        PROVE  Max(s) \in s
    <3>1. s \in SUBSET Nat /\ IsFiniteSet(s)
      BY <1>2, FS_Subset
    <3> QED BY <2>1, <3>1, MaxIsIn
  <2> QED BY <2>1
<1>4. \A s \in SUBSET D : s # {} => Latest(D)[s] \in s /\ Latest(D)[s] = Max(s)
  BY <1>3 DEF Latest
<1>5. rule \in [D -> [V -> V]]
  <2>1. \A i \in D : policies[i] \in E
    BY <1>2, ElementOfSeq
  <2> QED BY <2>1 DEF PolicyRule
<1> HIDE DEF D, rule
<1>6. PICK fold \in [SUBSET D -> V] : IsFold(fold, D, Latest(D), res, rule)
  BY <1>2, <1>4, <1>5, FoldExists
<1>7. Solves(fold)
  <2>1. ASSUME NEW s \in SUBSET D, s # {}
        PROVE  fold[s] = Replace(fold[s \ {Max(s)}],
                                 ActivateScalerPolicy(policies[Max(s)], up, quota, bounds))
    <3>1. Max(s) \in D /\ fold[s \ {Max(s)}] \in V
      BY <1>3, <1>6, <2>1
    <3>2. fold[s] = rule[Max(s)][fold[s \ {Max(s)}]]
      BY <1>4, <1>6, <2>1 DEF IsFold
    <3> QED BY <3>1, <3>2 DEF rule, PolicyRule, D
  <2>2. fold[{}] = res
    BY <1>6 DEF IsFold
  <2> QED BY <1>6, <2>1, <2>2
<1>8. Solves(iter)
  <2> HIDE DEF Solves
  <2> QED BY <1>7
<1> HIDE DEF iter
<1> DEFINE P == {s \in SUBSET D : iter[s] \in V}
<1>9. {} \in P
  <2>1. iter[{}] = res
    BY <1>8
  <2> QED BY <2>1
<1>10. ASSUME NEW s \in SUBSET D, s # {}, s \ {Latest(D)[s]} \in P
       PROVE  s \in P
  <2>1. Latest(D)[s] = Max(s) /\ Max(s) \in D
    BY <1>3, <1>4, <1>10
  <2>2. iter[s] = Replace(iter[s \ {Max(s)}],
                          ActivateScalerPolicy(policies[Max(s)], up, quota, bounds))
    BY <1>8, <1>10
  <2>3. iter[s \ {Max(s)}] \in V
    BY <1>10, <2>1
  <2>4. policies[Max(s)] \in E
    BY <1>2, <2>1, ElementOfSeq
  <2> QED BY <2>2, <2>3, <2>4
<1>11. P = SUBSET D
  <2>1. P \in SUBSET (SUBSET D)
    OBVIOUS
  <2>2. \A s \in SUBSET D : s # {} => Latest(D)[s] \in s
    BY <1>4
  <2>3. IsFiniteSet(D)
    BY <1>2
  <2> DEFINE c == Latest(D)
  <2>4. \A s \in SUBSET D : s # {} => c[s] \in s
    BY <2>2
  <2>5. \A s \in SUBSET D : s # {} /\ s \ {c[s]} \in P => s \in P
    BY <1>10
  <2> HIDE DEF P, c
  <2>6. Reachable(D, c, P)
    BY <1>9, <2>1, <2>3, <2>4, <2>5 DEF Reachable
  <2> QED BY <2>6, RemovalInduction
<1> QED BY <1>1, <1>11

-----------------------------------------------------------------------------
(* The quota that an evaluation aims at.                                    *)

Ordered(v) == v["requests.cpu"] <= v["limits.cpu"] /\ v["requests.memory"] <= v["limits.memory"]

(* The clamp: within the maximum, not below what was asked unless that is   *)
(* above it, and limits not below requests.                                 *)
LEMMA BoundedProperties ==
  ASSUME NEW x \in Vectors, NEW bounds, IsBounds(bounds)
  PROVE  /\ BoundQuotaResources(x, bounds) \in Vectors
         /\ Ordered(BoundQuotaResources(x, bounds))
         /\ \A d \in Dims : /\ BoundQuotaResources(x, bounds)[d] <= bounds["max"][Resource(d)]
                            /\ BoundQuotaResources(x, bounds)[d] >= Least(x[d], bounds["max"][Resource(d)])
<1> DEFINE max == [d \in Dims |-> bounds["max"][Resource(d)]]
           min == [d \in Dims |-> bounds["min"][Resource(d)]]
           low == LimitTo(MaxOf(x, min), max)
           fit == EnsureRequestsFitLimits(low)
<1>1. max \in Vectors /\ min \in Vectors
  BY DimsAreKnown DEF IsBounds, Sides, Vectors
<1>2. /\ low \in Vectors
      /\ \A d \in Dims : low[d] <= max[d] /\ low[d] >= Least(x[d], max[d])
  <2> HIDE DEF max, min
  <2>1. \A d \in Dims : x[d] \in Nat /\ max[d] \in Nat /\ min[d] \in Nat
    BY <1>1 DEF Vectors
  <2>2. \A d \in Dims : low[d] = Least(Greatest(x[d], min[d]), max[d])
    BY DEF LimitTo, MaxOf
  <2>3. \A d \in Dims : low[d] \in Nat /\ low[d] <= max[d] /\ low[d] >= Least(x[d], max[d])
    BY <2>1, <2>2 DEF Least, Greatest
  <2>4. low = [d \in Dims |-> low[d]]
    BY DEF LimitTo
  <2> HIDE DEF low
  <2> QED BY <2>3, <2>4 DEF Vectors
<1>3. BoundQuotaResources(x, bounds) = fit
  BY DEF BoundQuotaResources, Bound
<1> HIDE DEF low
<1>4. /\ fit \in Vectors
      /\ fit["requests.cpu"] = low["requests.cpu"] /\ fit["requests.memory"] = low["requests.memory"]
      /\ fit["limits.cpu"] = Greatest(low["limits.cpu"], low["requests.cpu"])
      /\ fit["limits.memory"] = Greatest(low["limits.memory"], low["requests.memory"])
  BY <1>2, DimsAreKnown DEF EnsureRequestsFitLimits, Vectors, Greatest
<1>5. /\ max["requests.cpu"] = max["limits.cpu"] /\ max["requests.memory"] = max["limits.memory"]
      /\ \A d \in Dims : max[d] = bounds["max"][Resource(d)] /\ max[d] \in Nat
      /\ \A d \in Dims : x[d] \in Nat /\ low[d] \in Nat
  BY <1>1, <1>2, DimsAreKnown DEF Vectors
<1> HIDE DEF fit, max
<1>6. Ordered(fit)
  BY <1>4, <1>5, DimsAreKnown DEF Ordered, Greatest
<1>7. ASSUME NEW d \in Dims
      PROVE  fit[d] <= max[d] /\ fit[d] >= low[d]
  <2>1. d \in {"requests.cpu", "limits.cpu", "requests.memory", "limits.memory"}
    BY DimsAreKnown
  <2> QED BY <1>2, <1>4, <1>5, <2>1, DimsAreKnown DEF Greatest
<1>8. ASSUME NEW d \in Dims
      PROVE  fit[d] >= Least(x[d], max[d])
  BY <1>2, <1>4, <1>5, <1>7 DEF Vectors, Least
<1> QED BY <1>3, <1>4, <1>5, <1>6, <1>7, <1>8

(* What a quota says of the four dimensions.                                *)
LEMMA CurrentProperties ==
  ASSUME NEW quota, IsQuota(quota)
  PROVE  /\ Current(quota) \in Vectors
         /\ \A d \in Dims : Current(quota)[d] = Value(quota.hard, d)
                            /\ Value(quota.hard, d) \in Nat /\ Value(quota.used, d) \in Nat
<1>1. \A d \in Dims : Value(quota.hard, d) \in Nat /\ Value(quota.used, d) \in Nat
  BY ValueIsNat DEF IsQuota
<1> QED BY <1>1 DEF Current, Vectors

(* The rule against mixed resizes: it only raises, to the present value,    *)
(* and keeps requests within limits.                                        *)
LEMMA ForcedProperties ==
  ASSUME NEW x \in Vectors, NEW quota, IsQuota(quota)
  PROVE  LET r == ForceNoScaleDownWhenScaleUp(x, quota)
         IN /\ r \in Vectors
            /\ Ordered(x) /\ Ordered(Current(quota)) => Ordered(r)
            /\ \A d \in Dims : r[d] >= x[d] /\ (r[d] # x[d] => r[d] = Value(quota.hard, d))
            /\ ~ \E up, down \in Dims : r[up] > Value(quota.hard, up)
                                        /\ r[down] < Value(quota.hard, down)
<1> DEFINE now == Current(quota)
           r == ForceNoScaleDownWhenScaleUp(x, quota)
<1>1. now \in Vectors /\ \A d \in Dims : now[d] = Value(quota.hard, d)
  BY CurrentProperties
<1>2. \A d \in Dims : x[d] \in Nat /\ now[d] \in Nat
  BY <1>1 DEF Vectors
<1> HIDE DEF now
<1>3. CASE \E d \in Dims : x[d] > now[d]
  <2>1. r = MaxOf(x, now)
    BY <1>1, <1>3 DEF ForceNoScaleDownWhenScaleUp, now
  <2>2. \A d \in Dims : r[d] = Greatest(x[d], now[d])
    BY <2>1 DEF MaxOf
  <2>3. r \in Vectors
    BY <1>2, <2>1 DEF MaxOf, Vectors, Greatest
  <2> HIDE DEF r
  <2>4. Ordered(x) /\ Ordered(now) => Ordered(r)
    BY <1>2, <2>2, DimsAreKnown DEF Ordered, Greatest
  <2>5. \A d \in Dims : r[d] >= x[d] /\ (r[d] # x[d] => r[d] = now[d]) /\ r[d] >= now[d] /\ r[d] \in Nat
    BY <1>2, <2>2 DEF Greatest
  <2> QED BY <1>1, <1>2, <2>3, <2>4, <2>5 DEF r, now
<1>4. CASE ~ \E d \in Dims : x[d] > now[d]
  <2>1. r = x
    BY <1>1, <1>4 DEF ForceNoScaleDownWhenScaleUp
  <2> HIDE DEF r
  <2> QED BY <1>1, <1>2, <1>4, <2>1 DEF r
<1> QED BY <1>3, <1>4

(* All policies, one after the other.                                       *)
LEMMA PoliciesAreTyped ==
  ASSUME NEW quota, IsQuota(quota), NEW s, IsScaler(s), NEW bounds, IsBounds(bounds)
  PROVE  FromPolicies(quota, s, bounds) \in Vectors
<1>1. ASSUME NEW up, NEW v \in Vectors, NEW p \in Policies
      PROVE  Replace(v, ActivateScalerPolicy(p, up, quota, bounds)) \in Vectors
  <2> DEFINE new == ActivateScalerPolicy(p, up, quota, bounds)
  <2>1. new \in Vectors
    BY PolicyVector
  <2> HIDE DEF new
  <2>2. Replace(v, new) \in Vectors
    BY <2>1 DEF Replace, Vectors
  <2> QED BY <2>2 DEF new
<1> DEFINE lowered == ApplyPolicies(FALSE, quota, bounds, Current(quota), s.down)
<1>2. Current(quota) \in Vectors
  BY CurrentProperties
<1>3. s.up \in Seq(Policies) /\ s.down \in Seq(Policies)
  BY DEF IsScaler
<1>4. ASSUME NEW up, NEW res \in Vectors, NEW policies \in Seq(Policies)
      PROVE  ApplyPolicies(up, quota, bounds, res, policies) \in Vectors
  BY <1>1, PoliciesKeep
<1>5. lowered \in Vectors
  BY <1>2, <1>3, <1>4
<1> HIDE DEF lowered
<1>6. ApplyPolicies(TRUE, quota, bounds, lowered, s.up) \in Vectors
  BY <1>3, <1>4, <1>5
<1> QED BY <1>6 DEF FromPolicies, lowered

(* A demand is met on top of what is used, whatever the policies wanted.    *)
LEMMA DemandProperties ==
  ASSUME NEW res \in Vectors, NEW quota, IsQuota(quota), NEW demand \in Vectors
  PROVE  /\ WithDemand(res, quota, demand) \in Vectors
         /\ \A d \in Dims : WithDemand(res, quota, demand)[d] >= res[d]
         /\ IsDemand(demand) =>
              \A d \in Dims : WithDemand(res, quota, demand)[d] >= Value(quota.used, d) + demand[d]
<1> DEFINE all == [d \in Dims |-> Value(quota.used, d) + demand[d]]
<1>1. \A d \in Dims : Value(quota.used, d) \in Nat /\ demand[d] \in Nat /\ res[d] \in Nat
  BY CurrentProperties DEF Vectors
<1>2. all \in Vectors /\ \A d \in Dims : all[d] = Value(quota.used, d) + demand[d] /\ all[d] \in Nat
  BY <1>1 DEF Vectors
<1>3. WithDemand(res, quota, demand) = IF IsDemand(demand) THEN MaxOf(res, all) ELSE res
  BY DEF WithDemand
<1> HIDE DEF all
<1>4. MaxOf(res, all) \in Vectors /\ \A d \in Dims : MaxOf(res, all)[d] >= res[d]
                                                  /\ MaxOf(res, all)[d] >= all[d]
  BY <1>1, <1>2 DEF MaxOf, Vectors, Greatest
<1> QED BY <1>1, <1>2, <1>3, <1>4

(* What an evaluation aims at.                                              *)
Wanted(quota, s, demand) == WithDemand(FromPolicies(quota, s, Validated(s)), quota, demand)
Bounded(quota, s, demand) == BoundQuotaResources(Wanted(quota, s, demand), Validated(s))
Maximum(s, d) == Validated(s)["max"][Resource(d)]

(* All stages together.                                                     *)
LEMMA DesiredProperties ==
  ASSUME NEW quota, IsQuota(quota), NEW s, IsScaler(s), NEW demand \in Vectors
  PROVE  /\ Desired(quota, s, demand) \in Vectors
         /\ Wanted(quota, s, demand) \in Vectors
         /\ \A d \in Dims : Maximum(s, d) \in Nat
         /\ Ordered(Current(quota)) => Ordered(Desired(quota, s, demand))
         /\ \A d \in Dims : Desired(quota, s, demand)[d] > Value(quota.hard, d)
                              => Desired(quota, s, demand)[d] <= Maximum(s, d)
         /\ \A d \in Dims : Desired(quota, s, demand)[d]
                              >= Least(Wanted(quota, s, demand)[d], Maximum(s, d))
         /\ ~ \E up, down \in Dims : /\ Desired(quota, s, demand)[up] > Value(quota.hard, up)
                                     /\ Desired(quota, s, demand)[down] < Value(quota.hard, down)
<1> DEFINE bounds == Validated(s)
           want == Wanted(quota, s, demand)
           bounded == BoundQuotaResources(want, bounds)
           r == Desired(quota, s, demand)
<1>1. IsBounds(bounds)
  BY BoundsAreValid DEF IsScaler
<1>2. want \in Vectors
  <2> HIDE DEF bounds
  <2>1. FromPolicies(quota, s, bounds) \in Vectors
    BY <1>1, PoliciesAreTyped
  <2> QED BY <2>1, DemandProperties DEF Wanted, bounds
<1>3. r = ForceNoScaleDownWhenScaleUp(bounded, quota)
  BY DEF Desired, Wanted
<1>4. \A d \in Dims : Maximum(s, d) = bounds["max"][Resource(d)] /\ Maximum(s, d) \in Nat
  BY <1>1, DimsAreKnown DEF Maximum, IsBounds, Sides
<1> HIDE DEF want, bounds
<1>5. /\ bounded \in Vectors /\ Ordered(bounded)
      /\ \A d \in Dims : bounded[d] <= Maximum(s, d) /\ bounded[d] >= Least(want[d], Maximum(s, d))
  BY <1>1, <1>2, <1>4, BoundedProperties
<1> HIDE DEF bounded
<1>6. /\ r \in Vectors
      /\ Ordered(bounded) /\ Ordered(Current(quota)) => Ordered(r)
      /\ \A d \in Dims : r[d] >= bounded[d] /\ (r[d] # bounded[d] => r[d] = Value(quota.hard, d))
      /\ ~ \E up, down \in Dims : r[up] > Value(quota.hard, up) /\ r[down] < Value(quota.hard, down)
  BY <1>3, <1>5, ForcedProperties
<1> HIDE DEF r
<1>7. \A d \in Dims : /\ r[d] \in Nat /\ bounded[d] \in Nat /\ want[d] \in Nat
                      /\ Value(quota.hard, d) \in Nat
  BY <1>2, <1>5, <1>6, CurrentProperties DEF Vectors
<1>8. \A d \in Dims : /\ r[d] > Value(quota.hard, d) => r[d] <= Maximum(s, d)
                      /\ r[d] >= Least(want[d], Maximum(s, d))
  BY <1>4, <1>5, <1>6, <1>7 DEF Least
<1> QED BY <1>2, <1>4, <1>5, <1>6, <1>8 DEF want, r

-----------------------------------------------------------------------------
(* Room for what is used, if targets are at most 100 percent: the schema    *)
(* bounds targetUtilization, and value stands in for it when it is omitted. *)
Percentages == {p \in Policies : p.target = 0 => p.value <= 100}

(* A policy asks for nothing, for what is used, or for as much of it as the *)
(* limit allows.                                                            *)
LEMMA PolicyLeavesRoom ==
  ASSUME NEW policy \in Percentages, NEW up, NEW used \in Nat, NEW max, NEW limit \in Nat,
         NEW r, r = ActivatePolicy(policy, up, used, max, limit)
  PROVE  r \in Nat /\ (r = 0 \/ r >= used \/ (up /\ r >= Least(used, limit)))
<1> DEFINE target == IF policy.target = 0 THEN policy.value ELSE policy.target
<1>1. target \in Int /\ target <= 100
  BY DEF Policies, Percentages
<1>2. r \in Nat
  BY PolicyIsNat DEF Percentages
<1>3. CASE target <= 0
  <2>1. r = 0
    BY <1>1, <1>3 DEF ActivatePolicy, target
  <2> QED BY <1>2, <2>1
<1>4. CASE target > 0
  <2>1. \/ r = 0
        \/ up /\ r = CalculateScaleUp(used, target, limit)
        \/ ~up /\ r \in {Greatest(used, limit), CalculateScaleDown(used, target, limit)}
    BY <1>1, <1>4 DEF ActivatePolicy, target
  <2> HIDE DEF target
  <2>2. target \in 1 .. 100
    BY <1>1, <1>4
  <2>3. ForTarget(used, target) \in Nat /\ ForTarget(used, target) >= used
    BY <2>2, TargetLeavesRoom
  <2>4. /\ CalculateScaleUp(used, target, limit) >= Least(used, limit)
        /\ CalculateScaleDown(used, target, limit) >= used
        /\ Greatest(used, limit) >= used
    BY <2>3 DEF CalculateScaleUp, CalculateScaleDown, Least, Greatest
  <2> QED BY <1>2, <2>1, <2>4
<1> QED BY <1>1, <1>3, <1>4

Roomy(quota, s) ==
  {v \in Vectors : \A d \in Dims : \/ v[d] >= Value(quota.hard, d)
                                   \/ v[d] >= Least(Value(quota.used, d), Maximum(s, d))}

(* A policy keeps room for what is used in each dimension that it replaces. *)
LEMMA PolicyKeepsRoom ==
  ASSUME NEW quota, IsQuota(quota), NEW s, IsScaler(s), NEW up, NEW p \in Percentages,
         NEW v \in Roomy(quota, s)
  PROVE  Replace(v, ActivateScalerPolicy(p, up, quota, Validated(s))) \in Roomy(quota, s)
<1> DEFINE bounds == Validated(s)
           new == ActivateScalerPolicy(p, up, quota, bounds)
           r == Replace(v, new)
<1>1. IsBounds(bounds)
  BY BoundsAreValid DEF IsScaler
<1>2. new \in Vectors /\ v \in Vectors
  BY <1>1, PolicyVector DEF Percentages, Roomy
<1>3. \A d \in Dims : Maximum(s, d) = bounds["max"][Resource(d)] /\ Maximum(s, d) \in Nat
  BY <1>1, DimsAreKnown DEF Maximum, IsBounds, Sides
<1>4. ASSUME NEW d \in Dims
      PROVE  new[d] = 0 \/ new[d] >= Least(Value(quota.used, d), Maximum(s, d))
  <2> DEFINE limit == bounds[IF up THEN "max" ELSE "min"][Resource(d)]
  <2>1. Value(quota.used, d) \in Nat
    BY CurrentProperties
  <2>2. limit \in Nat /\ (up => limit = Maximum(s, d))
    BY <1>1, <1>3, DimsAreKnown DEF IsBounds, Sides
  <2>3. new[d] = 0 \/ new[d] = ActivatePolicy(p, up, Value(quota.used, d), Value(quota.hard, d), limit)
    BY DEF ActivateScalerPolicy
  <2> HIDE DEF new, limit
  <2>4. new[d] \in Nat
    BY <1>2 DEF Vectors
  <2>5. \/ new[d] = 0 \/ new[d] >= Value(quota.used, d)
        \/ up /\ new[d] >= Least(Value(quota.used, d), limit)
    BY <2>1, <2>2, <2>3, PolicyLeavesRoom
  <2> QED BY <1>3, <2>1, <2>2, <2>4, <2>5 DEF Least
<1> HIDE DEF new
<1>5. r \in Vectors /\ \A d \in Dims : r[d] = IF new[d] # 0 THEN new[d] ELSE v[d]
  BY <1>2 DEF Replace, Vectors
<1> HIDE DEF r
<1>6. ASSUME NEW d \in Dims
      PROVE  r[d] >= Value(quota.hard, d) \/ r[d] >= Least(Value(quota.used, d), Maximum(s, d))
  BY <1>4, <1>5 DEF Roomy
<1> QED BY <1>5, <1>6 DEF Roomy, r, new

(* So do all policies and the demand.                                       *)
LEMMA WantedLeavesRoom ==
  ASSUME NEW quota, IsQuota(quota), NEW s, IsScaler(s),
         s.up \in Seq(Percentages), s.down \in Seq(Percentages), NEW demand \in Vectors
  PROVE  Wanted(quota, s, demand) \in Roomy(quota, s)
<1> DEFINE bounds == Validated(s)
           V == Roomy(quota, s)
           lowered == ApplyPolicies(FALSE, quota, bounds, Current(quota), s.down)
           all == ApplyPolicies(TRUE, quota, bounds, lowered, s.up)
           want == WithDemand(all, quota, demand)
<1>1. Current(quota) \in V
  BY CurrentProperties DEF Roomy, Vectors
<1>2. ASSUME NEW up, NEW res \in V, NEW policies \in Seq(Percentages)
      PROVE  ApplyPolicies(up, quota, bounds, res, policies) \in V
  <2>1. \A v \in V, p \in Percentages :
          Replace(v, ActivateScalerPolicy(p, up, quota, bounds)) \in V
    BY PolicyKeepsRoom
  <2> HIDE DEF V, bounds
  <2> QED BY <2>1, PoliciesKeep
<1> HIDE DEF V
<1>3. lowered \in V
  BY <1>1, <1>2
<1> HIDE DEF lowered
<1>4. all \in V
  BY <1>2, <1>3
<1> HIDE DEF all
<1>5. /\ want \in Vectors /\ all \in Vectors
      /\ \A d \in Dims : want[d] >= all[d]
  BY <1>4, DemandProperties DEF V, Roomy
<1>6. Wanted(quota, s, demand) = want
  BY DEF Wanted, FromPolicies, all, lowered
<1> HIDE DEF want
<1>7. \A d \in Dims : /\ Value(quota.hard, d) \in Nat /\ Value(quota.used, d) \in Nat
                      /\ Maximum(s, d) \in Nat /\ want[d] \in Nat /\ all[d] \in Nat
  BY <1>5, CurrentProperties, DesiredProperties DEF Vectors
<1>8. ASSUME NEW d \in Dims
      PROVE  want[d] >= Value(quota.hard, d) \/ want[d] >= Least(Value(quota.used, d), Maximum(s, d))
  BY <1>4, <1>5, <1>7 DEF V, Roomy, Least
<1> QED BY <1>5, <1>6, <1>8 DEF V, Roomy
=============================================================================
