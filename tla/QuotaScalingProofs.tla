------------------------- MODULE QuotaScalingProofs -------------------------
(***************************************************************************)
(* Theorems about the quota of a namespace under repeated evaluation, for  *)
(* every list of policies, all bounds, every usage and every demand.       *)
(***************************************************************************)
EXTENDS QuotaScaling, QuotaPolicyProofs

-----------------------------------------------------------------------------
(* What events demand.                                                      *)

(* What a container names, or zero.                                         *)
LEMMA NamedIsNat ==
  ASSUME NEW list \in Amounts \cup {None}, NEW r \in ResourceNames
  PROVE  Named(list, r) \in Nat /\ (list # None => list[r] \in Nat /\ Named(list, r) = list[r])
<1>1. CASE list = None
  BY <1>1 DEF Named
<1>2. CASE list # None
  <2>1. list \in Amounts
    BY <1>2
  <2>2. list["cpu"] \in Nat /\ list["memory"] \in Nat
    BY <2>1 DEF Amounts
  <2> QED BY <1>2, <2>2 DEF Named, ResourceNames
<1> QED BY <1>1, <1>2

(* A sum over the containers of a template.                                 *)
LEMMA ContainerSum ==
  ASSUME NEW list \in Seq(Containers), NEW f \in [DOMAIN list -> Nat]
  PROVE  IsFiniteSet(DOMAIN list) /\ SumFunction(f) \in Nat
<1>1. DOMAIN list = 1 .. Len(list) /\ Len(list) \in Nat
  BY LenProperties
<1>2. IsFiniteSet(DOMAIN list)
  BY <1>1, PlacesAreFinite
<1>3. DOMAIN f = DOMAIN list /\ \A x \in DOMAIN f : f[x] \in Nat
  OBVIOUS
<1> QED BY <1>2, <1>3, SumProperties

Requested(list, r) == [i \in DOMAIN list |-> Named(list[i].requests, r)]
Demanded(list, r) == [i \in DOMAIN list |-> ContainerDemand(list[i], r)]

(* What the containers of a list request and demand.                        *)
LEMMA ContainersTyped ==
  ASSUME NEW list \in Seq(Containers), NEW r \in ResourceNames
  PROVE  /\ Requested(list, r) \in [DOMAIN list -> Nat]
         /\ Demanded(list, r) \in [DOMAIN list -> Nat]
<1>1. ASSUME NEW i \in DOMAIN list
      PROVE  list[i] \in Containers
  BY LenProperties, ElementOfSeq
<1>2. ASSUME NEW c \in Containers
      PROVE  Named(c.requests, r) \in Nat /\ ContainerDemand(c, r) \in Nat
  <2>1. c.requests \in Amounts \cup {None} /\ c.limits \in Amounts \cup {None}
    BY DEF Containers
  <2>2. Named(c.limits, r) \in Nat /\ Named(c.requests, r) \in Nat
        /\ (c.requests # None => c.requests[r] \in Nat)
    BY <2>1, NamedIsNat
  <2> QED BY <2>2 DEF ContainerDemand, Greatest
<1> QED BY <1>1, <1>2 DEF Requested, Demanded

(* What a pod requests and demands.                                         *)
LEMMA TemplateTyped ==
  ASSUME NEW template \in Templates, NEW r \in ResourceNames
  PROVE  PodResources(template, r) \in Nat /\ PodRequestedResources(template, r) \in Nat
<1>1. template.containers \in Seq(Containers) /\ template.init \in Seq(Containers)
  BY DEF Templates
<1>2. PodResources(template, r) = SumFunction(Demanded(template.containers, r))
  BY DEF PodResources, Demanded
<1> DEFINE total == SumFunction(Requested(template.containers, r))
           init == Requested(template.init, r)
           all == {total} \cup ToSet(init)
<1>3. PodRequestedResources(template, r) = Max(all)
  BY DEF PodRequestedResources, Requested
<1>4. total \in Nat
  BY <1>1, ContainersTyped, ContainerSum
<1>5. init \in [DOMAIN template.init -> Nat] /\ IsFiniteSet(DOMAIN template.init)
  BY <1>1, ContainersTyped, ContainerSum
<1> HIDE DEF init, total
<1>6. ToSet(init) \in SUBSET Nat /\ IsFiniteSet(ToSet(init))
  <2>1. init \in Surjection(DOMAIN template.init, ToSet(init))
    BY <1>5 DEF Surjection, ToSet
  <2>2. IsFiniteSet(ToSet(init))
    BY <1>5, <2>1, FS_Surjection
  <2> QED BY <1>5, <2>2 DEF ToSet
<1>7. all \in SUBSET Nat /\ IsFiniteSet(all) /\ all # {}
  BY <1>4, <1>6, FS_AddElement
<1> HIDE DEF all
<1>8. Max(all) \in Nat
  BY <1>7, MaxIsIn
<1> QED BY <1>1, <1>2, <1>3, <1>8, ContainersTyped, ContainerSum

PodDemandOf(o, d) ==
  IF d \in {"limits.cpu", "limits.memory"} THEN PodResources(o.template, Resource(d))
  ELSE PodRequestedResources(o.template, Resource(d))
Missing(objects, d) ==
  [o \in {o \in objects : o.kind \in Supported} |-> MissingReplicas(o) * PodDemandOf(o, d)]

(* What an object lacks.                                                    *)
LEMMA MissingTyped ==
  ASSUME NEW objects \in SUBSET Objects, NEW d \in Dims
  PROVE  /\ IsFiniteSet({o \in objects : o.kind \in Supported})
         /\ Missing(objects, d) \in [{o \in objects : o.kind \in Supported} -> Nat]
<1>1. IsFiniteSet({o \in objects : o.kind \in Supported})
  BY QuotaAssumption, FS_Subset
<1>2. ASSUME NEW o \in objects
      PROVE  MissingReplicas(o) * PodDemandOf(o, d) \in Nat
  <2>1. o.template \in Templates /\ o.replicas \in Nat /\ o.running \in Nat
    BY QuotaAssumption
  <2>2. PodDemandOf(o, d) \in Nat
    BY <2>1, TemplateTyped, DimsAreKnown DEF PodDemandOf
  <2>3. MissingReplicas(o) \in Nat
    BY <2>1 DEF MissingReplicas, Greatest
  <2> QED BY <2>2, <2>3
<1> QED BY <1>1, <1>2 DEF Missing

(* What all objects lack, as a sum for each dimension.                      *)
LEMMA DemandTyped ==
  ASSUME NEW objects \in SUBSET Objects
  PROVE  /\ Demand(objects) \in Vectors
         /\ \A d \in Dims : Demand(objects)[d] = SumFunction(Missing(objects, d))
<1>1. Demand(objects) = [d \in Dims |-> SumFunction(Missing(objects, d))]
  BY DEF Demand, Missing, PodDemandOf
<1>2. ASSUME NEW d \in Dims
      PROVE  SumFunction(Missing(objects, d)) \in Nat
  <2> DEFINE f == Missing(objects, d)
  <2>1. IsFiniteSet(DOMAIN f) /\ \A o \in DOMAIN f : f[o] \in Nat
    <3> HIDE DEF f
    <3>1. f \in [{o \in objects : o.kind \in Supported} -> Nat]
      BY MissingTyped DEF f
    <3> QED BY <3>1, MissingTyped
  <2> HIDE DEF f
  <2>2. SumFunction(f) \in Nat
    BY <2>1, SumProperties
  <2> QED BY <2>2 DEF f
<1> QED BY <1>1, <1>2 DEF Vectors

-----------------------------------------------------------------------------
(* The steps.                                                               *)
Typed == TypeOK /\ IsQuota(Quota) /\ IsScaler(scaler)

(* The operands of an evaluation have the types that the operators expect.  *)
LEMMA TypeGivesTyped ==
  ASSUME TypeOK
  PROVE  Typed
<1>1. used \in [Dims -> Nat]
  BY QuotaAssumption DEF TypeOK
<1>2. \A name \in DOMAIN Reported : Reported[name] \in Nat
  BY <1>1, DimsAreKnown DEF Reported, Requests
<1>3. IsQuota(Quota)
  BY <1>2 DEF Quota, IsQuota, TypeOK
<1>4. IsScaler(scaler)
  BY QuotaAssumption DEF TypeOK
<1> QED BY <1>3, <1>4 DEF Typed

(* The quota becomes what an evaluation for a demand aims at.               *)
Resized(demand) == hard' = Desired(Quota, scaler, demand)

(* Every step leaves the quota alone or makes it what an evaluation aims    *)
(* at.                                                                      *)
LEMMA StepsResize ==
  ASSUME TypeOK, [Next]_vars
  PROVE  scaler' = scaler /\ (hard' = hard \/ \E demand \in Vectors : Resized(demand))
<1>1. ASSUME NEW demand, Resize(demand)
      PROVE  hard' = hard \/ Resized(demand)
  <2>1. Patched(Quota, Desired(Quota, scaler, demand)).hard = Desired(Quota, scaler, demand)
    BY DEF Patched, Quota
  <2> QED BY <1>1, <2>1 DEF Resize, Resized
<1>2. CASE Evaluate
  <2>1. Nothing \in Vectors
    BY DEF Nothing, Vectors
  <2> QED BY <1>1, <1>2, <2>1 DEF Evaluate
<1>3. CASE EvaluateEvents
  <2>1. \A demand \in Demands : demand \in Vectors
    BY DemandTyped DEF Demands
  <2> QED BY <1>1, <1>3, <2>1 DEF EvaluateEvents
<1>4. CASE UsageChanges \/ UNCHANGED vars
  BY <1>4 DEF UsageChanges, vars
<1> QED BY <1>2, <1>3, <1>4 DEF Next

(* After a resize the four dimensions are explicit.                         *)
LEMMA ResizedValues ==
  ASSUME TypeOK, NEW demand \in Vectors, Resized(demand)
  PROVE  /\ Desired(Quota, scaler, demand) \in Vectors
         /\ DOMAIN hard' = Dims /\ \A name \in DOMAIN hard' : hard'[name] \in Nat
         /\ \A d \in Dims : Value(hard', d) = Desired(Quota, scaler, demand)[d]
<1>1. Desired(Quota, scaler, demand) \in Vectors
  BY TypeGivesTyped, DesiredProperties DEF Typed
<1> QED BY <1>1 DEF Resized, Value, Vectors

(* The type invariant is inductive.                                         *)
LEMMA TypeInductive == TypeOK /\ [Next]_vars => TypeOK'
<1> SUFFICES ASSUME TypeOK, [Next]_vars PROVE TypeOK'
  OBVIOUS
<1>1. /\ DOMAIN hard' \subseteq Dims \cup {"cpu", "memory"}
      /\ \A name \in DOMAIN hard' : hard'[name] \in Nat
  <2>1. CASE hard' = hard
    BY <2>1 DEF TypeOK
  <2>2. ASSUME NEW demand \in Vectors, Resized(demand)
        PROVE  /\ DOMAIN hard' \subseteq Dims \cup {"cpu", "memory"}
               /\ \A name \in DOMAIN hard' : hard'[name] \in Nat
    BY <2>2, ResizedValues
  <2> QED BY <2>1, <2>2, StepsResize
<1>2. used' \in Usage /\ scaler' \in Scalers
  BY DEF TypeOK, Next, Evaluate, EvaluateEvents, UsageChanges, vars
<1>3. pass' \in 0 .. Passes
  BY QuotaAssumption DEF TypeOK, Next, Evaluate, EvaluateEvents, UsageChanges, vars
<1>4. pass' > 0 => ~HasStaleAlias(Quota)'
  <2> SUFFICES ASSUME pass' > 0 PROVE ~HasStaleAlias(Quota)'
    OBVIOUS
  <2>1. HasStaleAlias(Quota) <=> \E d \in Dims : {d, Resource(d)} \subseteq DOMAIN hard
    BY DEF HasStaleAlias, Quota
  <2>2. HasStaleAlias(Quota)' <=> \E d \in Dims : {d, Resource(d)} \subseteq DOMAIN hard'
    BY DEF HasStaleAlias, Quota
  <2>3. CASE UNCHANGED vars
    BY <2>1, <2>2, <2>3 DEF TypeOK, vars
  <2>4. CASE EvaluateEvents \/ UsageChanges
    BY <2>4 DEF EvaluateEvents, UsageChanges
  <2>5. CASE Evaluate
    <3>1. CASE ~DiffersFrom(Desired(Quota, scaler, Nothing), Quota)
      <4>1. hard' = hard
        BY <2>5, <3>1 DEF Evaluate, Resize
      <4>2. ~HasStaleAlias(Quota)
        BY <3>1 DEF DiffersFrom
      <4> QED BY <2>1, <2>2, <4>1, <4>2
    <3>2. CASE DiffersFrom(Desired(Quota, scaler, Nothing), Quota)
      <4>1. Resized(Nothing)
        <5>1. Patched(Quota, Desired(Quota, scaler, Nothing)).hard = Desired(Quota, scaler, Nothing)
          BY DEF Patched, Quota
        <5> QED BY <2>5, <3>2, <5>1 DEF Evaluate, Resize, Resized
      <4>2. Nothing \in Vectors
        BY DEF Nothing, Vectors
      <4>3. DOMAIN hard' = Dims
        BY <4>1, <4>2, ResizedValues
      <4>4. \A d \in Dims : Resource(d) \notin Dims
        BY DEF Dims, CpuDims, MemoryDims, Resource
      <4> QED BY <2>2, <4>3, <4>4
    <3> QED BY <3>1, <3>2
  <2> QED BY <2>3, <2>4, <2>5 DEF Next
<1> QED BY <1>1, <1>2, <1>3, <1>4 DEF TypeOK

(* It holds at the start.                                                   *)
LEMMA TypeInit == Init => TypeOK
BY QuotaAssumption DEF Init, TypeOK

(* Quotas, usage and bounds keep their types, and the aliases that older    *)
(* versions wrote are gone after the first evaluation.                      *)
THEOREM QuotaTypes == Spec => []TypeOK
BY TypeInit, TypeInductive, PTL DEF Spec

(* Requests that fit their limits still fit them after any resize.          *)
THEOREM RequestsFit == Spec => RequestsStayWithinLimits
<1>1. ASSUME TypeOK, [Next]_vars, Fits
      PROVE  Fits'
  <2>1. Fits <=> Ordered(Current(Quota))
    BY DimsAreKnown DEF Fits, Now, Requests, Limits, Ordered, Current, Quota
  <2>2. CASE hard' = hard
    BY <1>1, <2>2 DEF Fits, Now
  <2>3. ASSUME NEW demand \in Vectors, Resized(demand)
        PROVE  Fits'
    <3>1. Ordered(Desired(Quota, scaler, demand))
      BY <1>1, <2>1, TypeGivesTyped, DesiredProperties DEF Typed
    <3>2. \A d \in Dims : Now(d)' = Desired(Quota, scaler, demand)[d]
      BY <1>1, <2>3, ResizedValues DEF Now
    <3> QED BY <3>1, <3>2, DimsAreKnown DEF Fits, Requests, Limits, Ordered
  <2> QED BY <1>1, <2>2, <2>3, StepsResize
<1>2. TypeOK /\ [Next]_vars => [Fits => Fits']_vars
  BY <1>1
<1> QED BY <1>2, QuotaTypes, PTL DEF Spec, RequestsStayWithinLimits

(* No resize takes from one dimension while it gives to another.            *)
THEOREM ResizesAreOneWay == Spec => NoMixedResize
<1>1. ASSUME TypeOK, [Next]_vars, NEW up \in Dims, NEW down \in Dims,
             Value(hard', up) > Now(up), Value(hard', down) < Now(down)
      PROVE  FALSE
  <2>1. Now(up) \in Nat /\ Now(down) \in Nat
    BY <1>1, ValueIsNat DEF Now, TypeOK
  <2>2. PICK demand \in Vectors : Resized(demand)
    BY <1>1, <2>1, StepsResize DEF Now
  <2>3. Value(Quota.hard, up) = Now(up) /\ Value(Quota.hard, down) = Now(down)
    BY DEF Quota, Now
  <2> QED BY <1>1, <2>2, <2>3, TypeGivesTyped, DesiredProperties, ResizedValues DEF Typed
<1>2. TypeOK /\ [Next]_vars
        => [~ \E up, down \in Dims : Value(hard', up) > Now(up) /\ Value(hard', down) < Now(down)]_vars
  BY <1>1
<1> QED BY <1>2, QuotaTypes, PTL DEF Spec, NoMixedResize

(* No dimension is raised above its maximum.                                *)
THEOREM RaisesAreBounded == Spec => RaisesStayBelowMax
<1>1. ASSUME TypeOK, [Next]_vars, NEW d \in Dims, Value(hard', d) > Now(d)
      PROVE  Value(hard', d) <= Ceiling(d)
  <2>1. Now(d) \in Nat
    BY <1>1, ValueIsNat DEF Now, TypeOK
  <2>2. PICK demand \in Vectors : Resized(demand)
    BY <1>1, <2>1, StepsResize DEF Now
  <2>3. Value(Quota.hard, d) = Now(d) /\ Ceiling(d) = Maximum(scaler, d)
    BY DEF Quota, Now, Ceiling, Bounds, Maximum
  <2> QED BY <1>1, <2>2, <2>3, TypeGivesTyped, DesiredProperties, ResizedValues DEF Typed
<1>2. TypeOK /\ [Next]_vars
        => [\A d \in Dims : Value(hard', d) > Now(d) => Value(hard', d) <= Ceiling(d)]_vars
  BY <1>1
<1> QED BY <1>2, QuotaTypes, PTL DEF Spec, RaisesStayBelowMax

-----------------------------------------------------------------------------
(* Room for what is used.                                                   *)
TargetsArePercentages ==
  \A s \in Scalers : s.up \in Seq(Percentages) /\ s.down \in Seq(Percentages)

(* A resize that takes quota away leaves room for what runs.                *)
THEOREM RoomIsLeft ==
  ASSUME TargetsArePercentages
  PROVE  Spec => NeverCutsBelowUse
<1>1. ASSUME TypeOK, [Next]_vars, NEW d \in Dims, Value(hard', d) < Now(d)
      PROVE  Value(hard', d) >= Least(Value(Reported, d), Ceiling(d))
  <2>1. Now(d) \in Nat
    BY <1>1, ValueIsNat DEF Now, TypeOK
  <2>2. PICK demand \in Vectors : Resized(demand)
    BY <1>1, <2>1, StepsResize DEF Now
  <2>3. /\ Value(Quota.hard, d) = Now(d) /\ Ceiling(d) = Maximum(scaler, d)
        /\ Value(Quota.used, d) = Value(Reported, d)
    BY DEF Quota, Now, Ceiling, Bounds, Maximum
  <2> DEFINE want == Wanted(Quota, scaler, demand)
             r == Desired(Quota, scaler, demand)
  <2>4. IsQuota(Quota) /\ IsScaler(scaler) /\ scaler \in Scalers
    BY <1>1, TypeGivesTyped DEF Typed, TypeOK
  <2>5. want \in Roomy(Quota, scaler)
    BY <2>4, WantedLeavesRoom DEF TargetsArePercentages
  <2>6. /\ r \in Vectors /\ want \in Vectors /\ Maximum(scaler, d) \in Nat
        /\ r[d] >= Least(want[d], Maximum(scaler, d))
    BY <2>4, DesiredProperties
  <2>7. Value(hard', d) = r[d]
    BY <1>1, <2>2, ResizedValues
  <2>8. Value(Reported, d) \in Nat
    BY <2>3, <2>4, CurrentProperties
  <2> HIDE DEF want, r
  <2>9. want[d] >= Now(d) \/ want[d] >= Least(Value(Reported, d), Maximum(scaler, d))
    BY <2>3, <2>5 DEF Roomy
  <2>10. r[d] \in Nat /\ want[d] \in Nat
    BY <2>6 DEF Vectors
  <2> QED BY <1>1, <2>1, <2>3, <2>6, <2>7, <2>8, <2>9, <2>10 DEF Least
<1>2. TypeOK /\ [Next]_vars
        => [\A d \in Dims : Value(hard', d) < Now(d)
              => Value(hard', d) >= Least(Value(Reported, d), Ceiling(d))]_vars
  BY <1>1
<1> QED BY <1>2, QuotaTypes, PTL DEF Spec, NeverCutsBelowUse

-----------------------------------------------------------------------------
(* Room for what events demand.                                             *)

(* What one container, or one pod, is charged when it names everything.     *)
Charged(container, d) ==
  container[IF d \in {"limits.cpu", "limits.memory"} THEN "limits" ELSE "requests"][Resource(d)]
ChargedAll(list, d) == [i \in DOMAIN list |-> Charged(list[i], d)]
PodCharge(o, d) == SumFunction(ChargedAll(o.template.containers, d))
LimitOf(d) == IF d \in CpuDims THEN "limits.cpu" ELSE "limits.memory"

(* The demand of a container covers its charge; what it demands as limits   *)
(* covers its charge as requests too.                                       *)
LEMMA ContainerIsCovered ==
  ASSUME NEW c \in Containers, c.requests # None, c.limits # None, NEW d \in Dims
  PROVE  /\ Charged(c, d) \in Nat
         /\ Charged(c, d) <= ContainerDemand(c, Resource(d))
         /\ d \notin {"limits.cpu", "limits.memory"} => Charged(c, d) = Named(c.requests, Resource(d))
<1>1. c.requests \in Amounts /\ c.limits \in Amounts
  BY DEF Containers
<1>2. Resource(d) \in ResourceNames
  BY DimsAreKnown
<1>3. /\ c.requests[Resource(d)] \in Nat /\ Named(c.requests, Resource(d)) = c.requests[Resource(d)]
      /\ c.limits[Resource(d)] \in Nat /\ Named(c.limits, Resource(d)) = c.limits[Resource(d)]
  BY <1>1, <1>2, NamedIsNat
<1>4. Charged(c, d) = IF d \in {"limits.cpu", "limits.memory"} THEN c.limits[Resource(d)]
                      ELSE c.requests[Resource(d)]
  BY DEF Charged
<1>5. ContainerDemand(c, Resource(d)) = Greatest(c.requests[Resource(d)], c.limits[Resource(d)])
  BY <1>3 DEF ContainerDemand
<1> QED BY <1>3, <1>4, <1>5 DEF Greatest

(* So the demand of a pod covers its charge.                                *)
LEMMA PodIsCovered ==
  ASSUME NEW o, o.template \in Templates, Explicit(o.template), NEW d \in Dims
  PROVE  /\ PodCharge(o, d) \in Nat /\ PodDemandOf(o, d) \in Nat
         /\ PodCharge(o, d) <= PodDemandOf(o, d)
         /\ PodDemandOf(o, LimitOf(d)) \in Nat /\ PodCharge(o, d) <= PodDemandOf(o, LimitOf(d))
<1> DEFINE list == o.template.containers
           r == Resource(d)
           charged == ChargedAll(list, d)
<1>1. list \in Seq(Containers)
  BY DEF Templates
<1>2. r \in ResourceNames
  BY DimsAreKnown
<1>3. \A i \in DOMAIN list : /\ list[i] \in Containers
                             /\ list[i].requests # None /\ list[i].limits # None
  BY <1>1, LenProperties, ElementOfSeq DEF Explicit
<1>4. charged \in [DOMAIN list -> Nat]
  BY <1>3, ContainerIsCovered DEF ChargedAll
<1>5. /\ Demanded(list, r) \in [DOMAIN list -> Nat]
      /\ Requested(list, r) \in [DOMAIN list -> Nat]
  BY <1>1, <1>2, ContainersTyped
<1>6. IsFiniteSet(DOMAIN list) /\ SumFunction(charged) \in Nat
  BY <1>1, <1>4, ContainerSum
<1>7. \A i \in DOMAIN list : charged[i] <= Demanded(list, r)[i]
  BY <1>3, ContainerIsCovered DEF ChargedAll, Demanded
<1>8. SumFunction(charged) <= PodResources(o.template, r)
  <2>1. PodResources(o.template, r) = SumFunction(Demanded(list, r))
    BY DEF PodResources, Demanded
  <2> HIDE DEF charged, list, r
  <2>2. SumFunction(charged) <= SumFunction(Demanded(list, r))
    BY <1>4, <1>5, <1>6, <1>7, SumMonotone
  <2> QED BY <2>1, <2>2
<1>9. PodResources(o.template, r) \in Nat /\ PodRequestedResources(o.template, r) \in Nat
  BY <1>2, TemplateTyped
<1>10. d \notin {"limits.cpu", "limits.memory"} => SumFunction(charged) <= PodRequestedResources(o.template, r)
  <2> SUFFICES ASSUME d \notin {"limits.cpu", "limits.memory"}
               PROVE  SumFunction(charged) <= PodRequestedResources(o.template, r)
    OBVIOUS
  <2>1. charged = Requested(list, r)
    BY <1>3, ContainerIsCovered DEF ChargedAll, Requested
  <2>2. PodRequestedResources(o.template, r)
          = Max({SumFunction(Requested(list, r))} \cup ToSet(Requested(o.template.init, r)))
    BY DEF PodRequestedResources, Requested
  <2>3. ToSet(Requested(o.template.init, r)) = {}
    BY DEF Explicit, Requested, ToSet
  <2> HIDE DEF charged
  <2>4. PodRequestedResources(o.template, r) = Max({SumFunction(charged)})
    BY <2>1, <2>2, <2>3
  <2>5. {SumFunction(charged)} \in SUBSET Nat /\ IsFiniteSet({SumFunction(charged)})
    BY <1>6, FS_Singleton
  <2>6. Max({SumFunction(charged)}) \in {SumFunction(charged)}
    BY <2>5, MaxIsIn
  <2> QED BY <1>6, <2>4, <2>6
<1>11. LimitOf(d) \in {"limits.cpu", "limits.memory"} /\ Resource(LimitOf(d)) = r
  BY DimsAreKnown DEF LimitOf, Resource, CpuDims, MemoryDims, Dims
<1>12. PodDemandOf(o, LimitOf(d)) = PodResources(o.template, r)
  BY <1>11 DEF PodDemandOf
<1>13. PodDemandOf(o, d) = IF d \in {"limits.cpu", "limits.memory"} THEN PodResources(o.template, r)
                           ELSE PodRequestedResources(o.template, r)
  BY DEF PodDemandOf
<1>14. PodCharge(o, d) = SumFunction(charged)
  BY DEF PodCharge
<1> HIDE DEF charged
<1> QED BY <1>6, <1>8, <1>9, <1>10, <1>12, <1>13, <1>14

Charges(objects, d) == [o \in objects |-> Greatest(o.replicas - o.running, 0) * PodCharge(o, d)]

(* And the demand of the workloads that lack pods covers the charge for all *)
(* of them.                                                                 *)
LEMMA DemandCoversCharge ==
  ASSUME NEW named \in SUBSET Lacking, NEW d \in Dims
  PROVE  /\ Charge(named)[d] \in Nat
         /\ Charge(named)[d] <= Demand(named)[d]
         /\ Charge(named)[d] <= Demand(named)[LimitOf(d)]
<1>1. named \in SUBSET Objects
  BY DEF Lacking
<1>2. {o \in named : o.kind \in Supported} = named
  BY DEF Lacking
<1>3. LimitOf(d) \in Dims
  BY DimsAreKnown DEF LimitOf
<1>4. \A e \in Dims : /\ Demand(named)[e] = SumFunction(Missing(named, e))
                      /\ Missing(named, e) \in [named -> Nat]
  BY <1>1, <1>2, DemandTyped, MissingTyped
<1>5. IsFiniteSet(named)
  BY <1>1, QuotaAssumption, FS_Subset
<1>6. Charge(named)[d] = SumFunction(Charges(named, d))
  BY DEF Charge, Charges, PodCharge, ChargedAll, Charged
<1>7. ASSUME NEW o \in named
      PROVE  /\ Greatest(o.replicas - o.running, 0) * PodCharge(o, d) \in Nat
             /\ Greatest(o.replicas - o.running, 0) * PodCharge(o, d) <= Missing(named, d)[o]
             /\ Greatest(o.replicas - o.running, 0) * PodCharge(o, d) <= Missing(named, LimitOf(d))[o]
  <2>1. /\ o.template \in Templates /\ o.replicas \in Nat /\ o.running \in Nat
        /\ Explicit(o.template) /\ (o.kind \in Counting \/ o.replicas <= 1)
    BY <1>1, QuotaAssumption DEF Lacking
  <2>2. /\ Missing(named, d)[o] = MissingReplicas(o) * PodDemandOf(o, d)
        /\ Missing(named, LimitOf(d))[o] = MissingReplicas(o) * PodDemandOf(o, LimitOf(d))
    BY <1>2 DEF Missing
  <2> DEFINE lacks == Greatest(o.replicas - o.running, 0)
             missing == MissingReplicas(o)
             charge == PodCharge(o, d)
             this == PodDemandOf(o, d)
             limit == PodDemandOf(o, LimitOf(d))
  <2>3. lacks \in Nat /\ missing \in Nat /\ lacks <= missing
    BY <2>1 DEF Greatest, MissingReplicas
  <2>4. charge \in Nat /\ this \in Nat /\ limit \in Nat /\ charge <= this /\ charge <= limit
    BY <2>1, PodIsCovered
  <2> HIDE DEF lacks, missing, charge, this, limit
  <2>5. lacks * charge \in Nat /\ lacks * charge <= missing * charge
    BY <2>3, <2>4
  <2>6. missing * charge <= missing * this /\ missing * charge <= missing * limit
    BY <2>3, <2>4
  <2>7. missing * charge \in Nat /\ missing * this \in Nat /\ missing * limit \in Nat
    BY <2>3, <2>4
  <2>8. lacks * charge <= missing * this /\ lacks * charge <= missing * limit
    BY <2>5, <2>6, <2>7
  <2> QED BY <2>2, <2>5, <2>8 DEF lacks, missing, charge, this, limit
<1> DEFINE charges == Charges(named, d)
<1>8. /\ charges \in [named -> Nat]
      /\ \A o \in named : charges[o] <= Missing(named, d)[o] /\ charges[o] <= Missing(named, LimitOf(d))[o]
  BY <1>7 DEF Charges
<1> HIDE DEF charges
<1>9. SumFunction(charges) \in Nat
  <2>1. IsFiniteSet(DOMAIN charges) /\ \A o \in DOMAIN charges : charges[o] \in Nat
    BY <1>5, <1>8
  <2> QED BY <2>1, SumProperties
<1>10. SumFunction(charges) <= SumFunction(Missing(named, d))
  BY <1>4, <1>5, <1>8, SumMonotone
<1>11. SumFunction(charges) <= SumFunction(Missing(named, LimitOf(d)))
  BY <1>3, <1>4, <1>5, <1>8, SumMonotone
<1> QED BY <1>3, <1>4, <1>6, <1>9, <1>10, <1>11 DEF charges

(* The quota an evaluation aims at has room for the charge of every         *)
(* workload that lacks pods, on top of what is used, up to the maximum.     *)
THEOREM ChargesFit == Spec => []DemandIsMet
<1>1. ASSUME TypeOK
      PROVE  DemandIsMet
  <2> SUFFICES ASSUME NEW named \in SUBSET Lacking, Charge(named) # Nothing, NEW d \in Dims
               PROVE  Desired(Quota, scaler, Demand(named))[d]
                        >= Least(Value(Reported, d) + Charge(named)[d], Ceiling(d))
    BY DEF DemandIsMet, Expected
  <2> DEFINE demand == Demand(named)
             charge == Charge(named)
             res == FromPolicies(Quota, scaler, Validated(scaler))
             want == Wanted(Quota, scaler, demand)
             r == Desired(Quota, scaler, demand)
  <2>1. IsQuota(Quota) /\ IsScaler(scaler)
    BY <1>1, TypeGivesTyped DEF Typed
  <2>2. demand \in Vectors
    BY DemandTyped DEF Lacking
  <2>3. \A e \in Dims : charge[e] \in Nat /\ charge[e] <= demand[e] /\ charge[e] <= demand[LimitOf(e)]
    BY DemandCoversCharge
  <2>4. \E e \in Dims : charge[e] # 0
    BY DEF Charge, Nothing
  <2> HIDE DEF demand, charge
  <2>5. IsDemand(demand)
    <3>1. PICK e \in Dims : charge[e] # 0
      BY <2>4
    <3>2. LimitOf(e) \in {"limits.cpu", "limits.memory"}
      BY DEF LimitOf
    <3>3. demand["limits.cpu"] \in Nat /\ demand["limits.memory"] \in Nat
      BY <2>2, DimsAreKnown DEF Vectors
    <3>4. charge[e] \in Nat /\ charge[e] <= demand[LimitOf(e)]
      BY <2>3
    <3>5. demand[LimitOf(e)] # 0
      BY <3>1, <3>2, <3>3, <3>4
    <3> QED BY <3>2, <3>5 DEF IsDemand
  <2>6. res \in Vectors
    BY <2>1, BoundsAreValid, PoliciesAreTyped DEF IsScaler
  <2>7. want[d] >= Value(Quota.used, d) + demand[d]
    <3>1. want = WithDemand(res, Quota, demand)
      BY DEF Wanted
    <3> HIDE DEF res, want
    <3> QED BY <2>1, <2>2, <2>5, <2>6, <3>1, DemandProperties
  <2>8. /\ r \in Vectors /\ want \in Vectors /\ Maximum(scaler, d) \in Nat
        /\ r[d] >= Least(want[d], Maximum(scaler, d))
    BY <2>1, <2>2, DesiredProperties
  <2> HIDE DEF want, r
  <2>9. Value(Quota.used, d) = Value(Reported, d) /\ Ceiling(d) = Maximum(scaler, d)
    BY DEF Quota, Ceiling, Bounds, Maximum
  <2>10. Value(Reported, d) \in Nat
    BY <2>1, <2>9, CurrentProperties
  <2>11. r[d] \in Nat /\ want[d] \in Nat /\ demand[d] \in Nat
    BY <2>2, <2>8 DEF Vectors
  <2>12. r[d] >= Least(Value(Reported, d) + charge[d], Ceiling(d))
    BY <2>3, <2>7, <2>8, <2>9, <2>10, <2>11 DEF Least
  <2> QED BY <2>12 DEF r, charge, demand
<1>2. TypeOK => DemandIsMet
  BY <1>1
<1> QED BY <1>2, QuotaTypes, PTL
=============================================================================
