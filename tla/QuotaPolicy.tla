---------------------------- MODULE QuotaPolicy -----------------------------
(***************************************************************************)
(* What a namespace's quota should be: internal/quota/scaler.go, the pure  *)
(* part of UpdateQuotaIfRequired in internal/quota/controller.go, and      *)
(* pkg/resources/resources.go.                                             *)
(*                                                                         *)
(* A ResourceList is a function whose domain is the names that are set:    *)
(* the four dimensions, and "cpu" and "memory", the aliases that older     *)
(* versions wrote.  Values are integers in the unit the code scales to     *)
(* (millicores, megabytes).  A Resources value, whose fields are zero when *)
(* unset, is a function on the four dimensions.  The storage field is      *)
(* copied through for logging and left out.                                *)
(***************************************************************************)
EXTENDS Integers, SequencesExt

CONSTANTS
  None,
  Defaults     \* bounds ValidateQuotaScaler fills in

ASSUME PolicyAssumption ==
  \A side \in {"min", "max"}, r \in {"cpu", "memory"} : Defaults[side][r] \in Nat

CpuDims == {"requests.cpu", "limits.cpu"}
MemoryDims == {"requests.memory", "limits.memory"}
Dims == CpuDims \cup MemoryDims

(* The resource of a dimension, which is also the name of its alias.        *)
Resource(d) == IF d \in CpuDims THEN "cpu" ELSE "memory"

Least(a, b) == IF a < b THEN a ELSE b
Greatest(a, b) == IF a > b THEN a ELSE b

Nothing == [d \in Dims |-> 0]

-----------------------------------------------------------------------------
(* The explicit name, else the alias, else zero.                            *)
Value(list, d) ==
  IF d \in DOMAIN list THEN list[d]
  ELSE IF Resource(d) \in DOMAIN list THEN list[Resource(d)] ELSE 0

Current(quota) == [d \in Dims |-> Value(quota.hard, d)]

(* A QuotaAutoscaler's spec: bounds that may be absent, and policies.       *)
(* targetUtilization is 1 to 100 by the CRD's schema, which does not bound  *)
(* value, and 0 when it is omitted.                                         *)
Policies == [method : STRING, value : Int, target : 0 .. 100]
IsScaler(spec) ==
  /\ \A side \in {"min", "max"}, r \in {"cpu", "memory"} : spec[side][r] \in Nat \cup {None}
  /\ spec.up \in Seq(Policies) /\ spec.down \in Seq(Policies)

(* A bound that is absent or cannot be parsed is replaced by its default.   *)
Validated(spec) ==
  [side \in {"min", "max"} |->
    [r \in {"cpu", "memory"} |->
      IF spec[side][r] = None THEN Defaults[side][r] ELSE spec[side][r]]]

-----------------------------------------------------------------------------
(* int64(float64(used) / float64(max) * 100).  The product of two doubles   *)
(* falls just short of the integer for these percentages, and is truncated. *)
FallsShort == {29, 57, 58}

Percentage(used, max) ==
  IF max = 0 THEN 0
  ELSE LET p == (used * 100) \div max
       IN IF used * 100 = p * max /\ p \in FallsShort THEN p - 1 ELSE p

(* int64(float64(used) * 100 / float64(target)): one rounding, exact enough *)
ForTargetInverted(used, target) == (used * target) \div 100
ForTarget(used, target) == (used * 100) \div target

(* activatePolicy for one dimension; zero is "nothing to do".               *)
CalculateScaleDown(used, target, limit) == Greatest(ForTarget(used, target), limit)
ScaleUpToLimit(used, target, limit) == limit
CalculateScaleUp(used, target, limit) == Least(ForTarget(used, target), limit)

ActivatePolicy(policy, up, used, max, limit) ==
  LET target == IF policy.target = 0 THEN policy.value ELSE policy.target
      percentage == Percentage(used, max)
  IN CASE target <= 0 -> 0
       [] target > 0 /\ policy.value = 100 ->
            IF ~up /\ used # max THEN Greatest(used, limit) ELSE 0
       [] target > 0 /\ policy.value # 100 /\ up /\ percentage > policy.value ->
            CalculateScaleUp(used, target, limit)
       [] target > 0 /\ policy.value # 100 /\ ~up /\ percentage < policy.value ->
            CalculateScaleDown(used, target, limit)
       [] OTHER -> 0

(* ActivateScalerPolicy: requests and limits of the policy's resource, each *)
(* by its own usage.  Of an unknown method nothing comes.                   *)
ActivateScalerPolicy(policy, up, quota, bounds) ==
  [d \in Dims |->
    IF policy.method # Resource(d) THEN 0
    ELSE ActivatePolicy(policy, up, Value(quota.used, d), Value(quota.hard, d),
                        bounds[IF up THEN "max" ELSE "min"][Resource(d)])]

(* Resources.Replace, Max, Limit and EnsureRequestsFitLimits.               *)
Replace(res, new) == [d \in Dims |-> IF new[d] # 0 THEN new[d] ELSE res[d]]
MaxOf(res, new) == [d \in Dims |-> Greatest(res[d], new[d])]
LimitTo(res, limit) == [d \in Dims |-> Least(res[d], limit[d])]

FitNothing(res) == res
EnsureRequestsFitLimits(res) ==
  [res EXCEPT !["limits.cpu"] = Greatest(@, res["requests.cpu"]),
              !["limits.memory"] = Greatest(@, res["requests.memory"])]

(* The scale-down policies, then the scale-up policies, on what there is;   *)
(* each replaces what those before it left.                                 *)
ApplyPolicies(up, quota, bounds, res, policies) ==
  FoldLeft(LAMBDA r, policy : Replace(r, ActivateScalerPolicy(policy, up, quota, bounds)),
           res, policies)
FromPolicies(quota, scaler, bounds) ==
  LET lowered == ApplyPolicies(FALSE, quota, bounds, Current(quota), scaler.down)
  IN ApplyPolicies(TRUE, quota, bounds, lowered, scaler.up)

(* Pods waiting to be created need the quota they will use on top of what   *)
(* is used.  demand holds, under "limits", the larger of their requests and *)
(* limits, and under "requests" their requests; without the former nothing  *)
(* is added.                                                                *)
IsDemand(demand) == demand["limits.cpu"] # 0 \/ demand["limits.memory"] # 0

WithDemandAlone(res, quota, demand) ==
  IF IsDemand(demand) THEN MaxOf(res, demand) ELSE res
WithDemand(res, quota, demand) ==
  IF IsDemand(demand) THEN MaxOf(res, [d \in Dims |-> Value(quota.used, d) + demand[d]]) ELSE res

(* boundQuotaResources.                                                     *)
Bound(bounds, side) == [d \in Dims |-> bounds[side][Resource(d)]]
BoundFromBelow(res, bounds) == EnsureRequestsFitLimits(MaxOf(res, Bound(bounds, "min")))
BoundQuotaResources(res, bounds) ==
  EnsureRequestsFitLimits(LimitTo(MaxOf(res, Bound(bounds, "min")), Bound(bounds, "max")))

(* If any dimension grows, none shrinks.                                    *)
ForceNothing(res, quota) == res
ForceNoScaleDownWhenScaleUp(res, quota) ==
  IF \E d \in Dims : res[d] > Value(quota.hard, d) THEN MaxOf(res, Current(quota)) ELSE res

(* The quota UpdateQuotaIfRequired and namespaceNeedsScaleOut aim at.       *)
Desired(quota, scaler, demand) ==
  LET bounds == Validated(scaler)
      wanted == WithDemand(FromPolicies(quota, scaler, bounds), quota, demand)
  IN ForceNoScaleDownWhenScaleUp(BoundQuotaResources(wanted, bounds), quota)

HasStaleAlias(quota) ==
  \E d \in Dims : {d, Resource(d)} \subseteq DOMAIN quota.hard
DiffersInValues(res, quota) == res # Current(quota)
DiffersFrom(res, quota) == HasStaleAlias(quota) \/ res # Current(quota)
IsScaleDown(res, quota) == \E d \in Dims : res[d] < Value(quota.hard, d)

(* ResourceQuotaPatch: the aliases go, the four dimensions are set.         *)
Patched(quota, res) == [quota EXCEPT !.hard = res]
=============================================================================
