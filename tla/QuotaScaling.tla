---------------------------- MODULE QuotaScaling ----------------------------
(***************************************************************************)
(* The quota of one namespace under repeated evaluation: what happens when *)
(* UpdateQuotaIfRequired computes a quota from the present one, the worker *)
(* patches it, and the result is evaluated again.  Each evaluation and its *)
(* patch are one step here; that they are not is the subject of            *)
(* QuotaUpdate and ResizeWorker.                                           *)
(***************************************************************************)
EXTENDS PodDemand

CONSTANTS
  InitialHard,   \* resource lists spec.hard may start as
  Usage,         \* functions on Dims: what the namespace's pods may use
  Objects,       \* workloads and pods that events may be about
  Scalers,       \* [min, max, up, down] of QuotaAutoscalers
  Passes         \* bound: evaluations counted since the last change from outside

(* What a container names of its requests, or of its limits.                *)
Amounts == [cpu : Nat, memory : Nat]
Containers == [requests : Amounts \cup {None}, limits : Amounts \cup {None}]
Templates == [containers : Seq(Containers), init : Seq(Containers)]

ASSUME QuotaAssumption ==
  /\ \A list \in InitialHard : /\ DOMAIN list \subseteq Dims \cup {"cpu", "memory"}
                               /\ \A name \in DOMAIN list : list[name] \in Nat
  /\ Usage \subseteq [Dims -> Nat]
  /\ IsFiniteSet(Objects)
  /\ Objects \subseteq [kind : STRING, replicas : Nat, running : Nat, template : Templates]
  /\ \A s \in Scalers : IsScaler(s)
  /\ Passes \in Nat

VARIABLES
  hard,      \* spec.hard
  used,      \* what the namespace's pods use, by dimension
  scaler,    \* the QuotaAutoscaler's spec
  pass       \* evaluations since the last change from outside

vars == <<hard, used, scaler, pass>>

Init ==
  /\ hard \in InitialHard
  /\ used \in Usage
  /\ scaler \in Scalers
  /\ pass = 0

(* status.used reports the names that spec.hard has; an alias stands for    *)
(* requests.                                                                *)
Requests(r) == IF r = "cpu" THEN "requests.cpu" ELSE "requests.memory"
Limits(r) == IF r = "cpu" THEN "limits.cpu" ELSE "limits.memory"
Reported == [name \in DOMAIN hard |-> IF name \in Dims THEN used[name] ELSE used[Requests(name)]]
Quota == [hard |-> hard, used |-> Reported]

(* One evaluation: nothing to do, or the patch the worker makes of it.      *)
Resize(demand) ==
  LET desired == Desired(Quota, scaler, demand)
  IN hard' = IF DiffersFrom(desired, Quota) THEN Patched(Quota, desired).hard ELSE hard

Evaluate ==
  /\ Resize(Nothing)
  /\ pass' = IF pass < Passes THEN pass + 1 ELSE pass
  /\ UNCHANGED <<used, scaler>>

(* For the objects of some events, as many of them as can be read.          *)
Demands == {Demand(read) : read \in SUBSET Objects}
EvaluateEvents ==
  /\ \E demand \in Demands : Resize(demand)
  /\ pass' = 0
  /\ UNCHANGED <<used, scaler>>

UsageChanges ==
  /\ used' \in Usage
  /\ pass' = 0
  /\ UNCHANGED <<hard, scaler>>

Next ==
  \/ Evaluate
  \/ EvaluateEvents
  \/ UsageChanges

Spec == Init /\ [][Next]_vars

-----------------------------------------------------------------------------
Bounds == Validated(scaler)
Ceiling(d) == Bounds.max[Resource(d)]
Now(d) == Value(hard, d)

(* The last conjunct: an alias left beside explicit names is removed by the *)
(* first evaluation, even one that has nothing to resize.                   *)
TypeOK ==
  /\ DOMAIN hard \subseteq Dims \cup {"cpu", "memory"}
  /\ \A name \in DOMAIN hard : hard[name] \in Nat
  /\ used \in Usage /\ scaler \in Scalers /\ pass \in 0 .. Passes
  /\ pass > 0 => ~HasStaleAlias(Quota)

(* Once requests fit limits they always do, although the four dimensions    *)
(* are scaled, clamped and held back separately.                            *)
Fits == \A r \in {"cpu", "memory"} : Now(Requests(r)) <= Now(Limits(r))
RequestsStayWithinLimits == [][Fits => Fits']_vars

(* A resize that takes quota away leaves room for what runs, up to the      *)
(* maximum, whatever mixture of policies and bounds produced it.            *)
NeverCutsBelowUse ==
  [][\A d \in Dims : Value(hard', d) < Now(d)
        => Value(hard', d) >= Least(Value(Reported, d), Ceiling(d))]_vars

(* The quota an evaluation for denied pods aims at has room for what        *)
(* Kubernetes will charge for all of them, up to the maximum, however       *)
(* requests and limits differ, how many replicas each workload lacks, and   *)
(* whether or not a policy wants to shrink the quota.  (A Job counts as one *)
(* pod, whatever its parallelism.)                                          *)
Lacking == {o \in Objects : /\ o.kind \in Supported /\ Explicit(o.template)
                            /\ o.kind \in Counting \/ o.replicas <= 1}
Expected == {[demand |-> Demand(named), charge |-> Charge(named)] : named \in SUBSET Lacking}
DemandIsMet ==
  \A e \in Expected :
    LET desired == Desired(Quota, scaler, e.demand)
    IN e.charge # Nothing =>
         \A d \in Dims : desired[d] >= Least(Value(Reported, d) + e.charge[d], Ceiling(d))

(* A resize never takes from one dimension while it gives to another.       *)
NoMixedResize ==
  [][~ \E up, down \in Dims : Value(hard', up) > Now(up) /\ Value(hard', down) < Now(down)]_vars

(* With nothing changing outside, the quota settles: scale-up, scale-down,  *)
(* the clamp and the request/limit rule do not chase each other.            *)
Settles == [][Evaluate /\ pass = Passes => hard' = hard]_vars

(* No dimension is raised above its maximum, although the rule against      *)
(* mixed resizes runs after the clamp.  (It may leave a dimension that is   *)
(* above its maximum where it is.)                                          *)
RaisesStayBelowMax ==
  [][\A d \in Dims : Value(hard', d) > Now(d) => Value(hard', d) <= Ceiling(d)]_vars
=============================================================================
