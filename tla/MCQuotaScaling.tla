--------------------------- MODULE MCQuotaScaling ---------------------------
(* CPU takes every value between 0 and 4, memory fewer; thresholds 70, 30   *)
(* and 100 are crossed in both directions by such quotas.                   *)
EXTENDS QuotaScaling

CONSTANTS CpuValues, MemoryValues, CpuUsage

Vectors(cpu, memory) ==
  {[d \in Dims |-> CASE d = "requests.cpu" -> rc [] d = "limits.cpu" -> lc
                     [] d = "requests.memory" -> rm [] OTHER -> lm] :
     rc \in cpu, lc \in cpu, rm \in memory, lm \in memory}

MCUsage == {u \in Vectors(CpuUsage, MemoryValues) :
              u["requests.cpu"] <= u["limits.cpu"] /\ u["requests.memory"] = u["limits.memory"]}

(* Limits above requests, two containers, requests alone, limits alone, an  *)
(* init container, and a workload that has more replicas than it wants.     *)
Amount(cpu, memory) == [cpu |-> cpu, memory |-> memory]
Container(requests, limits) == [requests |-> requests, limits |-> limits]
Workload(kind, replicas, running, containers, init) ==
  [kind |-> kind, replicas |-> replicas, running |-> running,
   template |-> [containers |-> containers, init |-> init]]
MCObjects ==
  {Workload("ReplicaSet", 2, 1, <<Container(Amount(1, 0), Amount(2, 1))>>, <<>>),
   Workload("StatefulSet", 2, 0,
            <<Container(Amount(0, 0), Amount(0, 0)), Container(Amount(0, 0), Amount(1, 0))>>, <<>>),
   Workload("ReplicationController", 1, 2, <<Container(Amount(2, 1), Amount(2, 1))>>, <<>>),
   Workload("Job", 1, 0, <<Container(Amount(1, 1), None)>>, <<>>),
   Workload("Pod", 1, 0, <<Container(None, Amount(1, 1))>>, <<Container(Amount(2, 0), Amount(2, 0))>>),
   Workload("DaemonSet", 1, 0, <<Container(Amount(1, 1), Amount(1, 1))>>, <<>>)}

(* Explicit names, names missing, aliases alone, and aliases left behind.   *)
MCInitialHard ==
  Vectors(CpuValues, MemoryValues)
    \cup {[n \in {"cpu", "memory"} |-> v] : v \in CpuValues}
    \cup {[n \in {"limits.cpu"} |-> v] : v \in CpuValues}
    \cup {[n \in Dims \cup {"cpu"} |-> v] : v \in CpuValues}

Policy(method, value, target) == [method |-> method, value |-> value, target |-> target]
SameBound(x, y) == [cpu |-> x, memory |-> y]
MCDefaults == [min |-> SameBound(1, 1), max |-> SameBound(4, 2)]

MCScalers ==
  LET bounds == {<<SameBound(1, 1), SameBound(4, 2)>>, <<SameBound(None, None), SameBound(3, None)>>}
      policies ==
        {[up |-> <<Policy("cpu", 70, 50), Policy("memory", 70, 50)>>,
          down |-> <<Policy("cpu", 30, 50), Policy("memory", 30, 50)>>],
         [up |-> <<Policy("cpu", 80, 0)>>, down |-> <<Policy("cpu", 100, 0), Policy("memory", 40, 60)>>]}
  IN {[min |-> b[1], max |-> b[2], up |-> p.up, down |-> p.down] : b \in bounds, p \in policies}
=============================================================================
