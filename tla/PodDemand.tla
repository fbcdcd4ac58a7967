----------------------------- MODULE PodDemand ------------------------------
(***************************************************************************)
(* What the pods behind a namespace's events still need:                   *)
(* internal/quota/pod_events.go, and PodRequestedResources of capacity.go. *)
(*                                                                         *)
(* An object that an event is about has a kind, the replicas it wants, the *)
(* replicas it has, and a pod template with containers and init            *)
(* containers.  A container's requests and limits are None or give cpu and *)
(* memory, zero when not named, in the unit the code scales to.            *)
(***************************************************************************)
EXTENDS QuotaPolicy

Named(list, r) == IF list = None THEN 0 ELSE list[r]

(* CalculatePodResources, one pod: limits count when they are higher, but   *)
(* a container without requests is passed over.                             *)
RequestsOnly(container, r) == Named(container.requests, r)
ContainerDemand(container, r) ==
  IF container.requests = None THEN 0
  ELSE Greatest(container.requests[r], Named(container.limits, r))
PodResources(template, r) ==
  SumFunction([i \in DOMAIN template.containers |-> ContainerDemand(template.containers[i], r)])

(* PodRequestedResources: init containers run one at a time and first.      *)
PodRequestedResources(template, r) ==
  LET requested(list) == [i \in DOMAIN list |-> Named(list[i].requests, r)]
  IN Max({SumFunction(requested(template.containers))} \cup ToSet(requested(template.init)))

(* getPodTemplateSpecFromEv: how many pods an object lacks.  A Pod or a Job *)
(* stands for one.                                                          *)
Counting == {"ReplicaSet", "StatefulSet", "ReplicationController"}
MissingReplicas(object) ==
  IF object.kind \in Counting THEN Greatest(object.replicas - object.running, 0) ELSE 1

(* GetResourceDemandsFromPodEvents, of the objects that events name, each   *)
(* once however many events it has, and that can be read.  A DaemonSet is   *)
(* skipped.  The sum under "limits" is what the quota needs, that under     *)
(* "requests" what the nodes need.                                          *)
Supported == Counting \cup {"Pod", "Job"}
Demand(objects) ==
  LET pod(o, d) == IF d \in {"limits.cpu", "limits.memory"} THEN PodResources(o.template, Resource(d))
                   ELSE PodRequestedResources(o.template, Resource(d))
  IN [d \in Dims |-> SumFunction([o \in {o \in objects : o.kind \in Supported} |->
                                     MissingReplicas(o) * pod(o, d)])]

-----------------------------------------------------------------------------
(* What Kubernetes charges to the quota for the pods that objects lack, if  *)
(* every container names both its requests and its limits.                  *)
Explicit(template) ==
  /\ template.init = <<>>
  /\ \A i \in DOMAIN template.containers :
       template.containers[i].requests # None /\ template.containers[i].limits # None
Charge(objects) ==
  LET side(d) == IF d \in {"limits.cpu", "limits.memory"} THEN "limits" ELSE "requests"
      pod(o, d) == SumFunction([i \in DOMAIN o.template.containers |->
                                  o.template.containers[i][side(d)][Resource(d)]])
  IN [d \in Dims |-> SumFunction([o \in objects |-> Greatest(o.replicas - o.running, 0) * pod(o, d)])]
=============================================================================
