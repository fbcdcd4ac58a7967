------------------------------ MODULE EndToEnd ------------------------------
(***************************************************************************)
(* From a denied pod to a pod: QuotaUpdate's goroutines between the quota  *)
(* and the pods they are about.  A workload that lacks replicas tries to   *)
(* create them, Kubernetes denies what the quota has no room for, the      *)
(* event starts an evaluation on the watch loop's copy of the quota, the   *)
(* resize worker patches the quota with what came out, and the workload    *)
(* tries again.  Meanwhile the periodic check evaluates as well, on a copy *)
(* that may be older than what the others have done since.                 *)
(*                                                                         *)
(* Every step of a goroutine is one of QuotaUpdate.  The watch loop is     *)
(* reduced to its copy of the quota (QuotaWatcher has the loop), the       *)
(* worker to the operations of ResizeContract with the value each carries. *)
(***************************************************************************)
EXTENDS QuotaUpdate

VARIABLES
  hard,     \* spec.hard in the API server, by namespace
  copy,     \* watcher.Quotas: as a watch event had it
  resizing, \* the value that the resize worker is patching in, or None
  parked    \* the value of the immediate request that waits for it, or None

quotaVars == <<hard, copy>>
workerVars == <<resizing, parked>>
loopVars == <<vars, quotaVars, workerVars>>

Snapshot(ns) == [hard |-> hard[ns], used |-> used[ns], ready |-> TRUE]

LoopInit ==
  /\ Init
  /\ hard \in [Namespaces -> {quota.hard : quota \in Quotas}]
  /\ copy = [ns \in Namespaces |-> Snapshot(ns)]
  /\ resizing = [ns \in Namespaces |-> None]
  /\ parked = [ns \in Namespaces |-> None]

-----------------------------------------------------------------------------
(* The namespace's workload: it creates a pod that it lacks, or is denied,  *)
(* which is an event; a pod ends, and the workload lacks one more.          *)
CreatePod(ns) ==
  /\ denied[ns] > 0 /\ used[ns] < hard[ns]
  /\ denied' = [denied EXCEPT ![ns] = @ - 1]
  /\ used' = [used EXCEPT ![ns] = @ + 1]
  /\ UNCHANGED <<workers, call, pending, outQ, channel, quotaVars, workerVars>>

PodEnds(ns) ==
  /\ used[ns] > 0
  /\ used' = [used EXCEPT ![ns] = @ - 1]
  /\ denied' = [denied EXCEPT ![ns] = @ + 1]
  /\ UNCHANGED <<workers, call, pending, outQ, channel, quotaVars, workerVars>>

-----------------------------------------------------------------------------
(* The watch loop: a quota event, and the two ways to start a goroutine.    *)
QuotaEvent(ns) ==
  /\ copy' = [copy EXCEPT ![ns] = Snapshot(ns)]
  /\ UNCHANGED <<vars, hard, workerVars>>

Evaluate(ns, kinds) ==
  /\ UpdateNs(ns, kinds)
  /\ \A c \in Calls : call'[c] # call[c] => call'[c].quota = copy[ns]
  /\ UNCHANGED <<quotaVars, workerVars>>

PeriodicCheck(ns) == Evaluate(ns, {})
PodDenied(ns) == denied[ns] > 0 /\ used[ns] >= hard[ns] /\ Evaluate(ns, {"FailedCreate"})

Goroutine(c) == CallStep(c) /\ UNCHANGED <<quotaVars, workerVars>>
Sends(c) == SendResize(c) /\ UNCHANGED <<quotaVars, workerVars>>

-----------------------------------------------------------------------------
(* The resize worker.  An immediate request starts an operation or waits    *)
(* for the one in progress; a periodic one starts an operation or, within   *)
(* the update interval or beside one in progress, comes to nothing.         *)
Receive ==
  /\ channel # None
  /\ channel' = None
  /\ LET ns == channel.ns IN
       \/ /\ resizing[ns] = None
          /\ resizing' = [resizing EXCEPT ![ns] = channel.value]
          /\ UNCHANGED parked
       \/ /\ resizing[ns] # None /\ channel.immediate
          /\ parked' = [parked EXCEPT ![ns] = channel.value]
          /\ UNCHANGED resizing
       \/ /\ ~channel.immediate
          /\ UNCHANGED <<resizing, parked>>
  /\ UNCHANGED <<cluster, call, pending, outQ, quotaVars>>

(* An operation ends, and the immediate one that waits for it begins.       *)
Finish(ns) ==
  /\ resizing[ns] # None
  /\ resizing' = [resizing EXCEPT ![ns] = parked[ns]]
  /\ parked' = [parked EXCEPT ![ns] = None]
  /\ UNCHANGED <<vars, copy>>

Patch(ns) == Finish(ns) /\ hard' = [hard EXCEPT ![ns] = resizing[ns]]
PatchFails(ns) == Finish(ns) /\ UNCHANGED hard

(* Node scaling adds capacity or does not; other pods may take it.          *)
Nodes == (ServeScaleOut \/ ScaleIn) /\ UNCHANGED <<quotaVars, workerVars>>

-----------------------------------------------------------------------------
LoopNext ==
  \/ \E ns \in Namespaces : \/ CreatePod(ns) \/ PodEnds(ns)
                            \/ QuotaEvent(ns) \/ PeriodicCheck(ns) \/ PodDenied(ns)
                            \/ Patch(ns) \/ PatchFails(ns)
  \/ \E c \in Calls : Goroutine(c)
  \/ Receive \/ Nodes

(* Beyond QuotaUpdate's: quota events arrive, a workload that lacks         *)
(* replicas is denied again and again, it tries while a raise stands if     *)
(* raises go on standing, and patches do not always fail.                   *)
LoopFairness ==
  /\ \A c \in Calls : WF_loopVars(Goroutine(c)) /\ SF_loopVars(Sends(c))
  /\ WF_loopVars(Receive)
  /\ \A ns \in Namespaces :
       /\ WF_loopVars(QuotaEvent(ns))
       /\ SF_loopVars(PodDenied(ns)) /\ SF_loopVars(CreatePod(ns)) /\ SF_loopVars(Patch(ns))
       /\ SF_loopVars(PeriodicCheck(ns))

LoopSpec == LoopInit /\ [][LoopNext]_loopVars /\ LoopFairness

-----------------------------------------------------------------------------
(* A workload whose pods the maximum and the worker nodes have room for is  *)
(* not denied for ever: however old the copies were that evaluations worked *)
(* on, whatever cut the quota in between, whoever held pendingScaleOut.     *)
Ceiling == Validated(Scaler).max["cpu"]
Servable(ns) == denied[ns] > 0 /\ used[ns] < Ceiling /\ denied[ns] <= Free
DeniedPodsAreCreated ==
  \A ns \in Namespaces : []<>~Servable(ns) \/ []<><<CreatePod(ns)>>_loopVars
=============================================================================
