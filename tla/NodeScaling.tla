---------------------------- MODULE NodeScaling -----------------------------
(***************************************************************************)
(* The node scaling controller, internal/nodescaling/controller.go and     *)
(* scalein_trigger.go: one goroutine (Run) that serves scale-out requests, *)
(* scale-in requests and a ticker, and one goroutine per node that is      *)
(* being drained (a scale-in waiter).  They share the map scaleInWaiters   *)
(* (registry), the request channels, the inventory object and the nodes.   *)
(*                                                                         *)
(* Each step is one call of the Kubernetes API or of git, together with    *)
(* the local computation around it; a Get followed by an Update of the     *)
(* same object is one step that may fail, because the API server refuses   *)
(* an Update whose object has changed since the Get.  Whatever the handler *)
(* read before a step and uses after it is kept in main or waiter.         *)
(*                                                                         *)
(* Data: nodes are numbers (so that names sort); every scaling node has    *)
(* capacity for one pod, and baseFree is the free capacity of the other    *)
(* worker nodes in the same unit.  A missing inventory object reads as an  *)
(* empty one, which makes the controller do the same (nothing).            *)
(***************************************************************************)
EXTENDS ScalingInventory

CONSTANTS
  Nodes,            \* machines the MachineDeployment may ever create: 1 .. N
  Slots,            \* slots for waiter goroutines
  MaxNodes,         \* --node-scaling-max-nodes
  PreparedSpares,   \* --node-scaling-prepared-spares
  ActivatedSpares,  \* --node-scaling-activated-spares
  QueueCap,         \* capacity of the request channels (128 in the code)
  InitialReplicas,  \* spec.replicas the manifest may start with
  BaseFree,         \* most free capacity on the other worker nodes
  ForceEnabled,     \* --enable-node-scale-in-force
  ApiFails,         \* whether API and git calls may fail
  Relabels,         \* whether something outside puts the scaling label back on nodes
  MaxRequests,      \* bound: scale-out requests accepted in a run
  MaxCrashes,       \* bound: crashes of the controller
  None

(* Where a waiter goroutine can be.                                         *)
WaiterPCs == {"waiting", "reserved", "drained", "marked", "exiting"}

ASSUME ScalingAssumption ==
  /\ Nodes \subseteq Nat
  /\ MaxNodes \in Nat \ {0} /\ PreparedSpares \in Nat \ {0} /\ ActivatedSpares \in Nat \ {0}
  /\ QueueCap \in Nat \ {0}
  /\ InitialReplicas \subseteq Nat
  /\ BaseFree \in Nat
  /\ MaxRequests \in Nat /\ MaxCrashes \in Nat
  /\ None \notin [node : Nodes, pc : WaiterPCs, cancelled : BOOLEAN]

VARIABLES
  status,     \* "unborn", "up" or "gone": the machine behind each node
  marks,      \* the scaling label and the NoSchedule taint of each node
  pods,       \* whether a pod that blocks scale-in runs on the node
  baseFree,   \* free capacity of the worker nodes that are no scaling nodes
  replicas,   \* spec.replicas in the manifest, as pushed
  inventory,  \* the NodeScalingInventory object
  outQ, inQ,  \* number of requests in scaleOutRequests and scaleInRequests
  main,       \* the Run goroutine: where it is and what it remembers
  trigger,    \* scaleInEligibleSince: zero, set, or set at least the delay ago
  registry,   \* the map scaleInWaiters
  waiter,     \* the waiter goroutines
  requested, crashes   \* how much of the two bounds is used up

cluster == <<status, pods, baseFree>>
vars == <<status, marks, pods, baseFree, replicas, inventory, outQ, inQ,
          main, trigger, registry, waiter, requested, crashes>>
bounds == <<requested, crashes>>

Marks == {"label", "taint"}

(* The Run goroutine.  todo: nodes still to activate or to reserve; reuse:  *)
(* those of them taken from waiters; count: replicas to add or to remove;   *)
(* removable: evaluation.RemovableNodes.                                    *)
At(pc) == [pc |-> pc, todo |-> <<>>, reuse |-> {}, count |-> 0, removable |-> {}]
Idle == At("idle")

Init ==
  /\ status = [n \in Nodes |-> "unborn"]
  /\ marks = [n \in Nodes |-> {}]
  /\ pods = [n \in Nodes |-> FALSE]
  /\ baseFree \in 0 .. BaseFree
  /\ replicas \in InitialReplicas
  /\ inventory = [nodes |-> <<>>, replicas |-> 0]
  /\ outQ = 0 /\ inQ = 0
  /\ main = At("baseline")
  /\ trigger = "unset"
  /\ registry = [n \in Nodes |-> None]
  /\ waiter = [w \in Slots |-> None]
  /\ requested = 0 /\ crashes = 0

-----------------------------------------------------------------------------
Up == {n \in Nodes : status[n] = "up"}
HasScalingRole(n) == marks[n] # {}
HasReservation(n) == marks[n] = Marks
Schedulable(n) == n \in Up /\ "taint" \notin marks[n]
Registered == {n \in Nodes : registry[n] # None}

Smaller(a, b) == IF a < b THEN a ELSE b
Bigger(a, b) == IF a > b THEN a ELSE b

(* HandleScaleInRequest: a full queue refuses the request.                  *)
EnqueueUnbounded == inQ' = inQ + 1
EnqueueScaleIn == inQ' = IF inQ < QueueCap THEN inQ + 1 ELSE inQ

-----------------------------------------------------------------------------
(* Scale-out.                                                               *)

(* FindReusableScaleInWaiterNodes: used nodes with a registered waiter, in  *)
(* inventory order.                                                         *)
ReusableWaiters(limit) ==
  LET used == UsedNodes(inventory.nodes)
  IN AtMost(limit, Pick(used, {i \in DOMAIN used : used[i] \in Registered}))

(* How many spares to replace, given the replicas the inventory records.    *)
ReplenishCount(spares) ==
  IF inventory.replicas + spares > MaxNodes
  THEN Bigger(MaxNodes - inventory.replicas, 0) ELSE spares

RequestScaleOut ==
  /\ outQ < QueueCap
  /\ requested < MaxRequests
  /\ outQ' = outQ + 1
  /\ requested' = requested + 1
  /\ UNCHANGED <<cluster, marks, replicas, inventory, inQ, main, trigger, registry, waiter, crashes>>

(* ReconcileScaleOut up to the choice of nodes.  Nothing to activate is an  *)
(* error; so is a failed Get.                                               *)
BeginScaleOut ==
  /\ main.pc = "idle" /\ outQ > 0
  /\ outQ' = outQ - 1
  /\ LET reuse == ReusableWaiters(ActivatedSpares)
         spares == FindUnused(inventory.nodes, ActivatedSpares - Len(reuse))
     IN \/ /\ reuse \o spares # <<>>
           /\ main' = [At("activate") EXCEPT !.todo = reuse \o spares,
                                             !.reuse = ToSet(reuse),
                                             !.count = ReplenishCount(Len(spares))]
        \/ /\ reuse \o spares = <<>> \/ ApiFails
           /\ main' = Idle
  /\ UNCHANGED <<cluster, marks, replicas, inventory, inQ, trigger, registry, waiter, bounds>>

(* StopScaleInWaiter: the entry goes, and the context of the goroutine that *)
(* made it is cancelled.                                                    *)
StopScaleInWaiter(n) ==
  /\ registry' = [registry EXCEPT ![n] = None]
  /\ waiter' = IF n \notin Registered THEN waiter
               ELSE [waiter EXCEPT ![registry[n].slot].cancelled = TRUE]

(* A waiter's node is first taken from its waiter; then label and taint go. *)
(* An error ends the reconciliation where it is.                            *)
ActivateNode ==
  /\ main.pc = "activate"
  /\ LET n == Head(main.todo) IN
       /\ IF n \in main.reuse THEN StopScaleInWaiter(n) ELSE UNCHANGED <<registry, waiter>>
       /\ \/ /\ n \in Up
             /\ marks' = [marks EXCEPT ![n] = {}]
             /\ main' = [main EXCEPT !.pc = "markUsed"]
          \/ /\ n \notin Up \/ ApiFails
             /\ main' = Idle
             /\ UNCHANGED marks
  /\ UNCHANGED <<cluster, replicas, inventory, outQ, inQ, trigger, bounds>>

(* MarkNodeUsed; after the last node the scale-in trigger is reset.         *)
MarkUsed ==
  /\ main.pc = "markUsed"
  /\ LET n == Head(main.todo)
         rest == Tail(main.todo)
     IN \/ /\ n \in Names(inventory.nodes)
           /\ inventory' = [inventory EXCEPT !.nodes = SetUsage(@, n, TRUE)]
           /\ main' = [main EXCEPT !.todo = rest,
                                   !.pc = IF rest = <<>> THEN "replenish" ELSE "activate"]
           /\ trigger' = IF rest = <<>> THEN "unset" ELSE trigger
        \/ /\ n \notin Names(inventory.nodes) \/ ApiFails
           /\ main' = Idle
           /\ UNCHANGED <<inventory, trigger>>
  /\ UNCHANGED <<cluster, marks, replicas, outQ, inQ, registry, waiter, bounds>>

(* Sync the repository, read the manifest, write it, commit and push (see   *)
(* GitRuntime).  A failure leaves the manifest as it was, unless it is the  *)
(* answer to the push that is lost.                                         *)
UncappedTarget(count) == replicas + count
ScaleOutTarget(count) == Smaller(replicas + count, MaxNodes)

Replenish ==
  /\ main.pc = "replenish"
  /\ LET target == ScaleOutTarget(main.count) IN
       \/ /\ target # replicas
          /\ replicas' = target
          /\ main' = At("record") \/ (ApiFails /\ main' = Idle)
       \/ /\ target = replicas \/ ApiFails
          /\ main' = Idle
          /\ UNCHANGED replicas
  /\ UNCHANGED <<cluster, marks, inventory, outQ, inQ, trigger, registry, waiter, bounds>>

(* UpdateMachineDeploymentReplicas, after a scale-out or a scale-in.        *)
RecordReplicas ==
  /\ main.pc = "record"
  /\ \/ inventory' = [inventory EXCEPT !.replicas = replicas]
     \/ ApiFails /\ UNCHANGED inventory
  /\ main' = Idle
  /\ UNCHANGED <<cluster, marks, replicas, outQ, inQ, trigger, registry, waiter, bounds>>

-----------------------------------------------------------------------------
(* Scale-in.                                                                *)

AllSpares(nodes) == CountUnused(nodes)
SpareExcess(nodes) == CountUnused(nodes) - PreparedSpares

(* ReconcileScaleIn up to the choice between removing excess spares and     *)
(* draining used nodes, made on the inventory read here.                    *)
BeginScaleIn ==
  /\ main.pc = "idle" /\ inQ > 0
  /\ inQ' = inQ - 1
  /\ LET excess == SpareExcess(inventory.nodes)
         used == CountUsed(inventory.nodes)
     IN \/ /\ excess > 0
           /\ main' = [At("shrink") EXCEPT !.count = excess]
        \/ /\ excess <= 0 /\ used > 0
           /\ main' = [At("evaluate") EXCEPT !.todo = FindHighestUsed(inventory.nodes, used)]
        \/ /\ (excess <= 0 /\ used = 0) \/ ApiFails
           /\ main' = Idle
  /\ UNCHANGED <<cluster, marks, replicas, inventory, outQ, trigger, registry, waiter, bounds>>

ScaleInTarget(count) == Bigger(replicas - count, 0)

Shrink ==
  /\ main.pc = "shrink"
  /\ LET target == ScaleInTarget(main.count) IN
       \/ /\ target # replicas
          /\ replicas' = target
          /\ main' = At("record") \/ (ApiFails /\ main' = Idle)
       \/ /\ target = replicas \/ ApiFails
          /\ main' = Idle
          /\ UNCHANGED replicas
  /\ UNCHANGED <<cluster, marks, inventory, outQ, inQ, trigger, registry, waiter, bounds>>

(* EvaluateScaleInCapacity on the state read now: used nodes, highest order *)
(* first, as long as the free capacity left without them is not negative.   *)
(* Tainted nodes have no capacity to remove and are passed over.            *)
Available == baseFree + Cardinality({n \in Nodes : Schedulable(n) /\ ~pods[n]})
RemovableNodes ==
  LET used == Reverse(UsedNodes(inventory.nodes))
  IN AtMost(Available, Pick(used, {i \in DOMAIN used : Schedulable(used[i])}))

(* The used nodes chosen are those of the first read, cut to the number of  *)
(* removable nodes of the second.                                           *)
ReserveAllUsed(used, removable) == used
ReserveCandidates(used, removable) == AtMost(Len(removable), used)

EvaluateForReserve ==
  /\ main.pc = "evaluate"
  /\ \/ /\ RemovableNodes # <<>>
        /\ main' = [At("reserve") EXCEPT !.todo = ReserveCandidates(main.todo, RemovableNodes),
                                         !.removable = ToSet(RemovableNodes)]
     \/ /\ RemovableNodes = <<>> \/ ApiFails
        /\ main' = Idle
  /\ UNCHANGED <<cluster, marks, replicas, inventory, outQ, inQ, trigger, registry, waiter, bounds>>

NewWaiter(n) == [node |-> n, pc |-> "waiting", cancelled |-> FALSE]

(* StartScaleInWaiter: nothing if the node is registered.                   *)
StartScaleInWaiter(n) ==
  \/ registry[n] # None /\ UNCHANGED <<registry, waiter>>
  \/ /\ registry[n] = None
     /\ \E w \in Slots : /\ waiter[w] = None
                         /\ waiter' = [waiter EXCEPT ![w] = NewWaiter(n)]
                         /\ registry' = [registry EXCEPT ![n] = [slot |-> w, due |-> FALSE]]

(* One node of reserveScaleInCandidates: label, taint and a waiter.         *)
ReserveNode ==
  /\ main.pc = "reserve"
  /\ LET n == Head(main.todo)
         rest == Tail(main.todo)
     IN \/ /\ n \in Up
           /\ marks' = [marks EXCEPT ![n] = Marks]
           /\ StartScaleInWaiter(n)
           /\ main' = IF rest = <<>> THEN Idle ELSE [main EXCEPT !.todo = rest]
        \/ /\ n \notin Up \/ ApiFails
           /\ main' = Idle
           /\ UNCHANGED <<marks, registry, waiter>>
  /\ UNCHANGED <<cluster, replicas, inventory, outQ, inQ, trigger, bounds>>

-----------------------------------------------------------------------------
(* The ticker: SyncScalingNodeInventory, then EvaluateAutomaticScaleIn      *)
(* whether or not the sync failed.                                          *)
Observed == {n \in Up : HasScalingRole(n)}

SyncInventory ==
  \/ inventory' = [nodes |-> Rebuild(inventory.nodes, Observed), replicas |-> replicas]
  \/ ApiFails /\ UNCHANGED inventory

TickSync ==
  /\ main.pc = "idle"
  /\ SyncInventory
  /\ main' = At("autoEvaluate")
  /\ UNCHANGED <<cluster, marks, replicas, outQ, inQ, trigger, registry, waiter, bounds>>

Eligible == RemovableNodes # <<>>

AutoEvaluate ==
  /\ main.pc = "autoEvaluate"
  /\ main' = Idle
  /\ \/ /\ Registered # {} \/ ApiFails
        /\ UNCHANGED <<trigger, inQ>>
     \/ /\ Registered = {} /\ ~Eligible
        /\ trigger' = "unset"
        /\ UNCHANGED inQ
     \/ /\ Registered = {} /\ Eligible /\ trigger = "unset"
        /\ trigger' = "armed"
        /\ UNCHANGED inQ
     \/ /\ Registered = {} /\ Eligible /\ trigger = "armed"
        /\ UNCHANGED <<trigger, inQ>>
     \/ /\ Registered = {} /\ Eligible /\ trigger = "due"
        /\ trigger' = "unset"
        /\ EnqueueScaleIn
  /\ UNCHANGED <<cluster, marks, replicas, inventory, outQ, registry, waiter, bounds>>

(* --node-scale-in-delay passes.                                            *)
TriggerDelayElapses ==
  /\ trigger = "armed"
  /\ trigger' = "due"
  /\ UNCHANGED <<cluster, marks, replicas, inventory, outQ, inQ, main, registry, waiter, bounds>>

-----------------------------------------------------------------------------
(* Start of Run: EnsureMachineDeploymentReplicaBaseline, first sync.        *)
EnsureBaseline ==
  /\ main.pc = "baseline"
  /\ main' = At("firstSync")
  /\ \/ replicas = 0 /\ replicas' = PreparedSpares
     \/ (replicas # 0 \/ ApiFails) /\ UNCHANGED replicas
  /\ UNCHANGED <<cluster, marks, inventory, outQ, inQ, trigger, registry, waiter, bounds>>

FirstSync ==
  /\ main.pc = "firstSync"
  /\ SyncInventory
  /\ main' = Idle
  /\ UNCHANGED <<cluster, marks, replicas, outQ, inQ, trigger, registry, waiter, bounds>>

(* The process dies and restarts: all that was in memory is gone.           *)
Crash ==
  /\ crashes < MaxCrashes
  /\ crashes' = crashes + 1
  /\ main' = At("baseline")
  /\ trigger' = "unset"
  /\ outQ' = 0 /\ inQ' = 0
  /\ registry' = [n \in Nodes |-> None]
  /\ waiter' = [w \in Slots |-> None]
  /\ UNCHANGED <<cluster, marks, replicas, inventory, requested>>

-----------------------------------------------------------------------------
(* The waiter goroutine: on its ticker, ProcessScaleInWaiter.               *)
Waiting(w, pc) == waiter[w] # None /\ waiter[w].pc = pc

Goto(w, pc) == waiter' = [waiter EXCEPT ![w].pc = pc]

unchangedByWaiter == <<cluster, marks, replicas, outQ, main, trigger, bounds>>

(* NodeHasScalingReservation.  An error or a missing mark ends the waiter.  *)
CheckReservation(w) ==
  /\ Waiting(w, "waiting")
  /\ LET n == waiter[w].node IN
       \/ n \in Up /\ HasReservation(n) /\ Goto(w, "reserved")
       \/ (n \notin Up \/ ~HasReservation(n) \/ ApiFails) /\ Goto(w, "exiting")
  /\ UNCHANGED <<unchangedByWaiter, inventory, inQ, registry>>

(* ShouldForceScaleIn goes by the registry entry of the node's name.        *)
Forced(n) == ForceEnabled /\ registry[n] # None /\ registry[n].due

(* NodeHasBlockingPods, and the force delay if it has.                      *)
CheckPods(w) ==
  /\ Waiting(w, "reserved")
  /\ LET n == waiter[w].node IN
       \/ (~pods[n] \/ Forced(n)) /\ Goto(w, "drained")
       \/ pods[n] /\ ~Forced(n) /\ Goto(w, "waiting")
       \/ ApiFails /\ Goto(w, "exiting")
  /\ UNCHANGED <<unchangedByWaiter, inventory, inQ, registry>>

MarkUnused(w) ==
  /\ Waiting(w, "drained")
  /\ LET n == waiter[w].node IN
       \/ /\ n \in Names(inventory.nodes)
          /\ inventory' = [inventory EXCEPT !.nodes = SetUsage(@, n, FALSE)]
          /\ Goto(w, "marked")
       \/ /\ n \notin Names(inventory.nodes) \/ ApiFails
          /\ Goto(w, "exiting")
          /\ UNCHANGED inventory
  /\ UNCHANGED <<unchangedByWaiter, inQ, registry>>

(* Another scale-in reconcile is queued, or refused by a full queue.        *)
RequeueForgotten(w) ==
  /\ Waiting(w, "marked")
  /\ Goto(w, "exiting")
  /\ UNCHANGED <<unchangedByWaiter, inventory, inQ, registry>>
Requeue(w) ==
  /\ Waiting(w, "marked")
  /\ EnqueueScaleIn
  /\ Goto(w, "exiting")
  /\ UNCHANGED <<unchangedByWaiter, inventory, registry>>

(* The goroutine sees its context cancelled at its select.                  *)
SeeCancelled(w) ==
  /\ Waiting(w, "waiting") /\ waiter[w].cancelled
  /\ Goto(w, "exiting")
  /\ UNCHANGED <<unchangedByWaiter, inventory, inQ, registry>>

(* The deferred clearScaleInWaiter deletes by name, then the goroutine ends. *)
ClearForgotten(n) == UNCHANGED registry
ClearScaleInWaiter(n) == registry' = [registry EXCEPT ![n] = None]

Exit(w) ==
  /\ Waiting(w, "exiting")
  /\ ClearScaleInWaiter(waiter[w].node)
  /\ waiter' = [waiter EXCEPT ![w] = None]
  /\ UNCHANGED <<unchangedByWaiter, inventory, inQ>>

(* --node-scale-in-force-delay passes for a registered waiter; with force   *)
(* disabled nothing looks at the age.                                       *)
ForceDelayElapses(n) ==
  /\ ForceEnabled
  /\ registry[n] # None /\ ~registry[n].due
  /\ registry' = [registry EXCEPT ![n].due = TRUE]
  /\ UNCHANGED <<unchangedByWaiter, inventory, inQ, waiter>>

-----------------------------------------------------------------------------
(* The cluster.  Machines follow spec.replicas; nothing in the manifest     *)
(* says which machine goes when there are too many.                         *)
unchangedByCluster == <<replicas, inventory, outQ, inQ, main, trigger, registry, waiter, bounds>>

NodeJoins ==
  /\ Cardinality(Up) < replicas
  /\ \E n \in Nodes :
       /\ status[n] = "unborn" /\ \A m \in Nodes : m < n => status[m] # "unborn"
       /\ status' = [status EXCEPT ![n] = "up"]
       /\ marks' = [marks EXCEPT ![n] = Marks]
  /\ UNCHANGED <<pods, baseFree, unchangedByCluster>>

NodeRemoved(n) ==
  /\ Cardinality(Up) > replicas /\ n \in Up
  /\ status' = [status EXCEPT ![n] = "gone"]
  /\ marks' = [marks EXCEPT ![n] = {}]
  /\ pods' = [pods EXCEPT ![n] = FALSE]
  /\ UNCHANGED <<baseFree, unchangedByCluster>>

(* Machine metadata is propagated to the node again.                        *)
Relabel(n) ==
  /\ Relabels /\ n \in Up /\ "label" \notin marks[n]
  /\ marks' = [marks EXCEPT ![n] = @ \cup {"label"}]
  /\ UNCHANGED <<cluster, unchangedByCluster>>

PodArrives(n) ==
  /\ Schedulable(n) /\ ~pods[n]
  /\ pods' = [pods EXCEPT ![n] = TRUE]
  /\ UNCHANGED <<status, marks, baseFree, unchangedByCluster>>

PodLeaves(n) ==
  /\ pods[n]
  /\ pods' = [pods EXCEPT ![n] = FALSE]
  /\ UNCHANGED <<status, marks, baseFree, unchangedByCluster>>

BaseLoadChanges ==
  /\ baseFree' \in 0 .. BaseFree \ {baseFree}
  /\ UNCHANGED <<status, marks, pods, unchangedByCluster>>

-----------------------------------------------------------------------------
MainStep ==
  \/ BeginScaleOut \/ ActivateNode \/ MarkUsed \/ Replenish \/ RecordReplicas
  \/ BeginScaleIn \/ Shrink \/ EvaluateForReserve \/ ReserveNode
  \/ TickSync \/ AutoEvaluate \/ EnsureBaseline \/ FirstSync

WaiterStep(w) ==
  \/ CheckReservation(w) \/ CheckPods(w) \/ MarkUnused(w) \/ Requeue(w)
  \/ SeeCancelled(w) \/ Exit(w)

Next ==
  \/ MainStep
  \/ \E w \in Slots : WaiterStep(w)
  \/ RequestScaleOut \/ TriggerDelayElapses \/ Crash
  \/ \E n \in Nodes : \/ ForceDelayElapses(n) \/ NodeRemoved(n) \/ Relabel(n)
                      \/ PodArrives(n) \/ PodLeaves(n)
  \/ NodeJoins \/ BaseLoadChanges

Safety == Init /\ [][Next]_vars

(* Run always comes back to its select, which picks among ready cases at    *)
(* random, so none of them is passed over for ever; waiters have a ticker.  *)
(* Nothing is assumed of the cluster, of pods or of the force delay.        *)
Fairness ==
  /\ WF_vars(MainStep)
  /\ SF_vars(BeginScaleOut) /\ SF_vars(BeginScaleIn) /\ SF_vars(TickSync)
  /\ \A w \in Slots : WF_vars(WaiterStep(w))

Spec == Safety /\ Fairness

-----------------------------------------------------------------------------
MainPCs == {"baseline", "firstSync", "idle", "activate", "markUsed", "replenish", "record",
            "shrink", "evaluate", "reserve", "autoEvaluate"}

TypeOK ==
  /\ status \in [Nodes -> {"unborn", "up", "gone"}]
  /\ marks \in [Nodes -> SUBSET Marks]
  /\ pods \in [Nodes -> BOOLEAN]
  /\ baseFree \in 0 .. BaseFree
  /\ replicas \in Nat
  /\ inventory.replicas \in Nat /\ inventory.nodes \in Seq([node : Nodes, used : BOOLEAN])
  /\ outQ \in 0 .. QueueCap /\ inQ \in 0 .. QueueCap
  /\ main.pc \in MainPCs /\ main.todo \in Seq(Nodes)
  /\ main.reuse \subseteq Nodes /\ main.removable \subseteq Nodes /\ main.count \in Nat
  /\ trigger \in {"unset", "armed", "due"}
  /\ registry \in [Nodes -> [slot : Slots, due : BOOLEAN] \cup {None}]
  /\ waiter \in [Slots -> [node : Nodes, pc : WaiterPCs, cancelled : BOOLEAN] \cup {None}]

Live(w) == waiter[w] # None

(* An entry of scaleInWaiters always belongs to a goroutine that is still   *)
(* running for that node and was not cancelled: FindReusableScaleInWaiter-  *)
(* Nodes and hasActiveScaleInWaiters can trust it.                          *)
RegistryEntriesAreLive ==
  \A n \in Nodes :
    registry[n] # None =>
      LET w == registry[n].slot
      IN Live(w) /\ waiter[w].node = n /\ ~waiter[w].cancelled

(* A node is listed once in the inventory, whatever joins, leaves, drops    *)
(* out and comes back.                                                      *)
NoDuplicateEntries ==
  Len(inventory.nodes) = Cardinality(Names(inventory.nodes))

(* Scale-in never takes a used, schedulable node that the capacity          *)
(* evaluation of the same reconcile did not find removable, although it     *)
(* picks by number from an inventory it read before that evaluation.  (A    *)
(* node that a stopped waiter has marked unused in between can be taken.)   *)
IsUsed(n) == [node |-> n, used |-> TRUE] \in ToSet(inventory.nodes)
ReservesOnlyRemovable ==
  [][\A n \in Nodes :
       Schedulable(n) /\ status'[n] = "up" /\ "taint" \in marks'[n] /\ IsUsed(n)
         => n \in main.removable]_vars

(* Replenishing spares only raises the manifest, and not above              *)
(* --node-scaling-max-nodes, whatever the inventory recorded when the       *)
(* spares were counted.  (A manifest that is above it is lowered.)          *)
RaisesWithinMax ==
  [][main.pc = "replenish" /\ replicas <= MaxNodes => replicas' \in replicas .. MaxNodes]_vars

(* Removing spares keeps --node-scaling-prepared-spares of them beside the  *)
(* used nodes, provided the manifest still counts every machine that is     *)
(* listed.  (Until a removed machine has gone it does not.)                 *)
SpareFloorKept ==
  [][main.pc = "shrink" /\ replicas' < replicas /\ replicas >= Len(inventory.nodes)
       => replicas' >= CountUsed(inventory.nodes) + PreparedSpares]_vars

(* The node list is rebuilt from the nodes observed without losing that a   *)
(* node is in use, as long as it carries a scaling mark.  (Activation takes *)
(* the marks away.)                                                         *)
SyncPreservesUse ==
  [][\A n \in Up : main.pc = "idle" /\ main'.pc = "autoEvaluate" /\ HasScalingRole(n) /\ IsUsed(n)
        => IsUsed(n)']_vars

(* A node whose waiter has not been stopped and that runs no blocking pod   *)
(* is eventually marked unused (or scale-out takes it, or its machine goes): *)
(* no interleaving of the goroutines loses the waiter's work.               *)
Watched(n) ==
  \E w \in Slots : waiter[w] # None /\ waiter[w].node = n /\ waiter[w].pc = "waiting"
                   /\ ~waiter[w].cancelled

(* A drained node that makes more spares than --node-scaling-prepared-spares *)
(* is eventually answered by a reduction of the manifest, even when the      *)
(* waiter's request finds the queue full.                                    *)
ExcessSpares == CountUnused(inventory.nodes) > PreparedSpares
DrainedSpareIsRemoved ==
  \A w \in Slots : Waiting(w, "marked") /\ ExcessSpares ~> main.pc = "shrink" \/ ~ExcessSpares

-----------------------------------------------------------------------------
(* What the documentation says and the code does not always do: each is the *)
(* subject of a run that shows how.                                         *)

(* "Reserved scale-in nodes are considered drained only when no blocking    *)
(* pods remain" (force disabled).  An old waiter's exit deletes the entry   *)
(* of a new one, which scale-out then cannot stop.                          *)
MarksUnused(w) ==
  waiter[w] # None /\ waiter'[w] # None /\ waiter[w].pc = "drained" /\ waiter'[w].pc = "marked"
DrainedWhenMarked ==
  [][\A w \in Slots : MarksUnused(w) /\ ~waiter[w].cancelled => ~pods[waiter[w].node]]_vars

(* "Reserved nodes are marked ..., then watched asynchronously until they   *)
(* no longer have blocking pods".                                           *)
ReservedIsWatched ==
  \A n \in Nodes :
    main.pc = "idle" /\ HasReservation(n) /\ IsUsed(n) /\ pods[n] =>
      \E w \in Slots : waiter[w] # None /\ waiter[w].node = n
=============================================================================
