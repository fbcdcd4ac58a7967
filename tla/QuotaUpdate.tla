---------------------------- MODULE QuotaUpdate -----------------------------
(***************************************************************************)
(* UpdateQuotaIfRequired of internal/quota/controller.go: one goroutine    *)
(* per call, all of them sharing the set pendingScaleOut, the queue of the *)
(* node scaling controller and a cluster that they look at more than once. *)
(*                                                                         *)
(* The watch loop starts a call with a quota from its cache and the events *)
(* it has collected (QuotaWatcher keeps both); here the quota is any that  *)
(* the namespace may have had and the events are any.                      *)
(*                                                                         *)
(* Data: every pod needs one unit of each of the four dimensions and one   *)
(* unit of worker capacity, so one number stands for the four of a quota.  *)
(* The worker nodes are one pool and pods are scheduled as soon as there   *)
(* is room.                                                                *)
(***************************************************************************)
EXTENDS QuotaPolicy

CONSTANTS
  Namespaces, Calls,  \* namespaces; slots for goroutines (bound)
  Scaler,             \* the spec of every QuotaAutoscaler
  NodeScaling,        \* whether there is a ScaleOutRequestHandler
  QueueCap,           \* capacity of scaleOutRequests (128 in the code)
  ApiFails,           \* whether reads of the API may fail
  Kinds,              \* kinds of pod events that occur
  Quotas,             \* quotas a call may be given: [hard, used, ready]
  MaxPods,            \* bound: pods wanted in a namespace
  MaxWorkers          \* bound: size of the worker pool

ASSUME UpdateAssumption ==
  /\ IsFiniteSet(Namespaces) /\ IsScaler(Scaler)
  /\ NodeScaling \in BOOLEAN /\ ApiFails \in BOOLEAN
  /\ QueueCap \in Nat \ {0}
  /\ Kinds \subseteq {"FailedCreate", "FailedScheduling"}
  /\ Quotas \subseteq [hard : Nat, used : Nat, ready : BOOLEAN]
  /\ MaxPods \in Nat /\ MaxWorkers \in Nat

VARIABLES
  used,      \* pods created, by namespace
  denied,    \* pods a ReplicaSet wants and has not been able to create
  workers,   \* capacity of the worker nodes without scaling taint
  call,      \* the goroutines
  pending,   \* watcher.pendingScaleOut
  outQ,      \* requests in scaleOutRequests
  channel    \* ResizeNsChan: None, or the request being handed over

cluster == <<used, denied, workers>>
vars == <<used, denied, workers, call, pending, outQ, channel>>

(* Until Kubernetes has filled in status, nothing is used.                  *)
Uniform(x) == [d \in Dims |-> x]
QuotaOf(snapshot) == [hard |-> Uniform(snapshot.hard), used |-> Uniform(snapshot.used)]

(* What the policies make of every quota and demand, as a table.            *)
Outcomes ==
  {LET target == Desired(QuotaOf(p[1]), Scaler, Uniform(p[2]))
   IN [quota |-> p[1], demand |-> p[2],
       value |-> target["limits.cpu"],
       differs |-> DiffersFrom(target, QuotaOf(p[1])),
       shrinks |-> IsScaleDown(target, QuotaOf(p[1]))] :
     p \in Quotas \X (0 .. MaxPods + 1)}
Outcome(quota, demand) == CHOOSE o \in Outcomes : o.quota = quota /\ o.demand = demand

AllPods == SumFunction(used)
Free == Greatest(workers - AllPods, 0)

Init ==
  /\ used \in [Namespaces -> 0 .. MaxPods]
  /\ denied = [ns \in Namespaces |-> 0]
  /\ workers \in 0 .. MaxWorkers
  /\ call = [c \in Calls |-> None]
  /\ pending = {}
  /\ outQ = 0
  /\ channel = None

-----------------------------------------------------------------------------
(* UpdateNs for a pod event or for the aggregate ticker, which pass what is *)
(* collected, and for a scaler event or the periodic check, which pass no   *)
(* events: a goroutine of its own.                                          *)
NewCall(ns, quota, kinds) ==
  [ns |-> ns, quota |-> quota, kinds |-> kinds, pc |-> "demand",
   demand |-> 0, short |-> FALSE, overtaken |-> FALSE]

UpdateNs(ns, kinds) ==
  /\ \E c \in Calls, quota \in Quotas :
       /\ call[c] = None
       /\ call' = [call EXCEPT ![c] = NewCall(ns, quota, kinds)]
  /\ UNCHANGED <<cluster, pending, outQ, channel>>

-----------------------------------------------------------------------------
(* The goroutine.                                                           *)
At(c, pc) == call[c] # None /\ call[c].pc = pc

Goto(c, pc) == call' = [call EXCEPT ![c].pc = pc]

(* The goroutine with what it has found out, outside a wait of its own.     *)
With(c, pc, demand, short) ==
  [ns |-> call[c].ns, quota |-> call[c].quota, kinds |-> call[c].kinds, pc |-> pc,
   demand |-> demand, short |-> short, overtaken |-> FALSE]
Continue(c, pc, demand, short) == call' = [call EXCEPT ![c] = With(c, pc, demand, short)]

(* clearPendingScaleOut, and what becomes of the call.  overtaken records,  *)
(* for the properties only, that another call has taken the flag away from  *)
(* one that still relies on it.                                             *)
Holding == {"request", "waiting", "clear"}
Overtaken(ns) ==
  [d \in Calls |-> IF call[d] # None /\ call[d].ns = ns /\ call[d].pc \in Holding
                   THEN [call[d] EXCEPT !.overtaken = TRUE] ELSE call[d]]
Release(c, next) ==
  /\ pending' = pending \ {call[c].ns}
  /\ call' = [Overtaken(call[c].ns) EXCEPT ![c] = next]

(* To the deferred function; what is left behind there is not used again.   *)
Leaving(c) == With(c, "recheck", 0, FALSE)
Leave(c) == call' = [call EXCEPT ![c] = Leaving(c)]

(* GetResourceDemandsFromPodEvents: what the objects of the events lack     *)
(* now.  A pod is counted whether or not it has been scheduled meanwhile;   *)
(* an object that cannot be read is left out.                               *)
Lacking(ns, kind) ==
  CASE kind = "FailedCreate" -> denied[ns]
    [] kind = "FailedScheduling" -> IF used[ns] > 0 THEN 1 ELSE 0
Readable(kinds) == IF ApiFails THEN SUBSET kinds ELSE {kinds}
DemandOf(ns, kinds) == SumFunction([kind \in kinds |-> Lacking(ns, kind)])

(* Quota status missing: an error, but the deferred function still runs.    *)
ComputeDemand(c) ==
  /\ At(c, "demand")
  /\ IF call[c].quota.ready
     THEN \E kinds \in Readable(call[c].kinds) :
            Continue(c, "fit", DemandOf(call[c].ns, kinds), FALSE)
     ELSE Leave(c)
  /\ UNCHANGED <<cluster, pending, outQ, channel>>

(* EnsurePodDemandFitsCluster.  A failed read counts as a shortage.         *)
Fits(demand) == demand = 0 \/ demand <= Free
Short(demand) == demand # 0 /\ (demand > Free \/ ApiFails)

CheckFit(c) ==
  /\ At(c, "fit")
  /\ \/ Fits(call[c].demand) /\ Goto(c, "send")
     \/ /\ Short(call[c].demand)
        /\ Continue(c, IF NodeScaling THEN "begin" ELSE "send", call[c].demand, TRUE)
  /\ UNCHANGED <<cluster, pending, outQ, channel>>

(* beginPendingScaleOut: someone else's request is waited for by nobody new *)
BeginUnguarded(c) ==
  /\ At(c, "begin")
  /\ pending' = pending \cup {call[c].ns}
  /\ Goto(c, "request")
  /\ UNCHANGED <<cluster, outQ, channel>>
BeginWithoutFlag(c) ==
  /\ At(c, "begin")
  /\ \/ call[c].ns \in pending /\ Leave(c)
     \/ call[c].ns \notin pending /\ Goto(c, "request")
  /\ UNCHANGED <<cluster, pending, outQ, channel>>
BeginPending(c) ==
  /\ At(c, "begin")
  /\ LET ns == call[c].ns IN
       \/ ns \in pending /\ Leave(c) /\ UNCHANGED pending
       \/ ns \notin pending /\ pending' = pending \cup {ns} /\ Goto(c, "request")
  /\ UNCHANGED <<cluster, outQ, channel>>

(* HandleScaleOutRequest.  A full queue is an error and the flag goes.      *)
SendUnbounded(c) ==
  /\ At(c, "request")
  /\ outQ' = outQ + 1
  /\ Goto(c, "waiting")
  /\ UNCHANGED <<cluster, pending, channel>>
SendRequest(c) ==
  /\ At(c, "request")
  /\ \/ /\ outQ < QueueCap
        /\ outQ' = outQ + 1
        /\ Goto(c, "waiting")
        /\ UNCHANGED pending
     \/ /\ outQ = QueueCap
        /\ Release(c, Leaving(c))
        /\ UNCHANGED outQ
  /\ UNCHANGED <<cluster, channel>>

(* waitForWorkerCapacity: polls until the demand fits or, after a poll that *)
(* found it does not, the deadline has passed.                              *)
PollForever(c) ==
  /\ At(c, "waiting")
  /\ Fits(call[c].demand)
  /\ Goto(c, "clear")
  /\ UNCHANGED <<cluster, pending, outQ, channel>>
Poll(c) ==
  /\ At(c, "waiting")
  /\ \/ Fits(call[c].demand) /\ Goto(c, "clear")
     \/ Short(call[c].demand) /\ Leave(c)
  /\ UNCHANGED <<cluster, pending, outQ, channel>>

ClearPending(c) ==
  /\ At(c, "clear")
  /\ Release(c, With(c, "send", call[c].demand, FALSE))
  /\ UNCHANGED <<cluster, outQ, channel>>

(* The resize request, immediate if pods wait for it.  Short of capacity    *)
(* and without node scaling, the call fails instead.                        *)
SendResize(c) ==
  /\ At(c, "send")
  /\ LET outcome == Outcome(call[c].quota, call[c].demand) IN
       \/ /\ outcome.differs /\ ~call[c].short
          /\ channel = None
          /\ channel' = [ns |-> call[c].ns, value |-> outcome.value, immediate |-> call[c].demand # 0]
       \/ /\ ~outcome.differs \/ call[c].short
          /\ UNCHANGED channel
  /\ Leave(c)
  /\ UNCHANGED <<cluster, pending, outQ>>

(* The deferred function: namespaceNeedsScaleOut on the same quota and the  *)
(* same events, whose objects are read again, and the capacity now.         *)
Recheck(c) ==
  /\ At(c, "recheck")
  /\ \E kinds \in Readable(call[c].kinds) :
       LET demand == DemandOf(call[c].ns, kinds)
           outcome == Outcome(call[c].quota, demand)
           grows == outcome.differs /\ ~outcome.shrinks
       IN Continue(c, IF grows THEN "recheckFit" ELSE "release", demand, FALSE)
  /\ UNCHANGED <<cluster, pending, outQ, channel>>

RecheckFit(c) ==
  /\ At(c, "recheckFit")
  /\ \/ Fits(call[c].demand) /\ Goto(c, "release")
     \/ Short(call[c].demand) /\ call' = [call EXCEPT ![c] = None]
  /\ UNCHANGED <<cluster, pending, outQ, channel>>

KeepFlag(c) ==
  /\ At(c, "release")
  /\ call' = [call EXCEPT ![c] = None]
  /\ UNCHANGED <<cluster, pending, outQ, channel>>
ReleaseFlag(c) ==
  /\ At(c, "release")
  /\ Release(c, None)
  /\ UNCHANGED <<cluster, outQ, channel>>

-----------------------------------------------------------------------------
(* The resize worker, node scaling and the cluster.                         *)
TakeResize ==
  /\ channel # None
  /\ channel' = None
  /\ UNCHANGED <<cluster, call, pending, outQ>>

ServeScaleOut ==
  /\ outQ > 0
  /\ outQ' = outQ - 1
  /\ workers' \in {workers, Least(workers + 1, MaxWorkers)}
  /\ UNCHANGED <<used, denied, call, pending, channel>>

ScaleIn ==
  /\ Free > 0
  /\ workers' = workers - 1
  /\ UNCHANGED <<used, denied, call, pending, outQ, channel>>

PodsChange(ns) ==
  /\ \/ used[ns] + denied[ns] < MaxPods /\ denied' = [denied EXCEPT ![ns] = @ + 1] /\ UNCHANGED used
     \/ /\ denied[ns] > 0
        /\ denied' = [denied EXCEPT ![ns] = @ - 1]
        /\ used' = [used EXCEPT ![ns] = @ + 1]
     \/ used[ns] > 0 /\ used' = [used EXCEPT ![ns] = @ - 1] /\ UNCHANGED denied
  /\ UNCHANGED <<workers, call, pending, outQ, channel>>

-----------------------------------------------------------------------------
CallStep(c) ==
  \/ ComputeDemand(c) \/ CheckFit(c) \/ BeginPending(c) \/ SendRequest(c) \/ Poll(c)
  \/ ClearPending(c) \/ SendResize(c) \/ Recheck(c) \/ RecheckFit(c) \/ ReleaseFlag(c)

Next ==
  \/ \E c \in Calls : CallStep(c)
  \/ \E ns \in Namespaces : PodsChange(ns) \/ \E kinds \in SUBSET Kinds : UpdateNs(ns, kinds)
  \/ TakeResize \/ ServeScaleOut \/ ScaleIn

Safety == Init /\ [][Next]_vars

(* Goroutines run, the resize worker receives, and senders blocked on its   *)
(* channel are served in turn.  CheckQuotasPeriodically is a case of a      *)
(* select that picks at random among ready ones, and a slot is free for its *)
(* call again and again.  Nothing is assumed of node scaling, of pods or of *)
(* their events.                                                            *)
Fairness ==
  /\ \A c \in Calls : WF_vars(CallStep(c)) /\ SF_vars(SendResize(c))
  /\ WF_vars(TakeResize)
  /\ \A ns \in Namespaces : SF_vars(UpdateNs(ns, {}))

Spec == Safety /\ Fairness

-----------------------------------------------------------------------------
PCs == {"demand", "fit", "begin", "request", "waiting", "clear", "send", "recheck", "recheckFit",
        "release"}
CallRecords ==
  [ns : Namespaces, quota : Quotas, kinds : SUBSET Kinds, pc : PCs,
   demand : Nat, short : BOOLEAN, overtaken : BOOLEAN]

TypeOK ==
  /\ used \in [Namespaces -> Nat] /\ denied \in [Namespaces -> Nat] /\ workers \in Nat
  /\ call \in [Calls -> CallRecords \cup {None}]
  /\ pending \subseteq Namespaces
  /\ outQ \in 0 .. QueueCap
  /\ channel \in [ns : Namespaces, value : Nat, immediate : BOOLEAN] \cup {None}

(* pendingScaleOut is a lock on scale-out requests: of the calls that have  *)
(* sent or are about to send one for a namespace, at most one still has its *)
(* flag; the others had it taken away by another call.                      *)
Holds(c) == call[c] # None /\ call[c].pc \in Holding /\ ~call[c].overtaken
OneHolder == \A c, d \in Calls : Holds(c) /\ Holds(d) /\ call[c].ns = call[d].ns => c = d
HolderHasFlag == \A c \in Calls : Holds(c) => call[c].ns \in pending

(* A namespace's flag is always given back: a timed-out wait whose pods     *)
(* still lack capacity does not keep it from asking again.                  *)
FlagIsReleased == \A ns \in Namespaces : ns \in pending ~> ns \notin pending

(* Every call ends, with no help from node scaling.                         *)
CallsEnd == \A c \in Calls : call[c] # None ~> call[c] = None

-----------------------------------------------------------------------------
(* "expected only one scale-out request to be sent while pending": an       *)
(* evaluation that has no pods to count releases the flag of one that is    *)
(* waiting.                                                                 *)
OneScaleOutWhilePending ==
  \A c, d \in Calls :
    At(c, "waiting") /\ At(d, "waiting") /\ call[c].ns = call[d].ns => c = d
=============================================================================
