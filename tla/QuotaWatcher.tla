---------------------------- MODULE QuotaWatcher ----------------------------
(***************************************************************************)
(* The watch loop of internal/quota/controller.go (QuotaController.Run and *)
(* the Register functions), the loop of main.go that opens its streams, and*)
(* ResolveResourceQuota of internal/scalerresolver/resourcequota.go, for   *)
(* one namespace.                                                          *)
(*                                                                         *)
(* The loop never lists quotas: what it knows of the API server comes from *)
(* three watch streams, each in order but in no order among themselves,    *)
(* and from the reads of ResolveResourceQuota, which overtake the streams. *)
(* Each step is one call of the API or one receive of the select, with the *)
(* local computation that follows it.                                      *)
(*                                                                         *)
(* Data: an object carries the revision of its last change, which stands   *)
(* for its contents.  A QuotaAutoscaler that is deleted and created again  *)
(* has the same name and another uid.                                      *)
(***************************************************************************)
EXTENDS Integers, SequencesExt

CONSTANTS
  OtherNames,     \* names of quotas a user may refer to explicitly
  UserRefs,       \* the targets users write into the QuotaAutoscaler, "" for none
  InitialRefs,    \* targets of a QuotaAutoscaler that, like its target, is there already
  PodEvents,      \* the Event objects about pods that may come to exist
  Immediate,      \* those that make the loop evaluate at once
  MaxDisturbances,  \* bound: changes by users and of pod events, failed calls, streams closed
  None

ASSUME WatcherAssumption ==
  /\ OtherNames \subseteq STRING /\ IsFiniteSet(OtherNames) /\ {"", "resource-quota"} \cap OtherNames = {}
  /\ UserRefs \subseteq OtherNames \cup {"", "resource-quota"}
  /\ InitialRefs \subseteq UserRefs \ {""}
  /\ IsFiniteSet(PodEvents) /\ Immediate \subseteq PodEvents
  /\ MaxDisturbances \in Nat

DefaultResourceQuotaName == "resource-quota"
QuotaNames == OtherNames \cup {DefaultResourceQuotaName}

(* What a watch says of an Event object: that it has come to exist, that it *)
(* has changed (at most once, as when the same is reported again under an   *)
(* eventTime that stays), and that it has been deleted.                     *)
Deliveries == [type : {"added", "modified", "deleted"}, object : PodEvents]
Occurrence(d) == [type |-> "added", object |-> d.object]
Deletion(d) == [type |-> "deleted", object |-> d.object]

VARIABLES
  scaler,      \* the QuotaAutoscaler in the API server
  quota,       \* the ResourceQuotas in the API server, by name
  time,        \* era in which each pod event occurred, was modified and was deleted
  era,         \* 1 + number of Runs begun
  scalerStream, quotaStream, eventStream,
               \* what the three watches have yet to deliver, None if closed
  main,        \* the goroutine: where it is and what it remembers
  cache,       \* watcher.Scalers, Quotas and Events for the namespace
  evaluation,  \* the quotas that the last UpdateQuotaIfRequired goroutine was given
  consumed,    \* how many evaluations each delivery was given to
  rev,         \* the last revision used
  failures,    \* failed calls of ResolveResourceQuota
  disturbances \* how much of the bound is used up

api == <<scaler, quota, time, rev>>
stream == <<scalerStream, quotaStream, eventStream>>
bounds == <<failures, disturbances>>
vars == <<scaler, quota, time, era, scalerStream, quotaStream, eventStream, main, cache,
          evaluation, consumed, rev, failures, disturbances>>

(* scaler and quota are those of a ResolveResourceQuota under way; then is  *)
(* its caller, and event the quota event that its caller is handling.       *)
At(pc) == [pc |-> pc, scaler |-> None, quota |-> None, then |-> "none", event |-> None]
Select == At("select")
Goto(pc, q) ==
  [pc |-> pc, scaler |-> main.scaler, quota |-> q, then |-> main.then, event |-> main.event]

Cached(s, q, events) == [scaler |-> s, quota |-> q, events |-> events]
EmptyCache == Cached(None, None, None)

Init ==
  /\ scaler \in {None} \cup [uid : {1}, ref : InitialRefs, rev : {1}]
  /\ quota = [name \in QuotaNames |->
                IF scaler # None /\ scaler.ref = name THEN [name |-> name, owner |-> 0, rev |-> 1] ELSE None]
  /\ time = [d \in Deliveries |-> None]
  /\ era = 1
  /\ scalerStream = None /\ quotaStream = None /\ eventStream = None
  /\ main = At("list")
  /\ cache = EmptyCache
  /\ evaluation = None
  /\ consumed = [d \in Deliveries |-> 0]
  /\ rev = 1 /\ failures = 0 /\ disturbances = 0

Disturb == disturbances < MaxDisturbances /\ disturbances' = disturbances + 1
Succeed == UNCHANGED bounds
Fail == Disturb /\ failures' = failures + 1

-----------------------------------------------------------------------------
(* Writes of API objects, and the watch events they cause.                  *)
Put(object) == [type |-> "put", object |-> object]
Deleted(object) == [type |-> "deleted", object |-> object]

Notify(queue, event) == IF queue = None THEN None ELSE Append(queue, event)

WriteScaler(new) ==
  /\ scaler' = new
  /\ rev' = rev + 1
  /\ scalerStream' = Notify(scalerStream, IF new = None THEN Deleted(scaler) ELSE Put(new))
  /\ UNCHANGED <<quota, quotaStream, eventStream>>

WriteQuota(name, new) ==
  /\ quota' = [quota EXCEPT ![name] = new]
  /\ rev' = rev + 1
  /\ quotaStream' = Notify(quotaStream, IF new = None THEN Deleted(quota[name]) ELSE Put(new))
  /\ UNCHANGED <<scaler, scalerStream, eventStream>>

-----------------------------------------------------------------------------
(* The evaluations that the loop starts.  An evaluation computes on the     *)
(* cached quota and patches the one that its scaler names.                  *)
UpdateNs(c, events) ==
  IF c.scaler # None /\ c.quota # None
  THEN /\ evaluation' = [computes |-> c.quota.name, patches |-> c.scaler.ref]
       /\ consumed' = [d \in Deliveries |-> consumed[d] + IF d \in events THEN 1 ELSE 0]
  ELSE UNCHANGED <<evaluation, consumed>>
NoUpdate == UNCHANGED <<evaluation, consumed>>

Collected == IF cache.events = None THEN {} ELSE cache.events

-----------------------------------------------------------------------------
(* The loop of main: list, then open the watches, each of which begins with *)
(* the objects that exist.  A failed call is a panic and ends the process.  *)
ListScalers ==
  /\ main.pc = "list"
  /\ main' = [At("watchScalers") EXCEPT !.scaler = scaler]
  /\ UNCHANGED <<api, era, stream, cache, evaluation, consumed, bounds>>

WatchScalers ==
  /\ main.pc = "watchScalers"
  /\ main' = Goto("watchQuotas", None)
  /\ scalerStream' = IF scaler = None THEN <<>> ELSE <<Put(scaler)>>
  /\ UNCHANGED <<api, quotaStream, eventStream, era, cache, evaluation, consumed, bounds>>

WatchQuotas ==
  /\ main.pc = "watchQuotas"
  /\ main' = Goto("watchEvents", None)
  /\ LET existing == SetToSeq({name \in QuotaNames : quota[name] # None})
     IN quotaStream' = [i \in DOMAIN existing |-> Put(quota[existing[i]])]
  /\ UNCHANGED <<api, scalerStream, eventStream, era, cache, evaluation, consumed, bounds>>

(* A watch of events begins with the Event objects that are there, each     *)
(* delivered as if it had just come to exist.                               *)
Existing == {d \in Deliveries : d.type = "added" /\ time[d] # None /\ time[Deletion(d)] = None}

WatchEvents ==
  /\ main.pc = "watchEvents"
  /\ main' = Goto("run", None)
  /\ eventStream' = SetToSeq(Existing)
  /\ UNCHANGED <<api, scalerStream, quotaStream, era, cache, evaluation, consumed, bounds>>

(* One of the channels closes: Run returns, all streams are stopped and the *)
(* watcher with its maps is gone.                                           *)
Closed == scalerStream' = None /\ quotaStream' = None /\ eventStream' = None

StreamsCloseUnnoticed ==
  /\ main.pc = "select"
  /\ Disturb
  /\ Closed
  /\ UNCHANGED <<api, main, cache, era, evaluation, consumed, failures>>
StreamsClose ==
  /\ main.pc = "select"
  /\ Disturb
  /\ main' = At("list")
  /\ Closed
  /\ cache' = EmptyCache
  /\ UNCHANGED <<api, era, evaluation, consumed, failures>>

-----------------------------------------------------------------------------
(* ResolveResourceQuota(s), called from one of four places.                 *)
Resolve(s, then, event) ==
  [pc |-> IF s.ref # "" THEN "get" ELSE "create", scaler |-> s, quota |-> None,
   then |-> then, event |-> event]

(* RegisterQuotaEvent, past its own call of ResolveResourceQuota.           *)
Registered(c, event) ==
  IF c.scaler = None \/ c.scaler.ref # event.object.name THEN c
  ELSE IF event.type = "deleted" THEN Cached(c.scaler, None, c.events)
  ELSE Cached(c.scaler, event.object, Collected)

(* What each caller does with the outcome: q is the quota, or None for an   *)
(* error; s is the scaler as the call left it.                              *)
WithScaler(s, q) == Cached(s, IF q = None THEN cache.quota ELSE q, cache.events)
IfResolved(s, q) == IF q = None THEN cache ELSE WithScaler(s, q)

AfterStartup(s, q) ==
  /\ cache' = WithScaler(s, q)
  /\ NoUpdate
AfterScalerEventOnlyResolved(s, q) ==
  /\ cache' = IfResolved(s, q)
  /\ UpdateNs(cache', {})
AfterScalerEvent(s, q) ==
  /\ cache' = WithScaler(s, q)
  /\ UpdateNs(cache', {})
AfterQuotaEvent(s, q) ==
  /\ cache' = Registered(IfResolved(s, q), main.event)
  /\ NoUpdate
AfterPeriodic(s, q) ==
  /\ cache' = IfResolved(s, q)
  /\ IF q = None THEN NoUpdate ELSE UpdateNs(cache', {})

Return(s, q) ==
  /\ main' = Select
  /\ \/ main.then = "startup" /\ AfterStartup(s, q)
     \/ main.then = "scalerEvent" /\ AfterScalerEvent(s, q)
     \/ main.then = "quotaEvent" /\ AfterQuotaEvent(s, q)
     \/ main.then = "periodic" /\ AfterPeriodic(s, q)

(* A target is named: get it.                                               *)
GetTarget ==
  /\ main.pc = "get"
  /\ \/ Return(main.scaler, quota[main.scaler.ref]) /\ Succeed
     \/ Return(main.scaler, None) /\ Fail
  /\ UNCHANGED <<api, era, stream>>

(* None is named: create one, owned by the scaler, or see that it exists.   *)
CreateManaged ==
  /\ main.pc = "create"
  /\ LET new == [name |-> DefaultResourceQuotaName, owner |-> main.scaler.uid, rev |-> rev + 1] IN
       \/ /\ quota[DefaultResourceQuotaName] = None
          /\ WriteQuota(DefaultResourceQuotaName, new)
          /\ main' = Goto("persist", new)
          /\ Succeed
          /\ UNCHANGED <<cache, evaluation, consumed>>
       \/ /\ quota[DefaultResourceQuotaName] # None
          /\ main' = Goto("existing", None)
          /\ Succeed
          /\ UNCHANGED <<scaler, quota, rev, stream, cache, evaluation, consumed>>
       \/ /\ Return(main.scaler, None)
          /\ Fail
          /\ UNCHANGED <<scaler, quota, rev, stream>>
  /\ UNCHANGED <<time, era>>

(* isControlledByScaler compares the owner's name, not its uid.             *)
TakenIsTaken(q) == FALSE
IsControlledByScaler(q) == q # None /\ q.owner # 0

GetExisting ==
  /\ main.pc = "existing"
  /\ LET q == quota[DefaultResourceQuotaName] IN
       \/ /\ IsControlledByScaler(q)
          /\ main' = Goto("persist", q)
          /\ Succeed
          /\ UNCHANGED <<cache, evaluation, consumed>>
       \/ /\ Return(main.scaler, None)
          /\ (~IsControlledByScaler(q) /\ Succeed) \/ Fail
  /\ UNCHANGED <<api, era, stream>>

(* Write the name back.  The API server refuses the update of a scaler that *)
(* has changed; then only the local copy has the name.                      *)
PersistAlways(named) ==
  \/ /\ scaler # None
     /\ WriteScaler(named)
     /\ Return(named, main.quota)
     /\ Succeed
  \/ /\ scaler = None
     /\ Return(named, main.quota)
     /\ Succeed
     /\ UNCHANGED <<scaler, quota, rev, stream>>
PersistName(named) ==
  \/ /\ scaler = main.scaler
     /\ WriteScaler(named)
     /\ Return(named, main.quota)
     /\ Succeed
  \/ /\ (scaler # main.scaler /\ Succeed) \/ Fail
     /\ Return([named EXCEPT !.rev = main.scaler.rev], main.quota)
     /\ UNCHANGED <<scaler, quota, rev, stream>>

Persist ==
  /\ main.pc = "persist"
  /\ PersistName([main.scaler EXCEPT !.ref = DefaultResourceQuotaName, !.rev = rev + 1])
  /\ UNCHANGED <<time, era>>

-----------------------------------------------------------------------------
(* Run: Started is set, the listed scaler is resolved, then the select.     *)
Run ==
  /\ main.pc = "run"
  /\ era' = era + 1
  /\ main' = IF main.scaler = None THEN Select ELSE Resolve(main.scaler, "startup", None)
  /\ UNCHANGED <<api, stream, cache, evaluation, consumed, bounds>>

ReceiveScaler ==
  /\ main.pc = "select" /\ scalerStream # <<>>
  /\ scalerStream' = Tail(scalerStream)
  /\ LET event == Head(scalerStream) IN
       \/ /\ event.type = "deleted"
          /\ cache' = Cached(None, cache.quota, cache.events)
          /\ UNCHANGED main
       \/ /\ event.type = "put"
          /\ main' = Resolve(event.object, "scalerEvent", None)
          /\ UNCHANGED cache
  /\ UNCHANGED <<api, quotaStream, eventStream, era, evaluation, consumed, bounds>>

(* A quota event of a scaler that names no target resolves it first.        *)
ReceiveQuota ==
  /\ main.pc = "select" /\ quotaStream # <<>>
  /\ quotaStream' = Tail(quotaStream)
  /\ LET event == Head(quotaStream) IN
       IF cache.scaler # None /\ cache.scaler.ref = ""
       THEN main' = Resolve(cache.scaler, "quotaEvent", event) /\ UNCHANGED cache
       ELSE cache' = Registered(cache, event) /\ UNCHANGED main
  /\ UNCHANGED <<api, scalerStream, eventStream, era, evaluation, consumed, bounds>>

(* shouldIgnoreHistoricalEvent: occurred before Started of this Run,        *)
(* however recently the object was modified or deleted.                     *)
NeverHistorical(d) == FALSE
Historical(d) == time[Occurrence(d)] < era

(* RegisterNamespacedEvent does not look at the type of the watch event.    *)
ReceiveEvent ==
  /\ main.pc = "select" /\ eventStream # <<>>
  /\ eventStream' = Tail(eventStream)
  /\ LET d == Head(eventStream) IN
       \/ Historical(d) /\ NoUpdate /\ UNCHANGED cache
       \/ /\ ~Historical(d) /\ d.object \in Immediate
          /\ UpdateNs(cache, Collected \cup {d})
          /\ cache' = Cached(cache.scaler, cache.quota, None)
       \/ /\ ~Historical(d) /\ d.object \notin Immediate
          /\ cache' = Cached(cache.scaler, cache.quota, Collected \cup {d})
          /\ NoUpdate
  /\ UNCHANGED <<api, scalerStream, quotaStream, era, main, bounds>>

Ticker ==
  /\ main.pc = "select" /\ cache.events # None
  /\ UpdateNs(cache, cache.events)
  /\ cache' = Cached(cache.scaler, cache.quota, None)
  /\ UNCHANGED <<api, era, stream, main, bounds>>

CheckQuotasPeriodically ==
  /\ main.pc = "select" /\ cache.scaler # None
  /\ main' = Resolve(cache.scaler, "periodic", None)
  /\ UNCHANGED <<api, era, stream, cache, evaluation, consumed, bounds>>

-----------------------------------------------------------------------------
(* Users, Kubernetes and the pods of the namespace.                         *)
unchangedByOthers == <<era, main, cache, evaluation, consumed, failures>>

(* Applying a manifest sets the target it names, or leaves the one that is  *)
(* set when it names none.                                                  *)
UserWritesScaler(ref) ==
  /\ Disturb
  /\ WriteScaler(IF scaler = None THEN [uid |-> rev + 1, ref |-> ref, rev |-> rev + 1]
                 ELSE [scaler EXCEPT !.ref = IF ref = "" THEN @ ELSE ref, !.rev = rev + 1])
  /\ UNCHANGED <<time, unchangedByOthers>>

UserDeletesScaler ==
  /\ Disturb /\ scaler # None
  /\ WriteScaler(None)
  /\ UNCHANGED <<time, unchangedByOthers>>

UserCreatesQuota(name) ==
  /\ Disturb /\ quota[name] = None
  /\ WriteQuota(name, [name |-> name, owner |-> 0, rev |-> rev + 1])
  /\ UNCHANGED <<time, unchangedByOthers>>

UserDeletesQuota(name) ==
  /\ Disturb /\ quota[name] # None /\ quota[name].owner = 0
  /\ WriteQuota(name, None)
  /\ UNCHANGED <<time, unchangedByOthers>>

(* Its usage changes, or the resize worker patches it.                      *)
QuotaChanges(name) ==
  /\ Disturb /\ quota[name] # None
  /\ WriteQuota(name, [quota[name] EXCEPT !.rev = rev + 1])
  /\ UNCHANGED <<time, unchangedByOthers>>

(* The garbage collector deletes what an owner that is gone has left.       *)
GarbageCollected(name) ==
  /\ quota[name] # None /\ quota[name].owner # 0
  /\ ~ (scaler # None /\ scaler.uid = quota[name].owner)
  /\ WriteQuota(name, None)
  /\ UNCHANGED <<time, disturbances, unchangedByOthers>>

(* An Event object is created, modified, or deleted: by hand, with its      *)
(* namespace, or when its time to live is over.                             *)
PodEventChanges(d) ==
  /\ Disturb /\ time[d] = None
  /\ d.type # "added" => Occurrence(d) \in Existing
  /\ time' = [time EXCEPT ![d] = era]
  /\ eventStream' = Notify(eventStream, d)
  /\ UNCHANGED <<scaler, quota, rev, scalerStream, quotaStream, unchangedByOthers>>

-----------------------------------------------------------------------------
Opening == ListScalers \/ WatchScalers \/ WatchQuotas \/ WatchEvents \/ Run
Resolving == GetTarget \/ CreateManaged \/ GetExisting \/ Persist

Next ==
  \/ Opening \/ Resolving
  \/ ReceiveScaler \/ ReceiveQuota \/ ReceiveEvent \/ Ticker \/ CheckQuotasPeriodically
  \/ StreamsClose
  \/ \E ref \in UserRefs : UserWritesScaler(ref)
  \/ UserDeletesScaler
  \/ \E name \in QuotaNames : \/ UserCreatesQuota(name) \/ UserDeletesQuota(name)
                              \/ QuotaChanges(name) \/ GarbageCollected(name)
  \/ \E d \in Deliveries : PodEventChanges(d)

Safety == Init /\ [][Next]_vars

(* The goroutine runs, its select picks among ready cases at random, and    *)
(* the tickers go on.  The garbage collector does its work.  Users and pods *)
(* need do nothing.                                                         *)
Fairness ==
  /\ WF_vars(Opening) /\ WF_vars(Resolving)
  /\ SF_vars(ReceiveScaler) /\ SF_vars(ReceiveQuota) /\ SF_vars(ReceiveEvent)
  /\ SF_vars(Ticker) /\ SF_vars(CheckQuotasPeriodically)
  /\ \A name \in QuotaNames : WF_vars(GarbageCollected(name))

Spec == Safety /\ Fairness

-----------------------------------------------------------------------------
ScalerObjects == [uid : Nat, ref : QuotaNames \cup {""}, rev : Nat]
QuotaObjects == [name : QuotaNames, owner : Nat, rev : Nat]
Events(objects) == [type : {"put", "deleted"}, object : objects]

(* None is not a time, and a closed stream is not an empty one.             *)
ASSUME NoneAssumption ==
  None \notin Nat \cup Seq(Events(ScalerObjects)) \cup Seq(Events(QuotaObjects)) \cup Seq(Deliveries)

TypeOK ==
  /\ scaler \in ScalerObjects \cup {None}
  /\ \A name \in QuotaNames : quota[name] \in QuotaObjects \cup {None}
  /\ \A d \in Deliveries : time[d] \in 0 .. era \cup {None}
  /\ scalerStream \in Seq(Events(ScalerObjects)) \cup {None}
  /\ quotaStream \in Seq(Events(QuotaObjects)) \cup {None}
  /\ eventStream \in Seq(Deliveries) \cup {None}
  /\ main.scaler \in ScalerObjects \cup {None} /\ main.quota \in QuotaObjects \cup {None}
  /\ cache.scaler \in ScalerObjects \cup {None} /\ cache.quota \in QuotaObjects \cup {None}
  /\ cache.events \in (SUBSET Deliveries) \cup {None}
  /\ main.pc \in {"run", "select"} => None \notin {scalerStream, quotaStream, eventStream}
  /\ failures <= disturbances /\ disturbances <= MaxDisturbances

(* "events should be consumed once": an occurrence is given to one          *)
(* evaluation at most, although every reopened watch delivers the old ones  *)
(* again.  What the Event object goes through later (modified, deleted) is  *)
(* registered like a new occurrence, once each, and only in the Run in      *)
(* which the event occurred.                                                *)
InItsRun(d) == time[d] # None /\ time[d] = time[Occurrence(d)]
ConsumedOnce == \A d \in Deliveries : consumed[d] <= IF InItsRun(d) THEN 1 ELSE 0

(* What the controller writes into a QuotaAutoscaler is the name of the     *)
(* managed quota and nothing else, and never over a name the user has set,  *)
(* however old the copy it works on.                                        *)
LoopStep == main' # main
NeverRevertsScaler ==
  [][LoopStep /\ scaler' # scaler =>
       /\ scaler.ref = ""
       /\ scaler' = [scaler EXCEPT !.ref = DefaultResourceQuotaName, !.rev = rev + 1]]_vars

(* Once nothing changes outside, the loop ends up with the scaler as it is  *)
(* and with its target as it is, whatever order the streams delivered and   *)
(* whatever a resolution overtook.  (A scaler deleted between the list and  *)
(* the watch is not noticed before the streams are reopened.)               *)
Matched ==
  scaler # None /\ scaler.ref # "" =>
    /\ cache.scaler = scaler
    /\ quota[scaler.ref] # None => cache.quota = quota[scaler.ref]
Converges == <>[]Matched

(* A scaler that names no target gets one, unless the default name is taken *)
(* by a quota of someone else.                                              *)
Foreign(q) == q # None /\ q.owner = 0
OmittedTargetIsSet ==
  <>[](failures = 0 /\ scaler # None /\ scaler.ref = "" => Foreign(quota[DefaultResourceQuotaName]))

-----------------------------------------------------------------------------
(* What the documentation says and the code does not always do.             *)

(* "match each QuotaAutoscaler to its target ResourceQuota": the evaluation *)
(* computes on one quota and patches the one its scaler names.  When the    *)
(* new target cannot be read, the old one stays in the map.                 *)
EvaluatesTarget == evaluation # None => evaluation.computes = evaluation.patches
=============================================================================
