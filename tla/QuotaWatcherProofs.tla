------------------------- MODULE QuotaWatcherProofs -------------------------
(***************************************************************************)
(* Theorems about the watch loop, for any quotas, pod events and number of *)
(* changes, failures and reopened streams.                                 *)
(***************************************************************************)
EXTENDS QuotaWatcher, FiniteSetTheorems, TLAPS

-----------------------------------------------------------------------------
(* What the controller writes into a QuotaAutoscaler.                       *)

(* The name is written back only for a scaler that had none when it was     *)
(* resolved.                                                                *)
RefInv == main.pc \in {"create", "existing", "persist"} => main.scaler.ref = ""

(* A step that leaves the goroutine alone, or takes it to its select.       *)
LEMMA RefKept ==
  ASSUME RefInv, UNCHANGED main \/ main' = Select
  PROVE  RefInv'
<1>1. CASE UNCHANGED main
  BY <1>1 DEF RefInv
<1>2. CASE main' = Select
  <2>1. main'.pc = "select"
    BY <1>2 DEF Select, At
  <2> QED BY <2>1 DEF RefInv
<1> QED BY <1>1, <1>2

(* A resolution begins.                                                     *)
LEMMA RefResolve ==
  ASSUME NEW s, NEW then, NEW event, main' = Resolve(s, then, event)
  PROVE  RefInv'
BY DEF RefInv, Resolve

(* A resolution goes on.                                                    *)
LEMMA RefGoto ==
  ASSUME RefInv, main.pc \in {"create", "existing"}, NEW pc, NEW q, main' = Goto(pc, q)
  PROVE  RefInv'
BY DEF RefInv, Goto

(* The invariant is inductive.                                              *)
LEMMA RefInductive == RefInv /\ [Next]_vars => RefInv'
<1> SUFFICES ASSUME RefInv, [Next]_vars PROVE RefInv'
  OBVIOUS
<1>1. CASE Opening
  <2>1. CASE ListScalers
    BY <2>1 DEF ListScalers, RefInv, At
  <2>2. CASE WatchScalers \/ WatchQuotas \/ WatchEvents
    <3>1. main'.pc \in {"watchQuotas", "watchEvents", "run"}
      BY <2>2 DEF WatchScalers, WatchQuotas, WatchEvents, Goto
    <3> QED BY <3>1 DEF RefInv
  <2>3. CASE Run
    BY <2>3, RefKept, RefResolve DEF Run
  <2> QED BY <1>1, <2>1, <2>2, <2>3 DEF Opening
<1>2. CASE Resolving
  <2>1. CASE GetTarget
    BY <2>1, RefKept DEF GetTarget, Return
  <2>2. CASE CreateManaged
    BY <2>2, RefKept, RefGoto DEF CreateManaged, Return
  <2>3. CASE GetExisting
    BY <2>3, RefKept, RefGoto DEF GetExisting, Return
  <2>4. CASE Persist
    BY <2>4, RefKept DEF Persist, PersistName, Return
  <2> QED BY <1>2, <2>1, <2>2, <2>3, <2>4 DEF Resolving
<1>3. CASE ReceiveScaler \/ ReceiveQuota \/ CheckQuotasPeriodically
  BY <1>3, RefKept, RefResolve DEF ReceiveScaler, ReceiveQuota, CheckQuotasPeriodically
<1>4. CASE ReceiveEvent \/ Ticker
  BY <1>4, RefKept DEF ReceiveEvent, Ticker
<1>5. CASE StreamsClose
  BY <1>5 DEF StreamsClose, RefInv, At
<1>6. ASSUME NEW ref \in UserRefs, UserWritesScaler(ref) PROVE RefInv'
  BY <1>6, RefKept DEF UserWritesScaler, unchangedByOthers
<1>7. CASE UserDeletesScaler
  BY <1>7, RefKept DEF UserDeletesScaler, unchangedByOthers
<1>8. ASSUME NEW name \in QuotaNames,
             UserCreatesQuota(name) \/ UserDeletesQuota(name) \/ QuotaChanges(name)
               \/ GarbageCollected(name)
      PROVE  RefInv'
  BY <1>8, RefKept DEF UserCreatesQuota, UserDeletesQuota, QuotaChanges, GarbageCollected,
                       unchangedByOthers
<1>9. ASSUME NEW d \in Deliveries, PodEventChanges(d) PROVE RefInv'
  BY <1>9, RefKept DEF PodEventChanges, unchangedByOthers
<1>10. CASE UNCHANGED vars
  BY <1>10, RefKept DEF vars
<1> QED BY <1>1, <1>2, <1>3, <1>4, <1>5, <1>6, <1>7, <1>8, <1>9, <1>10 DEF Next

(* The one call by which the loop writes a scaler.                          *)
LEMMA PersistFillsIn ==
  ASSUME RefInv, Persist, scaler' # scaler
  PROVE  /\ scaler.ref = ""
         /\ scaler' = [scaler EXCEPT !.ref = DefaultResourceQuotaName, !.rev = rev + 1]
<1>1. scaler = main.scaler
      /\ scaler' = [main.scaler EXCEPT !.ref = DefaultResourceQuotaName, !.rev = rev + 1]
  BY DEF Persist, PersistName, WriteScaler
<1>2. main.scaler.ref = ""
  BY DEF RefInv, Persist
<1> QED BY <1>1, <1>2

(* Every other step leaves the scaler alone or is not the loop's.           *)
LEMMA OnlyPersistWrites ==
  ASSUME [Next]_vars, LoopStep, scaler' # scaler
  PROVE  Persist
<1>1. ASSUME Opening \/ ReceiveScaler \/ ReceiveQuota \/ ReceiveEvent PROVE FALSE
  BY <1>1 DEF Opening, ListScalers, WatchScalers, WatchQuotas, WatchEvents, Run, ReceiveScaler,
              ReceiveQuota, ReceiveEvent, api
<1>2. ASSUME Ticker \/ CheckQuotasPeriodically \/ StreamsClose PROVE FALSE
  BY <1>2 DEF Ticker, CheckQuotasPeriodically, StreamsClose, api
<1>3. ASSUME GetTarget \/ CreateManaged \/ GetExisting PROVE FALSE
  BY <1>3 DEF GetTarget, CreateManaged, GetExisting, WriteQuota, api
<1>4. ASSUME UNCHANGED main PROVE FALSE
  BY <1>4 DEF LoopStep
<1>5. ASSUME NEW ref \in UserRefs, UserWritesScaler(ref) PROVE FALSE
  BY <1>4, <1>5 DEF UserWritesScaler, unchangedByOthers
<1>6. ASSUME NEW name \in QuotaNames,
             UserCreatesQuota(name) \/ UserDeletesQuota(name) \/ QuotaChanges(name)
               \/ GarbageCollected(name)
      PROVE  FALSE
  BY <1>4, <1>6 DEF UserCreatesQuota, UserDeletesQuota, QuotaChanges, GarbageCollected,
                    unchangedByOthers
<1>7. ASSUME NEW d \in Deliveries, PodEventChanges(d) PROVE FALSE
  BY <1>4, <1>7 DEF PodEventChanges, unchangedByOthers
<1>8. ASSUME UserDeletesScaler \/ UNCHANGED vars PROVE FALSE
  BY <1>4, <1>8 DEF UserDeletesScaler, unchangedByOthers, vars
<1> QED BY <1>1, <1>2, <1>3, <1>5, <1>6, <1>7, <1>8 DEF Next, Resolving

(* The controller only ever fills in the name of the managed quota, and     *)
(* only in a scaler that still names none, whatever users do meanwhile.     *)
THEOREM NeverRevertsScalerCorrect == Safety => NeverRevertsScaler
<1>1. Init => RefInv
  <2>1. Init => main.pc = "list"
    BY DEF Init, At
  <2> QED BY <2>1 DEF RefInv
<1>2. RefInv /\ [Next]_vars =>
        [LoopStep /\ scaler' # scaler =>
           /\ scaler.ref = ""
           /\ scaler' = [scaler EXCEPT !.ref = DefaultResourceQuotaName, !.rev = rev + 1]]_vars
  BY OnlyPersistWrites, PersistFillsIn
<1> QED BY <1>1, <1>2, RefInductive, PTL DEF Safety, NeverRevertsScaler

-----------------------------------------------------------------------------
(* How often a pod event is evaluated.                                      *)

Running == main.pc \in {"select", "get", "create", "existing", "persist"}
Opened == Running \/ main.pc = "run"

(* A delivery that may still be evaluated in this Run.                      *)
Fresh(d) == time[Occurrence(d)] = era

EventTypes ==
  /\ era \in Nat
  /\ time \in [Deliveries -> Nat \cup {None}]
  /\ consumed \in [Deliveries -> {0, 1}]
  /\ Collected \subseteq Deliveries
  /\ eventStream \in Seq(Deliveries) \cup {None}
  /\ Opened => eventStream \in Seq(Deliveries)

(* Times are those of eras that have begun, and an object occurs before it  *)
(* is modified or deleted.  What is delivered or evaluated has happened,    *)
(* and in the Run of its occurrence if it was evaluated.                    *)
Ordered(d) ==
  time[d] # None =>
    /\ time[d] <= era
    /\ time[Occurrence(d)] # None /\ time[Occurrence(d)] <= time[d]
Occurred ==
  /\ \A d \in Deliveries : Ordered(d) /\ (~InItsRun(d) => consumed[d] = 0)
  /\ Opened => \A i \in 1 .. Len(eventStream) : time[eventStream[i]] # None

(* A delivery of this Run is in the stream, or collected, or evaluated.     *)
CollectedOnce ==
  /\ ~Running => Collected = {}
  /\ \A d \in Collected : Fresh(d) /\ time[d] # None /\ consumed[d] = 0
DeliveredOnce ==
  Running => \A i \in 1 .. Len(eventStream) :
               Fresh(eventStream[i]) =>
                 /\ consumed[eventStream[i]] = 0
                 /\ eventStream[i] \notin Collected
                 /\ \A j \in 1 .. Len(eventStream) : eventStream[j] = eventStream[i] => j = i

EventInv == EventTypes /\ Occurred /\ CollectedOnce /\ DeliveredOnce

(* Every delivery is of an object that has occurred.                        *)
LEMMA OccurrenceOf ==
  ASSUME NEW d \in Deliveries
  PROVE  /\ Occurrence(d) \in Deliveries /\ Deletion(d) \in Deliveries
         /\ Occurrence(Occurrence(d)) = Occurrence(d)
         /\ d.type = "added" => d = Occurrence(d)
         /\ d.type # "added" => d # Occurrence(d)
BY DEF Deliveries, Occurrence, Deletion

(* A delivery that has happened, of an event of this Run, is of this Run.   *)
LEMMA FreshIsInItsRun ==
  ASSUME EventInv, NEW d \in Deliveries, Fresh(d), time[d] # None
  PROVE  InItsRun(d) /\ time[d] = era
<1>1. time[Occurrence(d)] = era /\ time[d] <= era /\ time[Occurrence(d)] <= time[d]
  BY DEF EventInv, Occurred, Ordered, Fresh
<1>2. time[d] \in Nat /\ era \in Nat
  BY DEF EventInv, EventTypes
<1> QED BY <1>1, <1>2 DEF InItsRun

(* A step that evaluates nothing and collects nothing new.                  *)
LEMMA EventKept ==
  ASSUME EventInv, UNCHANGED <<time, era, eventStream, consumed>>,
         Running' => Running, Opened' => Opened,
         Collected' \subseteq Collected, ~Running' => Collected' = {}
  PROVE  EventInv'
<1>1. EventTypes'
  BY DEF EventInv, EventTypes
<1>2. Occurred'
  BY DEF EventInv, Occurred, Ordered, InItsRun
<1>3. CollectedOnce'
  BY DEF EventInv, CollectedOnce, Fresh
<1>4. DeliveredOnce'
  BY DEF EventInv, DeliveredOnce, Fresh
<1> QED BY <1>1, <1>2, <1>3, <1>4 DEF EventInv

(* Evaluating without events counts none.                                   *)
LEMMA EvaluateNothing ==
  ASSUME EventInv, NEW c, UpdateNs(c, {}) \/ NoUpdate
  PROVE  consumed' = consumed
<1>1. CASE NoUpdate
  BY <1>1 DEF NoUpdate
<1>2. CASE UpdateNs(c, {})
  <2>1. \A e \in Deliveries : consumed[e] \in Nat
    BY DEF EventInv, EventTypes
  <2>2. consumed' = [e \in Deliveries |-> consumed[e]] \/ consumed' = consumed
    BY <1>2, <2>1 DEF UpdateNs
  <2> QED BY <2>2 DEF EventInv, EventTypes
<1> QED BY <1>1, <1>2

(* Evaluating events that were not evaluated before counts them once.       *)
LEMMA EvaluateFresh ==
  ASSUME EventInv, NEW c, NEW events, UpdateNs(c, events),
         \A e \in events : e \in Deliveries /\ consumed[e] = 0
  PROVE  /\ consumed' \in [Deliveries -> {0, 1}]
         /\ \A e \in Deliveries : e \notin events => consumed'[e] = consumed[e]
<1>1. \A e \in Deliveries : consumed[e] \in {0, 1}
  BY DEF EventInv, EventTypes
<1>2. CASE consumed' = [e \in Deliveries |-> consumed[e] + IF e \in events THEN 1 ELSE 0]
  <2>1. \A e \in Deliveries : e \in events => consumed'[e] = 1
    BY <1>2
  <2>2. \A e \in Deliveries : e \notin events => consumed'[e] = consumed[e]
    BY <1>1, <1>2
  <2> QED BY <1>1, <1>2, <2>1, <2>2
<1>3. CASE consumed' = consumed
  BY <1>3 DEF EventInv, EventTypes
<1> QED BY <1>2, <1>3 DEF UpdateNs

(* What is collected after a step that sets the map's events.               *)
LEMMA CollectedAfter ==
  ASSUME NEW s, NEW q, NEW events, cache' = Cached(s, q, events)
  PROVE  /\ Collected' = IF events = None THEN {} ELSE events
         /\ events = cache.events => Collected' = Collected
BY DEF Cached, Collected

(* However a resolution changes the maps, it leaves the events alone.       *)
LEMMA ResolutionKeepsEvents ==
  ASSUME EventInv, NEW s, NEW q, Return(s, q)
  PROVE  Running' /\ Collected' \subseteq Collected /\ consumed' = consumed
<1>1. Running'
  <2>1. main'.pc = "select"
    BY DEF Return, Select, At
  <2> QED BY <2>1 DEF Running
<1>2. CASE AfterStartup(s, q) \/ AfterScalerEvent(s, q) \/ AfterPeriodic(s, q)
  <2>1. cache' = cache \/ cache' = WithScaler(s, q)
    BY <1>2 DEF AfterStartup, AfterScalerEvent, AfterPeriodic, IfResolved
  <2>2. Collected' = Collected
    BY <2>1, CollectedAfter DEF WithScaler, Collected
  <2>3. UpdateNs(cache', {}) \/ NoUpdate
    BY <1>2 DEF AfterStartup, AfterScalerEvent, AfterPeriodic
  <2> QED BY <1>1, <2>2, <2>3, EvaluateNothing
<1>3. CASE AfterQuotaEvent(s, q)
  <2>1. PICK c : c \in {cache, WithScaler(s, q)} /\ cache' = Registered(c, main.event)
    BY <1>3 DEF AfterQuotaEvent, IfResolved
  <2>2. c.events = cache.events
    BY <2>1 DEF WithScaler, Cached
  <2>3. Collected' \subseteq Collected
    BY <2>1, <2>2 DEF Registered, Cached, Collected, WithScaler
  <2>4. consumed' = consumed
    BY <1>3 DEF AfterQuotaEvent, NoUpdate
  <2> QED BY <1>1, <2>3, <2>4
<1> QED BY <1>2, <1>3 DEF Return

(* One step of a resolution.                                                *)
LEMMA ResolvingKeeps ==
  ASSUME EventInv, Resolving
  PROVE  EventInv'
<1>1. Running /\ UNCHANGED <<time, era, eventStream>>
  BY DEF Resolving, GetTarget, CreateManaged, GetExisting, Persist, PersistName, WriteScaler,
         WriteQuota, Running, api, stream
<1>2. \/ \E s, q : Return(s, q)
      \/ /\ UNCHANGED <<cache, consumed>>
         /\ \E pc \in {"existing", "persist"} : \E q : main' = Goto(pc, q)
  BY DEF Resolving, GetTarget, CreateManaged, GetExisting, Persist, PersistName
<1>3. CASE \E s, q : Return(s, q)
  BY <1>1, <1>3, ResolutionKeepsEvents, EventKept DEF Opened
<1>4. CASE /\ UNCHANGED <<cache, consumed>>
           /\ \E pc \in {"existing", "persist"} : \E q : main' = Goto(pc, q)
  <2>1. Running'
    BY <1>4 DEF Running, Goto
  <2> QED BY <1>1, <1>4, <2>1, EventKept DEF Collected, Opened
<1> QED BY <1>2, <1>3, <1>4

(* A sequence of the members of a finite set.                               *)
LEMMA ListedSet ==
  ASSUME NEW S, IsFiniteSet(S)
  PROVE  SetToSeq(S) \in Seq(S)
<1>1. PICK f : f \in Bijection(1 .. Cardinality(S), S)
  BY FS_CardinalityType DEF ExistsBijection
<1>2. f \in [1 .. Cardinality(S) -> S] /\ IsInjective(f)
  BY <1>1 DEF Bijection, Injection, IsInjective
<1>3. SetToSeq(S) \in [1 .. Cardinality(S) -> S]
  BY <1>2 DEF SetToSeq
<1>4. Cardinality(S) \in Nat
  BY FS_CardinalityType
<1> QED BY <1>3, <1>4

(* The objects with which the event watch begins: there is one of each.     *)
LEMMA ExistingListed ==
  SetToSeq(Existing) \in Seq(Existing) /\ Existing \subseteq Deliveries
<1> DEFINE f == [d \in Existing |-> d.object]
<1>1. ASSUME NEW d \in Existing
      PROVE  d.object \in PodEvents /\ d = [type |-> "added", object |-> d.object]
  BY DEF Existing, Deliveries
<1>2. f \in [Existing -> PodEvents] /\ \A c, d \in Existing : f[c] = f[d] => c = d
  BY <1>1
<1> HIDE DEF f
<1>3. f \in Injection(Existing, PodEvents)
  BY <1>2 DEF Injection, IsInjective
<1>4. IsFiniteSet(Existing)
  BY <1>3, WatcherAssumption, FS_Injection
<1> QED BY <1>4, ListedSet DEF Existing

(* Opening the streams and starting Run.                                    *)
LEMMA OpeningKeeps ==
  ASSUME EventInv, Opening
  PROVE  EventInv'
<1>1. CASE ListScalers \/ WatchScalers \/ WatchQuotas
  <2>1. ~Opened /\ ~Opened' /\ UNCHANGED <<time, era, eventStream, consumed, cache>>
    <3>1. main'.pc \in {"watchScalers", "watchQuotas", "watchEvents"}
      BY <1>1 DEF ListScalers, WatchScalers, WatchQuotas, Goto, At
    <3>2. main.pc \in {"list", "watchScalers", "watchQuotas"}
      BY <1>1 DEF ListScalers, WatchScalers, WatchQuotas
    <3>3. UNCHANGED <<time, era, eventStream, consumed, cache>>
      BY <1>1 DEF ListScalers, WatchScalers, WatchQuotas, api, stream
    <3> QED BY <3>1, <3>2, <3>3 DEF Opened, Running
  <2>2. Collected' = Collected /\ Collected = {}
    BY <2>1 DEF Collected, EventInv, CollectedOnce, Opened
  <2> QED BY <2>1, <2>2, EventKept DEF Opened
<1>2. CASE WatchEvents
  <2>1. UNCHANGED <<time, era, consumed, cache>> /\ eventStream' \in Seq(Existing)
    BY <1>2, ExistingListed DEF WatchEvents, api
  <2>2. ~Running /\ ~Running'
    <3>1. main'.pc = "run"
      BY <1>2 DEF WatchEvents, Goto
    <3> QED BY <1>2, <3>1 DEF WatchEvents, Running
  <2>3. Collected' = {}
    BY <2>1, <2>2 DEF Collected, EventInv, CollectedOnce
  <2>4. EventTypes'
    <3>1. eventStream' \in Seq(Deliveries)
      BY <2>1, ExistingListed
    <3> QED BY <2>1, <2>3, <3>1 DEF EventInv, EventTypes
  <2>5. \A i \in 1 .. Len(eventStream') : time[eventStream'[i]] # None
    BY <2>1 DEF Existing
  <2>6. Occurred'
    BY <2>1, <2>5 DEF EventInv, Occurred, Ordered, InItsRun
  <2> QED BY <2>2, <2>3, <2>4, <2>6 DEF EventInv, CollectedOnce, DeliveredOnce
<1>3. CASE Run
  <2>1. UNCHANGED <<time, eventStream, consumed, cache>> /\ era' = era + 1
    BY <1>3 DEF Run, api, stream
  <2>2. Opened /\ ~Running
    BY <1>3 DEF Run, Opened, Running
  <2>3. Collected' = {}
    BY <2>1, <2>2 DEF Collected, EventInv, CollectedOnce
  <2>4. \A d \in Deliveries : time[d] # None => time[d] \in Nat /\ time[d] < era'
    BY <2>1 DEF EventInv, EventTypes, Occurred, Ordered
  <2>5. EventTypes'
    BY <2>1, <2>2, <2>3 DEF EventInv, EventTypes
  <2>6. Occurred'
    <3>1. \A d \in Deliveries : Ordered(d)' /\ (~InItsRun(d)' => consumed'[d] = 0)
      BY <2>1, <2>4, <2>5 DEF EventInv, EventTypes, Occurred, Ordered, InItsRun
    <3> QED BY <2>1, <2>2, <3>1 DEF EventInv, Occurred
  <2>7. \A i \in 1 .. Len(eventStream) : eventStream[i] \in Deliveries /\ time[eventStream[i]] # None
    BY <2>2 DEF EventInv, EventTypes, Occurred
  <2>8. DeliveredOnce'
    <3>1. \A i \in 1 .. Len(eventStream) : ~Fresh(eventStream[i])'
      <4>1. ASSUME NEW i \in 1 .. Len(eventStream) PROVE ~Fresh(eventStream[i])'
        <5>1. time[Occurrence(eventStream[i])] # None /\ Occurrence(eventStream[i]) \in Deliveries
          BY <2>7, OccurrenceOf DEF EventInv, Occurred, Ordered
        <5>2. time[Occurrence(eventStream[i])] < era' /\ time[Occurrence(eventStream[i])] \in Nat
          BY <2>4, <5>1
        <5>3. era' \in Nat
          BY <2>5 DEF EventTypes
        <5> QED BY <2>1, <5>2, <5>3 DEF Fresh
      <4> QED BY <4>1
    <3> QED BY <2>1, <3>1 DEF DeliveredOnce
  <2> QED BY <2>3, <2>5, <2>6, <2>8 DEF EventInv, CollectedOnce
<1> QED BY <1>1, <1>2, <1>3 DEF Opening

(* The rest of the stream.                                                  *)
LEMMA TailOf ==
  ASSUME NEW s \in Seq(Deliveries), s # <<>>
  PROVE  /\ Tail(s) \in Seq(Deliveries) /\ Head(s) = s[1] /\ Len(s) >= 1
         /\ \A i \in 1 .. Len(Tail(s)) : i + 1 \in 1 .. Len(s) /\ Tail(s)[i] = s[i + 1]
OBVIOUS

(* An event arrives: it is old, evaluated at once, or collected.            *)
LEMMA ReceiveEventKeeps ==
  ASSUME EventInv, ReceiveEvent
  PROVE  EventInv'
<1> DEFINE e == Head(eventStream)
<1>1. Running /\ eventStream \in Seq(Deliveries) /\ eventStream # <<>> /\ main' = main
      /\ time' = time /\ era' = era /\ eventStream' = Tail(eventStream)
  BY DEF ReceiveEvent, Running, Opened, EventInv, EventTypes, api
<1>2. Running' /\ Opened'
  BY <1>1 DEF Running, Opened
<1>3. e = eventStream[1] /\ e \in Deliveries /\ 1 \in 1 .. Len(eventStream)
  BY <1>1, TailOf
<1>4. \A i \in 1 .. Len(eventStream') :
        i + 1 \in 1 .. Len(eventStream) /\ eventStream'[i] = eventStream[i + 1]
  BY <1>1, TailOf
<1>5. time[e] # None /\ time[Occurrence(e)] \in Nat /\ time[Occurrence(e)] <= era
  <2>1. time[e] # None /\ Ordered(e)
    BY <1>1, <1>3 DEF EventInv, Occurred, Opened
  <2>2. /\ time[Occurrence(e)] # None /\ time[Occurrence(e)] <= time[e] /\ time[e] <= era
        /\ Occurrence(e) \in Deliveries
    BY <1>3, <2>1, OccurrenceOf DEF Ordered
  <2>3. time[e] \in Nat /\ time[Occurrence(e)] \in Nat /\ era \in Nat
    BY <1>3, <2>1, <2>2 DEF EventInv, EventTypes
  <2> QED BY <2>1, <2>2, <2>3
<1>6. ~Historical(e) => /\ Fresh(e) /\ consumed[e] = 0 /\ e \notin Collected
                        /\ \A i \in 1 .. Len(eventStream') : eventStream'[i] # e
  <2> HIDE DEF e
  <2>1. ~Historical(e) => Fresh(e)
    BY <1>5 DEF Historical, Fresh, EventInv, EventTypes
  <2>2. Fresh(e) => /\ consumed[e] = 0 /\ e \notin Collected
                    /\ \A j \in 1 .. Len(eventStream) : eventStream[j] = e => j = 1
    BY <1>1, <1>3 DEF EventInv, DeliveredOnce
  <2>3. \A i \in 1 .. Len(eventStream') : i \in Nat /\ i + 1 # 1
    OBVIOUS
  <2> QED BY <1>4, <2>1, <2>2, <2>3
<1>7. CASE Historical(e)
  <2>1. UNCHANGED <<cache, consumed>>
    BY <1>7 DEF ReceiveEvent, NoUpdate
  <2>2. Collected' = Collected
    BY <2>1 DEF Collected
  <2>3. EventTypes' /\ Occurred'
    BY <1>1, <1>2, <1>4, <2>1, <2>2, TailOf
       DEF EventInv, EventTypes, Occurred, Ordered, InItsRun, Opened
  <2>4. CollectedOnce' /\ DeliveredOnce'
    BY <1>1, <1>2, <1>4, <2>1, <2>2 DEF EventInv, CollectedOnce, DeliveredOnce, Fresh
  <2> QED BY <2>3, <2>4 DEF EventInv
<1> DEFINE seen == Collected \cup {e}
<1>8. \A x \in seen : ~Historical(e) =>
        x \in Deliveries /\ consumed[x] = 0 /\ Fresh(x) /\ time[x] # None
  BY <1>3, <1>5, <1>6 DEF EventInv, EventTypes, CollectedOnce
<1>9. \A i \in 1 .. Len(eventStream') :
        ~Historical(e) /\ Fresh(eventStream'[i]) => eventStream'[i] \notin seen
  BY <1>1, <1>4, <1>6 DEF EventInv, DeliveredOnce
<1> HIDE DEF e, seen
<1>10. CASE ~Historical(e) /\ e.object \in Immediate
  <2>1. UpdateNs(cache, seen) /\ Collected' = {}
    BY <1>10, CollectedAfter DEF ReceiveEvent, e, seen
  <2>2. /\ consumed' \in [Deliveries -> {0, 1}]
        /\ \A x \in Deliveries : x \notin seen => consumed'[x] = consumed[x]
    BY <1>8, <1>10, <2>1, EvaluateFresh
  <2>3. EventTypes'
    BY <1>1, <1>2, <2>1, <2>2, TailOf DEF EventInv, EventTypes
  <2>4. \A x \in Deliveries : ~InItsRun(x) => x \notin seen
    BY <1>8, <1>10, FreshIsInItsRun
  <2>5. Occurred'
    BY <1>1, <1>2, <1>4, <2>2, <2>4 DEF EventInv, Occurred, Ordered, InItsRun, Opened
  <2>6. CollectedOnce'
    BY <1>2, <2>1 DEF CollectedOnce
  <2>7. DeliveredOnce'
    BY <1>1, <1>4, <1>9, <1>10, <2>1, <2>2 DEF EventInv, EventTypes, DeliveredOnce, Fresh
  <2> QED BY <2>3, <2>5, <2>6, <2>7 DEF EventInv
<1>11. CASE ~Historical(e) /\ e.object \notin Immediate
  <2>1. consumed' = consumed /\ Collected' \subseteq seen
    BY <1>11, CollectedAfter DEF ReceiveEvent, NoUpdate, e, seen
  <2>2. EventTypes' /\ Occurred'
    BY <1>1, <1>2, <1>4, <1>8, <1>11, <2>1, TailOf
       DEF EventInv, EventTypes, Occurred, Ordered, InItsRun, Opened
  <2>3. CollectedOnce'
    BY <1>1, <1>2, <1>8, <1>11, <2>1 DEF CollectedOnce, Fresh
  <2>4. DeliveredOnce'
    BY <1>1, <1>4, <1>9, <1>11, <2>1 DEF EventInv, DeliveredOnce, Fresh
  <2> QED BY <2>2, <2>3, <2>4 DEF EventInv
<1> QED BY <1>7, <1>10, <1>11

(* The ticker evaluates what was collected, and forgets it.                 *)
LEMMA TickerKeeps ==
  ASSUME EventInv, Ticker
  PROVE  EventInv'
<1>1. Running /\ UNCHANGED <<main, time, era, eventStream>> /\ cache.events = Collected
  BY DEF Ticker, Running, Collected, api, stream
<1>2. UpdateNs(cache, Collected) /\ Collected' = {}
  BY <1>1, CollectedAfter DEF Ticker
<1>3. \A d \in Collected : d \in Deliveries /\ consumed[d] = 0 /\ Fresh(d) /\ time[d] # None
  BY DEF EventInv, EventTypes, CollectedOnce
<1>4. /\ consumed' \in [Deliveries -> {0, 1}]
      /\ \A e \in Deliveries : e \notin Collected => consumed'[e] = consumed[e]
  BY <1>2, <1>3, EvaluateFresh
<1>5. EventTypes'
  BY <1>1, <1>2, <1>4 DEF EventInv, EventTypes, Opened, Running
<1>6. \A d \in Deliveries : ~InItsRun(d) => d \notin Collected
  BY <1>3, FreshIsInItsRun
<1>7. Occurred'
  BY <1>1, <1>4, <1>6 DEF EventInv, Occurred, Ordered, InItsRun, Opened, Running
<1>8. DeliveredOnce'
  BY <1>1, <1>2, <1>4 DEF EventInv, EventTypes, DeliveredOnce, Fresh, Opened, Running
<1> QED BY <1>2, <1>5, <1>7, <1>8 DEF EventInv, CollectedOnce

(* What has happened to the objects stays as it is when one more changes.   *)
LEMMA TimesKept ==
  ASSUME EventInv, NEW e \in Deliveries, PodEventChanges(e)
  PROVE  /\ time[e] = None /\ time'[e] = era /\ era \in Nat
         /\ \A d \in Deliveries :
              /\ d # e => time'[d] = time[d]
              /\ time[d] # None => d # e /\ time'[d] = time[d]
                                   /\ time'[Occurrence(d)] = time[Occurrence(d)]
<1>1. time[e] = None /\ time' = [time EXCEPT ![e] = era] /\ time \in [Deliveries -> Nat \cup {None}]
      /\ era \in Nat
  BY DEF PodEventChanges, EventInv, EventTypes
<1>2. ASSUME NEW d \in Deliveries, time[d] # None
      PROVE  d # e /\ Occurrence(d) # e /\ Occurrence(d) \in Deliveries
  BY <1>1, <1>2, OccurrenceOf DEF EventInv, Occurred, Ordered
<1> QED BY <1>1, <1>2

(* An object still occurs before anything else.                             *)
LEMMA ChangeIsOrdered ==
  ASSUME EventInv, NEW e \in Deliveries, PodEventChanges(e)
  PROVE  \A d \in Deliveries : Ordered(d)' /\ (~InItsRun(d)' => consumed[d] = 0)
<1>1. era' = era
  BY DEF PodEventChanges, unchangedByOthers
<1>2. era # None
  BY TimesKept, NoneAssumption
<1>3. Ordered(e)'
  <2>1. CASE e.type = "added"
    BY <1>1, <1>2, <2>1, OccurrenceOf, TimesKept DEF Ordered
  <2>2. CASE e.type # "added"
    <3>1. Occurrence(e) \in Deliveries /\ time[Occurrence(e)] # None
      BY <2>2, OccurrenceOf DEF PodEventChanges, Existing
    <3>2. time'[Occurrence(e)] = time[Occurrence(e)] /\ time[Occurrence(e)] <= era
      BY <3>1, TimesKept DEF EventInv, Occurred, Ordered
    <3> QED BY <1>1, <3>1, <3>2, TimesKept DEF Ordered
  <2> QED BY <2>1, <2>2
<1>4. ASSUME NEW d \in Deliveries, d # e PROVE Ordered(d)'
  BY <1>1, <1>4, TimesKept DEF EventInv, Occurred, Ordered
<1>5. ASSUME NEW d \in Deliveries, InItsRun(d) PROVE InItsRun(d)'
  BY <1>5, TimesKept DEF InItsRun
<1> QED BY <1>3, <1>4, <1>5 DEF EventInv, Occurred

(* A pod event changes, which is delivered if a watch is open.              *)
LEMMA PodEventKeeps ==
  ASSUME EventInv, NEW e \in Deliveries, PodEventChanges(e)
  PROVE  EventInv'
<1>1. UNCHANGED <<main, cache, consumed, era>> /\ eventStream' = Notify(eventStream, e)
      /\ time' = [time EXCEPT ![e] = era]
  BY DEF PodEventChanges, unchangedByOthers
<1>2. Collected' = Collected /\ Running' = Running /\ Opened' = Opened
  BY <1>1 DEF Collected, Running, Opened
<1>3. EventTypes'
  BY <1>1, <1>2 DEF EventInv, EventTypes, Notify
<1>4. consumed[e] = 0 /\ e \notin Collected
  BY TimesKept DEF EventInv, Occurred, CollectedOnce, InItsRun
<1>5. \A d \in Deliveries : time[d] # None => Fresh(d)' = Fresh(d) /\ time'[d] # None
  BY <1>1, TimesKept DEF Fresh
<1>6. time'[e] # None
  BY TimesKept, NoneAssumption
<1>7. \A d \in Deliveries : Ordered(d)' /\ (~InItsRun(d)' => consumed'[d] = 0)
  BY <1>1, ChangeIsOrdered
<1>8. CollectedOnce'
  BY <1>1, <1>2, <1>5 DEF EventInv, EventTypes, CollectedOnce
<1>9. CASE ~Opened
  BY <1>2, <1>3, <1>7, <1>8, <1>9 DEF EventInv, Occurred, DeliveredOnce, Opened
<1>10. CASE Opened
  <2>1. eventStream \in Seq(Deliveries)
    BY <1>10 DEF EventInv, EventTypes
  <2>2. \A i \in 1 .. Len(eventStream) :
          eventStream[i] \in Deliveries /\ time[eventStream[i]] # None /\ eventStream[i] # e
    BY <1>10, <2>1, TimesKept DEF EventInv, Occurred
  <2>3. \A i \in 1 .. Len(eventStream) : time'[eventStream[i]] # None
    BY <1>5, <2>2
  <2>4. CASE eventStream' = eventStream
    <3>1. Occurred'
      BY <1>2, <1>7, <2>3, <2>4 DEF Occurred
    <3>2. DeliveredOnce'
      BY <1>1, <1>2, <1>5, <2>2, <2>4 DEF EventInv, DeliveredOnce, Fresh
    <3> QED BY <1>3, <1>8, <3>1, <3>2 DEF EventInv
  <2>5. CASE eventStream' = Append(eventStream, e)
    <3>1. /\ Len(eventStream') = Len(eventStream) + 1 /\ Len(eventStream) \in Nat
          /\ eventStream'[Len(eventStream) + 1] = e
          /\ \A i \in 1 .. Len(eventStream) : eventStream'[i] = eventStream[i]
      BY <2>1, <2>5
    <3>2. \A i \in 1 .. Len(eventStream') :
            i \in 1 .. Len(eventStream) \/ (i = Len(eventStream) + 1 /\ eventStream'[i] = e)
      BY <3>1
    <3>3. Occurred'
      BY <1>2, <1>6, <1>7, <2>3, <3>1, <3>2 DEF Occurred
    <3>4. DeliveredOnce'
      BY <1>1, <1>2, <1>4, <1>5, <2>2, <3>1, <3>2 DEF EventInv, DeliveredOnce, Fresh
    <3> QED BY <1>3, <1>8, <3>3, <3>4 DEF EventInv
  <2> QED BY <1>1, <2>4, <2>5 DEF Notify
<1> QED BY <1>9, <1>10

(* The other receives and users.                                            *)
LEMMA OthersKeep ==
  ASSUME EventInv,
         UNCHANGED <<main, time, era, eventStream, consumed, cache>>
  PROVE  EventInv'
BY EventKept DEF Collected, Running, Opened, EventInv, CollectedOnce

(* The invariant is inductive.                                              *)
LEMMA EventInductive == EventInv /\ [Next]_vars => EventInv'
<1> SUFFICES ASSUME EventInv, [Next]_vars PROVE EventInv'
  OBVIOUS
<1>1. CASE ReceiveScaler \/ ReceiveQuota \/ CheckQuotasPeriodically
  <2>1. Running /\ UNCHANGED <<time, era, eventStream, consumed>>
    BY <1>1 DEF ReceiveScaler, ReceiveQuota, CheckQuotasPeriodically, Running, api, stream
  <2>2. Running'
    <3>1. CASE main' = main
      BY <2>1, <3>1 DEF Running
    <3>2. ASSUME NEW s, NEW then, NEW event, main' = Resolve(s, then, event) PROVE Running'
      <4>1. main'.pc \in {"get", "create"}
        BY <3>2 DEF Resolve
      <4> QED BY <4>1 DEF Running
    <3> QED BY <1>1, <3>1, <3>2 DEF ReceiveScaler, ReceiveQuota, CheckQuotasPeriodically
  <2>3. Collected' \subseteq Collected
    <3>1. CASE cache' = cache
      BY <3>1 DEF Collected
    <3>2. CASE cache' # cache
      <4>1. \/ cache' = Cached(None, cache.quota, cache.events)
            \/ cache' = Registered(cache, Head(quotaStream))
        BY <1>1, <3>2 DEF ReceiveScaler, ReceiveQuota, CheckQuotasPeriodically
      <4> QED BY <4>1, CollectedAfter DEF Registered, Cached, Collected
    <3> QED BY <3>1, <3>2
  <2> QED BY <2>1, <2>2, <2>3, EventKept DEF Opened
<1>2. CASE StreamsClose
  <2>1. ~Opened'
    <3>1. main'.pc = "list"
      BY <1>2 DEF StreamsClose, At
    <3> QED BY <3>1 DEF Opened, Running
  <2>2. UNCHANGED <<time, era, consumed>> /\ eventStream' = None /\ Collected' = {}
    BY <1>2, CollectedAfter DEF StreamsClose, Closed, EmptyCache, api
  <2> QED BY <2>1, <2>2
         DEF EventInv, EventTypes, Occurred, Ordered, InItsRun, CollectedOnce, DeliveredOnce, Opened
<1>3. ASSUME NEW ref \in UserRefs, UserWritesScaler(ref) PROVE EventInv'
  BY <1>3, OthersKeep DEF UserWritesScaler, WriteScaler, unchangedByOthers
<1>4. CASE UserDeletesScaler
  BY <1>4, OthersKeep DEF UserDeletesScaler, WriteScaler, unchangedByOthers
<1>5. ASSUME NEW name \in QuotaNames,
             UserCreatesQuota(name) \/ UserDeletesQuota(name) \/ QuotaChanges(name)
               \/ GarbageCollected(name)
      PROVE  EventInv'
  BY <1>5, OthersKeep DEF UserCreatesQuota, UserDeletesQuota, QuotaChanges, GarbageCollected,
                          WriteQuota, unchangedByOthers
<1>6. CASE UNCHANGED vars
  BY <1>6, OthersKeep DEF vars
<1> QED BY <1>1, <1>2, <1>3, <1>4, <1>5, <1>6, OpeningKeeps, ResolvingKeeps, ReceiveEventKeeps,
           TickerKeeps, PodEventKeeps DEF Next

(* Nothing has occurred and nothing is open at the start.                   *)
LEMMA EventInit == Init => EventInv
<1> SUFFICES ASSUME Init PROVE EventInv
  OBVIOUS
<1>1. ~Opened /\ ~Running
  <2>1. main.pc = "list"
    BY DEF Init, At
  <2> QED BY <2>1 DEF Opened, Running
<1>2. Collected = {}
  BY DEF Init, EmptyCache, Cached, Collected
<1> QED BY <1>1, <1>2 DEF Init, EventInv, EventTypes, Occurred, Ordered, CollectedOnce, DeliveredOnce

(* No delivery is given to two evaluations, although every reopened watch   *)
(* delivers the events of the past again, in any order; and nothing that    *)
(* happens to an Event object after the Run of its occurrence is evaluated. *)
THEOREM ConsumedOnceCorrect == Safety => []ConsumedOnce
<1>1. EventInv => ConsumedOnce
  BY DEF EventInv, EventTypes, Occurred, ConsumedOnce
<1> QED BY <1>1, EventInit, EventInductive, PTL DEF Safety

-----------------------------------------------------------------------------
(* Types.  What the loop stores comes out of a stream or of a resolution,   *)
(* and the streams are open while it selects.                               *)

MaybeScaler == ScalerObjects \cup {None}
MaybeQuota == QuotaObjects \cup {None}
ScalerStreams == Seq(Events(ScalerObjects))
QuotaStreams == Seq(Events(QuotaObjects))
EventStreams == Seq(Deliveries)

Resolutions == {"get", "create", "existing", "persist"}
MainPCs == {"list", "watchScalers", "watchQuotas", "watchEvents", "run", "select"} \cup Resolutions
Callers == {"none", "startup", "scalerEvent", "quotaEvent", "periodic"}
Mains ==
  [pc : MainPCs, scaler : MaybeScaler, quota : MaybeQuota, then : Callers,
   event : Events(QuotaObjects) \cup {None}]

(* A resolution has a scaler, whose target it reads if it names one, and    *)
(* the quota event that it was begun for.                                   *)
IsMain(m) ==
  /\ m \in Mains
  /\ m.pc \in Resolutions =>
       /\ m.scaler \in ScalerObjects
       /\ m.then = "quotaEvent" => m.event \in Events(QuotaObjects)
  /\ m.pc = "get" => m.scaler.ref \in QuotaNames

IsCache(c) == c \in [scaler : MaybeScaler, quota : MaybeQuota, events : (SUBSET Deliveries) \cup {None}]

ObjectTypes == scaler \in MaybeScaler /\ quota \in [QuotaNames -> MaybeQuota] /\ rev \in Nat
ClockTypes == era \in Nat /\ time \in [Deliveries -> 0 .. era \cup {None}]
StreamTypes ==
  /\ scalerStream \in ScalerStreams \cup {None}
  /\ quotaStream \in QuotaStreams \cup {None}
  /\ eventStream \in EventStreams \cup {None}
StreamsOpen ==
  /\ main.pc \notin {"list", "watchScalers"} => scalerStream # None
  /\ main.pc \notin {"list", "watchScalers", "watchQuotas"} => quotaStream # None
  /\ main.pc \notin {"list", "watchScalers", "watchQuotas", "watchEvents"} => eventStream # None
BoundTypes ==
  failures \in Nat /\ disturbances \in Nat /\ failures <= disturbances /\ disturbances <= MaxDisturbances

WatchInv ==
  /\ ObjectTypes /\ ClockTypes /\ StreamTypes /\ StreamsOpen /\ BoundTypes
  /\ IsMain(main) /\ IsCache(cache)

(* A stream that is open stays open when an event is added to it.           *)
LEMMA NotifyTypes ==
  ASSUME NEW E, None \notin Seq(E), NEW queue \in Seq(E) \cup {None}, NEW event \in E
  PROVE  /\ Notify(queue, event) \in Seq(E) \cup {None}
         /\ queue # None => Notify(queue, event) # None
<1>1. CASE queue = None
  BY <1>1 DEF Notify
<1>2. CASE queue # None
  <2>1. Append(queue, event) \in Seq(E)
    BY <1>2
  <2> QED BY <1>2, <2>1 DEF Notify
<1> QED BY <1>1, <1>2

(* The names of quotas are known, and the default one is among them.        *)
LEMMA NamesAreKnown ==
  /\ IsFiniteSet(QuotaNames) /\ DefaultResourceQuotaName \in QuotaNames
  /\ UserRefs \subseteq QuotaNames \cup {""}
<1>1. IsFiniteSet(OtherNames) /\ UserRefs \subseteq OtherNames \cup {"", "resource-quota"}
  BY WatcherAssumption
<1>2. IsFiniteSet(QuotaNames)
  BY <1>1, FS_AddElement DEF QuotaNames
<1> QED BY <1>1, <1>2 DEF QuotaNames, DefaultResourceQuotaName

(* Writes of objects and the events that they cause.                        *)
LEMMA WriteScalerTypes ==
  ASSUME ObjectTypes, StreamTypes, NEW new \in MaybeScaler, new = None => scaler \in ScalerObjects,
         WriteScaler(new)
  PROVE  /\ ObjectTypes' /\ StreamTypes'
         /\ scalerStream # None => scalerStream' # None
         /\ UNCHANGED <<quotaStream, eventStream>>
<1> DEFINE event == IF new = None THEN Deleted(scaler) ELSE Put(new)
<1>1. event \in Events(ScalerObjects)
  BY DEF MaybeScaler, Events, Deleted, Put
<1>2. scalerStream' = Notify(scalerStream, event) /\ UNCHANGED <<quota, quotaStream, eventStream>>
      /\ scaler' = new /\ rev' = rev + 1
  BY DEF WriteScaler
<1> HIDE DEF event
<1>3. /\ scalerStream' \in ScalerStreams \cup {None}
      /\ scalerStream # None => scalerStream' # None
  BY <1>1, <1>2, NotifyTypes, NoneAssumption DEF StreamTypes, ScalerStreams
<1> QED BY <1>2, <1>3 DEF ObjectTypes, StreamTypes

(* The same of a quota.                                                     *)
LEMMA WriteQuotaTypes ==
  ASSUME ObjectTypes, StreamTypes, NEW name \in QuotaNames, NEW new \in MaybeQuota,
         new = None => quota[name] \in QuotaObjects, WriteQuota(name, new)
  PROVE  /\ ObjectTypes' /\ StreamTypes'
         /\ quotaStream # None => quotaStream' # None
         /\ UNCHANGED <<scalerStream, eventStream>>
<1> DEFINE event == IF new = None THEN Deleted(quota[name]) ELSE Put(new)
<1>1. event \in Events(QuotaObjects)
  BY DEF MaybeQuota, Events, Deleted, Put
<1>2. quotaStream' = Notify(quotaStream, event) /\ UNCHANGED <<scaler, scalerStream, eventStream>>
      /\ quota' = [quota EXCEPT ![name] = new] /\ rev' = rev + 1
  BY DEF WriteQuota
<1> HIDE DEF event
<1>3. /\ quotaStream' \in QuotaStreams \cup {None}
      /\ quotaStream # None => quotaStream' # None
  BY <1>1, <1>2, NotifyTypes, NoneAssumption DEF StreamTypes, QuotaStreams
<1> QED BY <1>2, <1>3 DEF ObjectTypes, StreamTypes

(* Where the goroutine goes.                                                *)
LEMMA MainMoves ==
  /\ \A pc \in MainPCs \ Resolutions : IsMain(At(pc))
  /\ \A s \in ScalerObjects, then \in Callers, event \in Events(QuotaObjects) \cup {None} :
       (then = "quotaEvent" => event \in Events(QuotaObjects)) => IsMain(Resolve(s, then, event))
<1>1. ASSUME NEW pc \in MainPCs \ Resolutions PROVE IsMain(At(pc))
  <2>1. At(pc) \in Mains /\ At(pc).pc = pc
    BY DEF At, Mains, Callers, MaybeScaler, MaybeQuota
  <2>2. pc # "get"
    BY DEF Resolutions
  <2> QED BY <2>1, <2>2 DEF IsMain
<1>2. ASSUME NEW s \in ScalerObjects, NEW then \in Callers,
             NEW event \in Events(QuotaObjects) \cup {None},
             then = "quotaEvent" => event \in Events(QuotaObjects)
      PROVE  IsMain(Resolve(s, then, event))
  <2> DEFINE m == Resolve(s, then, event)
  <2>1. m.pc = (IF s.ref # "" THEN "get" ELSE "create") /\ m.scaler = s /\ m.then = then /\ m.event = event
    BY DEF Resolve
  <2>2. m \in Mains
    BY DEF Resolve, Mains, MainPCs, Resolutions, MaybeScaler, MaybeQuota
  <2>3. s.ref # "" => s.ref \in QuotaNames
    BY DEF ScalerObjects
  <2> HIDE DEF m
  <2> QED BY <1>2, <2>1, <2>2, <2>3 DEF IsMain, m
<1> QED BY <1>1, <1>2

(* A step within the opening of the streams or within a resolution.         *)
LEMMA MainGoesOn ==
  ASSUME IsMain(main), NEW pc \in MainPCs \ {"get"}, NEW q \in MaybeQuota,
         pc \in Resolutions => main.pc \in Resolutions
  PROVE  IsMain(Goto(pc, q))
<1>1. Goto(pc, q) \in Mains
  BY DEF IsMain, Goto, Mains
<1>2. Goto(pc, q).pc = pc /\ Goto(pc, q).scaler = main.scaler
      /\ Goto(pc, q).then = main.then /\ Goto(pc, q).event = main.event
  BY DEF Goto
<1> QED BY <1>1, <1>2 DEF IsMain

(* What is stored in the maps.                                              *)
LEMMA CachedTypes ==
  ASSUME NEW s \in MaybeScaler, NEW q \in MaybeQuota, NEW events \in (SUBSET Deliveries) \cup {None}
  PROVE  IsCache(Cached(s, q, events))
BY DEF IsCache, Cached

(* The maps after a quota event.                                            *)
LEMMA RegisteredTypes ==
  ASSUME IsCache(cache), NEW c, IsCache(c), NEW event \in Events(QuotaObjects)
  PROVE  IsCache(Registered(c, event))
<1>1. c.scaler \in MaybeScaler /\ c.quota \in MaybeQuota /\ c.events \in (SUBSET Deliveries) \cup {None}
  BY DEF IsCache
<1>2. Collected \in (SUBSET Deliveries) \cup {None}
  BY DEF IsCache, Collected
<1>3. event.object \in MaybeQuota /\ None \in MaybeQuota
  BY DEF Events, MaybeQuota
<1>4. IsCache(Cached(c.scaler, None, c.events)) /\ IsCache(Cached(c.scaler, event.object, Collected))
  BY <1>1, <1>2, <1>3, CachedTypes
<1> QED BY <1>4 DEF Registered

(* The end of a resolution.                                                 *)
LEMMA ReturnTypes ==
  ASSUME IsMain(main), IsCache(cache), main.pc \in Resolutions,
         NEW s \in ScalerObjects, NEW q \in MaybeQuota, Return(s, q)
  PROVE  IsMain(main') /\ IsCache(cache')
<1>1. IsMain(main')
  <2>1. "select" \in MainPCs \ Resolutions
    BY DEF MainPCs, Resolutions
  <2> QED BY <2>1, MainMoves DEF Return, Select
<1>2. IsCache(WithScaler(s, q))
  <2>1. cache.quota \in MaybeQuota /\ cache.events \in (SUBSET Deliveries) \cup {None}
    BY DEF IsCache
  <2>2. s \in MaybeScaler /\ (IF q = None THEN cache.quota ELSE q) \in MaybeQuota
    BY <2>1 DEF MaybeScaler
  <2> QED BY <2>1, <2>2, CachedTypes DEF WithScaler
<1>3. IsCache(IfResolved(s, q))
  BY <1>2 DEF IfResolved
<1>4. CASE main.then = "quotaEvent" /\ AfterQuotaEvent(s, q)
  <2>1. main.event \in Events(QuotaObjects)
    BY <1>4 DEF IsMain
  <2>2. IsCache(Registered(IfResolved(s, q), main.event))
    BY <1>3, <2>1, RegisteredTypes
  <2> QED BY <1>1, <1>4, <2>2 DEF AfterQuotaEvent
<1>5. CASE AfterStartup(s, q) \/ AfterScalerEvent(s, q) \/ AfterPeriodic(s, q)
  BY <1>1, <1>2, <1>3, <1>5 DEF AfterStartup, AfterScalerEvent, AfterPeriodic
<1> QED BY <1>4, <1>5 DEF Return

(* A stream that is open stays open where the goroutine relies on it.       *)
LEMMA StreamsStayOpen ==
  ASSUME StreamsOpen,
         scalerStream # None => scalerStream' # None,
         quotaStream # None => quotaStream' # None,
         eventStream # None => eventStream' # None,
         main' = main \/ main.pc \in Resolutions \cup {"run", "select"}
  PROVE  StreamsOpen'
BY DEF StreamsOpen, Resolutions

(* The bounds.                                                              *)
LEMMA BoundsKept ==
  ASSUME BoundTypes, Succeed \/ Fail \/ (Disturb /\ failures' = failures)
  PROVE  BoundTypes'
<1>1. CASE Succeed
  BY <1>1 DEF BoundTypes, Succeed, bounds
<1>2. CASE Fail \/ (Disturb /\ failures' = failures)
  <2>1. MaxDisturbances \in Nat
    BY WatcherAssumption
  <2>2. disturbances < MaxDisturbances /\ disturbances' = disturbances + 1
        /\ failures' \in {failures, failures + 1}
    BY <1>2 DEF Fail, Disturb
  <2> QED BY <2>1, <2>2 DEF BoundTypes
<1> QED BY <1>1, <1>2

(* The streams are opened and Run begins.                                   *)
LEMMA OpeningTypes ==
  ASSUME WatchInv, Opening
  PROVE  WatchInv'
<1> USE DEF WatchInv
<1>1. UNCHANGED <<scaler, quota, time, rev, cache, failures, disturbances>>
  BY DEF Opening, ListScalers, WatchScalers, WatchQuotas, WatchEvents, Run, api, bounds
<1>2. ObjectTypes' /\ BoundTypes' /\ IsCache(cache')
  BY <1>1 DEF ObjectTypes, BoundTypes
<1>3. CASE ListScalers
  <2>1. UNCHANGED <<era, scalerStream, quotaStream, eventStream>>
        /\ main' = [At("watchScalers") EXCEPT !.scaler = scaler]
    BY <1>3 DEF ListScalers, stream
  <2>2. main' = [pc |-> "watchScalers", scaler |-> scaler, quota |-> None, then |-> "none", event |-> None]
    BY <2>1 DEF At
  <2>3. main'.pc = "watchScalers" /\ main' \in Mains
    BY <2>2 DEF ObjectTypes, Mains, MainPCs, Callers, MaybeScaler, MaybeQuota
  <2>4. IsMain(main')
    BY <2>3 DEF IsMain, Resolutions
  <2> QED BY <1>1, <1>2, <2>1, <2>3, <2>4 DEF ClockTypes, StreamTypes, StreamsOpen
<1>4. ASSUME WatchScalers \/ WatchQuotas \/ WatchEvents
      PROVE  IsMain(main') /\ ClockTypes'
  <2>1. PICK pc \in {"watchQuotas", "watchEvents", "run"} : main' = Goto(pc, None)
    BY <1>4 DEF WatchScalers, WatchQuotas, WatchEvents
  <2>2. pc \in MainPCs \ {"get"} /\ pc \notin Resolutions /\ None \in MaybeQuota
    BY DEF MainPCs, Resolutions, MaybeQuota
  <2>3. era' = era
    BY <1>4 DEF WatchScalers, WatchQuotas, WatchEvents
  <2> QED BY <1>1, <2>1, <2>2, <2>3, MainGoesOn DEF ClockTypes
<1>5. CASE WatchScalers
  <2>1. scalerStream' = (IF scaler = None THEN <<>> ELSE <<Put(scaler)>>)
        /\ UNCHANGED <<quotaStream, eventStream>> /\ main'.pc = "watchQuotas"
    BY <1>5 DEF WatchScalers, Goto
  <2>2. scaler # None => Put(scaler) \in Events(ScalerObjects)
    BY DEF ObjectTypes, MaybeScaler, Events, Put
  <2>3. scalerStream' \in ScalerStreams
    BY <2>1, <2>2 DEF ScalerStreams
  <2>4. StreamTypes'
    BY <2>1, <2>3 DEF StreamTypes
  <2>5. scalerStream' # None
    BY <2>3, NoneAssumption DEF ScalerStreams
  <2> QED BY <1>2, <1>4, <1>5, <2>1, <2>4, <2>5 DEF StreamsOpen
<1>6. CASE WatchQuotas
  <2> DEFINE existing == {name \in QuotaNames : quota[name] # None}
  <2>1. quotaStream' = [i \in DOMAIN SetToSeq(existing) |-> Put(quota[SetToSeq(existing)[i]])]
        /\ UNCHANGED <<scalerStream, eventStream>> /\ main'.pc = "watchEvents"
    BY <1>6 DEF WatchQuotas, Goto
  <2>2. IsFiniteSet(existing)
    BY NamesAreKnown, FS_Subset
  <2>3. \A name \in existing : Put(quota[name]) \in Events(QuotaObjects)
    BY DEF ObjectTypes, MaybeQuota, Events, Put
  <2> HIDE DEF existing
  <2>4. SetToSeq(existing) \in Seq(existing)
    BY <2>2, ListedSet
  <2>5. quotaStream' \in Seq(Events(QuotaObjects))
    BY <2>1, <2>3, <2>4
  <2>6. StreamTypes'
    BY <2>1, <2>5 DEF StreamTypes, QuotaStreams
  <2>7. quotaStream' # None /\ scalerStream # None
    BY <1>6, <2>5, NoneAssumption DEF StreamsOpen, WatchQuotas
  <2> QED BY <1>2, <1>4, <1>6, <2>1, <2>6, <2>7 DEF StreamsOpen
<1>7. CASE WatchEvents
  <2>1. eventStream' = SetToSeq(Existing) /\ UNCHANGED <<scalerStream, quotaStream>> /\ main'.pc = "run"
    BY <1>7 DEF WatchEvents, Goto
  <2>4. eventStream' \in Seq(Deliveries)
    BY <2>1, ExistingListed
  <2>5. StreamTypes'
    BY <2>1, <2>4 DEF StreamTypes, EventStreams
  <2>6. eventStream' # None /\ scalerStream # None /\ quotaStream # None
    BY <1>7, <2>4, NoneAssumption DEF StreamsOpen, WatchEvents
  <2> QED BY <1>2, <1>4, <1>7, <2>1, <2>5, <2>6 DEF StreamsOpen
<1>8. CASE Run
  <2>1. era' = era + 1 /\ UNCHANGED <<scalerStream, quotaStream, eventStream>> /\ main.pc = "run"
    BY <1>8 DEF Run, stream
  <2>2. ClockTypes'
    BY <1>1, <2>1 DEF ClockTypes
  <2>3. StreamTypes' /\ StreamsOpen'
    BY <2>1, StreamsStayOpen DEF StreamTypes
  <2>4. "select" \in MainPCs \ Resolutions /\ "startup" \in Callers /\ "startup" # "quotaEvent"
    BY DEF MainPCs, Resolutions, Callers
  <2>5. main.scaler # None => main.scaler \in ScalerObjects
    BY DEF IsMain, Mains, MaybeScaler
  <2>6. IsMain(main')
    BY <1>8, <2>4, <2>5, MainMoves DEF Run, Select
  <2> QED BY <1>2, <2>2, <2>3, <2>6
<1> QED BY <1>3, <1>5, <1>6, <1>7, <1>8 DEF Opening

(* One step of a resolution.                                                *)
LEMMA ResolvingTypes ==
  ASSUME WatchInv, Resolving
  PROVE  WatchInv'
<1> USE DEF WatchInv
<1>1. main.pc \in Resolutions /\ UNCHANGED <<time, era>>
  BY DEF Resolving, GetTarget, CreateManaged, GetExisting, Persist, Resolutions, api
<1>2. ClockTypes' /\ main.scaler \in ScalerObjects /\ main.quota \in MaybeQuota /\ None \in MaybeQuota
  BY <1>1 DEF ClockTypes, IsMain, Mains, MaybeQuota
<1>3. \A name \in QuotaNames : quota[name] \in MaybeQuota
  BY DEF ObjectTypes
<1>4. ASSUME NEW q \in MaybeQuota, Return(main.scaler, q) PROVE IsMain(main') /\ IsCache(cache')
  BY <1>1, <1>2, <1>4, ReturnTypes
<1>5. ASSUME NEW pc \in {"existing", "persist"}, NEW q \in MaybeQuota, main' = Goto(pc, q), cache' = cache
      PROVE  IsMain(main') /\ IsCache(cache')
  <2>1. pc \in MainPCs \ {"get"}
    BY DEF MainPCs, Resolutions
  <2> QED BY <1>1, <1>5, <2>1, MainGoesOn
<1>6. ASSUME UNCHANGED <<scaler, quota, rev, scalerStream, quotaStream, eventStream>>
      PROVE  ObjectTypes' /\ StreamTypes' /\ StreamsOpen'
  BY <1>1, <1>6, StreamsStayOpen DEF ObjectTypes, StreamTypes
<1>7. DefaultResourceQuotaName \in QuotaNames
  BY NamesAreKnown
<1>8. CASE GetTarget
  <2>1. quota[main.scaler.ref] \in MaybeQuota
    BY <1>3, <1>8 DEF GetTarget, IsMain
  <2>2. IsMain(main') /\ IsCache(cache')
    BY <1>2, <1>4, <1>8, <2>1 DEF GetTarget
  <2>3. ObjectTypes' /\ StreamTypes' /\ StreamsOpen'
    BY <1>6, <1>8 DEF GetTarget, api, stream
  <2>4. BoundTypes'
    BY <1>8, BoundsKept DEF GetTarget
  <2> QED BY <1>2, <2>2, <2>3, <2>4
<1>9. CASE CreateManaged
  <2> DEFINE new == [name |-> DefaultResourceQuotaName, owner |-> main.scaler.uid, rev |-> rev + 1]
  <2>1. main.scaler.uid \in Nat /\ rev + 1 \in Nat
    <3>1. rev + 1 \in Nat
      BY DEF ObjectTypes
    <3> QED BY <1>2, <3>1 DEF ScalerObjects
  <2>2. new \in QuotaObjects /\ new \in MaybeQuota
    BY <1>7, <2>1 DEF QuotaObjects, MaybeQuota
  <2>3. BoundTypes'
    BY <1>9, BoundsKept DEF CreateManaged
  <2>4. CASE /\ quota[DefaultResourceQuotaName] = None
             /\ WriteQuota(DefaultResourceQuotaName, new)
             /\ main' = Goto("persist", new) /\ cache' = cache
    <3> HIDE DEF new
    <3>1. ObjectTypes' /\ StreamTypes' /\ (quotaStream # None => quotaStream' # None)
          /\ UNCHANGED <<scalerStream, eventStream>>
      BY <1>7, <2>2, <2>4, WriteQuotaTypes
    <3>2. StreamsOpen'
      BY <1>1, <3>1, StreamsStayOpen
    <3>3. IsMain(main') /\ IsCache(cache')
      BY <1>5, <2>2, <2>4
    <3> QED BY <1>2, <2>3, <3>1, <3>2, <3>3
  <2>5. CASE main' = Goto("existing", None) /\ UNCHANGED <<scaler, quota, rev, stream, cache>>
    BY <1>2, <1>5, <1>6, <2>3, <2>5 DEF stream
  <2>6. CASE Return(main.scaler, None) /\ UNCHANGED <<scaler, quota, rev, stream>>
    BY <1>2, <1>4, <1>6, <2>3, <2>6 DEF stream
  <2> QED BY <1>9, <2>4, <2>5, <2>6 DEF CreateManaged
<1>10. CASE GetExisting
  <2>1. ObjectTypes' /\ StreamTypes' /\ StreamsOpen'
    BY <1>6, <1>10 DEF GetExisting, api, stream
  <2>2. BoundTypes'
    BY <1>10, BoundsKept DEF GetExisting
  <2>3. quota[DefaultResourceQuotaName] \in MaybeQuota
    BY <1>3, <1>7
  <2>4. IsMain(main') /\ IsCache(cache')
    BY <1>2, <1>4, <1>5, <1>10, <2>3 DEF GetExisting
  <2> QED BY <1>2, <2>1, <2>2, <2>4
<1>11. CASE Persist
  <2> DEFINE named == [main.scaler EXCEPT !.ref = DefaultResourceQuotaName, !.rev = rev + 1]
             old == [named EXCEPT !.rev = main.scaler.rev]
  <2>1. named \in ScalerObjects /\ old \in ScalerObjects
    <3>1. rev + 1 \in Nat
      BY DEF ObjectTypes
    <3> QED BY <1>2, <1>7, <3>1 DEF ScalerObjects
  <2>2. PersistName(named)
    BY <1>11 DEF Persist
  <2>3. CASE scaler = main.scaler /\ WriteScaler(named) /\ Return(named, main.quota) /\ Succeed
    <3> HIDE DEF named
    <3>1. named \in MaybeScaler /\ scaler \in ScalerObjects
      BY <1>2, <2>1, <2>3 DEF MaybeScaler
    <3>2. ObjectTypes' /\ StreamTypes' /\ (scalerStream # None => scalerStream' # None)
          /\ UNCHANGED <<quotaStream, eventStream>>
      BY <2>3, <3>1, WriteScalerTypes
    <3>3. StreamsOpen'
      BY <1>1, <3>2, StreamsStayOpen
    <3>4. IsMain(main') /\ IsCache(cache')
      BY <1>1, <1>2, <2>1, <2>3, ReturnTypes
    <3>5. BoundTypes'
      BY <2>3, BoundsKept
    <3> QED BY <1>2, <3>2, <3>3, <3>4, <3>5
  <2>4. CASE /\ Return(old, main.quota)
             /\ Succeed \/ Fail
             /\ UNCHANGED <<scaler, quota, rev, stream>>
    <3> HIDE DEF named, old
    <3>1. IsMain(main') /\ IsCache(cache')
      BY <1>1, <1>2, <2>1, <2>4, ReturnTypes
    <3>2. BoundTypes'
      BY <2>4, BoundsKept
    <3> QED BY <1>2, <1>6, <2>4, <3>1, <3>2 DEF stream
  <2> QED BY <2>2, <2>3, <2>4 DEF PersistName
<1> QED BY <1>8, <1>9, <1>10, <1>11 DEF Resolving

(* What is left of a stream when one event is received.                     *)
LEMMA ReceivedTypes ==
  ASSUME NEW E, None \notin Seq(E), NEW queue \in Seq(E), queue # <<>>
  PROVE  Head(queue) \in E /\ Tail(queue) \in Seq(E) /\ Tail(queue) # None
OBVIOUS

(* The receives and the tickers of the select.                              *)
LEMMA SelectTypes ==
  ASSUME WatchInv,
         ReceiveScaler \/ ReceiveQuota \/ ReceiveEvent \/ Ticker \/ CheckQuotasPeriodically
  PROVE  WatchInv'
<1> USE DEF WatchInv
<1>1. main.pc = "select" /\ UNCHANGED <<scaler, quota, rev, time, era, failures, disturbances>>
  BY DEF ReceiveScaler, ReceiveQuota, ReceiveEvent, Ticker, CheckQuotasPeriodically, api, bounds
<1>2. ObjectTypes' /\ ClockTypes' /\ BoundTypes'
  BY <1>1 DEF ObjectTypes, ClockTypes, BoundTypes
<1>3. /\ scalerStream \in Seq(Events(ScalerObjects)) /\ quotaStream \in Seq(Events(QuotaObjects))
      /\ eventStream \in Seq(Deliveries)
  BY <1>1 DEF StreamTypes, StreamsOpen, ScalerStreams, QuotaStreams, EventStreams
<1>4. /\ cache.scaler \in MaybeScaler /\ cache.quota \in MaybeQuota
      /\ cache.events \in (SUBSET Deliveries) \cup {None} /\ Collected \in SUBSET Deliveries
  BY DEF IsCache, Collected
<1>5. {"scalerEvent", "quotaEvent", "periodic"} \subseteq Callers /\ None \in MaybeScaler
  BY DEF Callers, MaybeScaler
<1>6. CASE ReceiveScaler
  <2> DEFINE event == Head(scalerStream)
  <2>1. event \in Events(ScalerObjects) /\ Tail(scalerStream) \in Seq(Events(ScalerObjects))
        /\ Tail(scalerStream) # None
    BY <1>3, <1>6, NoneAssumption, ReceivedTypes DEF ReceiveScaler
  <2>2. scalerStream' = Tail(scalerStream) /\ UNCHANGED <<quotaStream, eventStream>>
    BY <1>6 DEF ReceiveScaler
  <2>3. StreamTypes'
    BY <2>1, <2>2 DEF StreamTypes, ScalerStreams
  <2>4. main' = main \/ main.pc \in Resolutions \cup {"run", "select"}
    BY <1>1
  <2>5. StreamsOpen'
    BY <2>1, <2>2, <2>4, StreamsStayOpen
  <2>6. event.object \in ScalerObjects
    BY <2>1 DEF Events
  <2>7. \/ cache' = Cached(None, cache.quota, cache.events) /\ main' = main
        \/ cache' = cache /\ main' = Resolve(event.object, "scalerEvent", None)
    BY <1>6 DEF ReceiveScaler
  <2> HIDE DEF event
  <2>8. IsMain(main') /\ IsCache(cache')
    BY <1>4, <1>5, <2>6, <2>7, CachedTypes, MainMoves
  <2> QED BY <1>2, <2>3, <2>5, <2>8
<1>7. CASE ReceiveQuota
  <2> DEFINE event == Head(quotaStream)
  <2>1. event \in Events(QuotaObjects) /\ Tail(quotaStream) \in Seq(Events(QuotaObjects))
        /\ Tail(quotaStream) # None
    BY <1>3, <1>7, NoneAssumption, ReceivedTypes DEF ReceiveQuota
  <2>2. quotaStream' = Tail(quotaStream) /\ UNCHANGED <<scalerStream, eventStream>>
    BY <1>7 DEF ReceiveQuota
  <2>3. StreamTypes'
    BY <2>1, <2>2 DEF StreamTypes, QuotaStreams
  <2>4. main' = main \/ main.pc \in Resolutions \cup {"run", "select"}
    BY <1>1
  <2>5. StreamsOpen'
    BY <2>1, <2>2, <2>4, StreamsStayOpen
  <2>6. \/ cache' = Registered(cache, event) /\ main' = main
        \/ /\ cache.scaler # None /\ cache' = cache
           /\ main' = Resolve(cache.scaler, "quotaEvent", event)
    BY <1>7 DEF ReceiveQuota
  <2>7. cache.scaler # None => cache.scaler \in ScalerObjects
    BY <1>4 DEF MaybeScaler
  <2> HIDE DEF event
  <2>8. IsMain(main') /\ IsCache(cache')
    BY <1>5, <2>1, <2>6, <2>7, RegisteredTypes, MainMoves
  <2> QED BY <1>2, <2>3, <2>5, <2>8
<1>8. CASE ReceiveEvent
  <2> DEFINE e == Head(eventStream)
  <2>1. e \in Deliveries /\ Tail(eventStream) \in Seq(Deliveries) /\ Tail(eventStream) # None
    BY <1>3, <1>8, NoneAssumption, ReceivedTypes DEF ReceiveEvent
  <2>2. eventStream' = Tail(eventStream) /\ UNCHANGED <<scalerStream, quotaStream, main>>
    BY <1>8 DEF ReceiveEvent
  <2>3. StreamTypes'
    BY <2>1, <2>2 DEF StreamTypes, EventStreams
  <2>4. StreamsOpen'
    BY <2>1, <2>2, StreamsStayOpen
  <2>5. \/ cache' = cache
        \/ cache' = Cached(cache.scaler, cache.quota, None)
        \/ cache' = Cached(cache.scaler, cache.quota, Collected \cup {e})
    BY <1>8 DEF ReceiveEvent
  <2>6. Collected \cup {e} \in SUBSET Deliveries
    BY <1>4, <2>1
  <2> HIDE DEF e
  <2>7. IsCache(cache')
    BY <1>4, <2>5, <2>6, CachedTypes
  <2> QED BY <1>2, <2>2, <2>3, <2>4, <2>7
<1>9. CASE Ticker \/ CheckQuotasPeriodically
  <2>1. UNCHANGED <<scalerStream, quotaStream, eventStream>>
    BY <1>9 DEF Ticker, CheckQuotasPeriodically, stream
  <2>2. StreamTypes' /\ StreamsOpen'
    BY <1>1, <2>1, StreamsStayOpen DEF StreamTypes
  <2>3. \/ cache' = Cached(cache.scaler, cache.quota, None) /\ main' = main
        \/ cache.scaler # None /\ cache' = cache /\ main' = Resolve(cache.scaler, "periodic", None)
    BY <1>9 DEF Ticker, CheckQuotasPeriodically
  <2>4. cache.scaler # None => cache.scaler \in ScalerObjects
    BY <1>4 DEF MaybeScaler
  <2>5. IsMain(main') /\ IsCache(cache')
    BY <1>4, <1>5, <2>3, <2>4, CachedTypes, MainMoves
  <2> QED BY <1>2, <2>2, <2>5
<1> QED BY <1>6, <1>7, <1>8, <1>9

(* A write of someone else.                                                 *)
LEMMA OtherWriteTypes ==
  ASSUME WatchInv, UNCHANGED <<time, era, main, cache, failures>>, Disturb \/ UNCHANGED disturbances,
         \/ \E new \in MaybeScaler : (new = None => scaler \in ScalerObjects) /\ WriteScaler(new)
         \/ \E name \in QuotaNames, new \in MaybeQuota :
              (new = None => quota[name] \in QuotaObjects) /\ WriteQuota(name, new)
  PROVE  WatchInv'
<1> USE DEF WatchInv
<1>1. ClockTypes' /\ IsMain(main') /\ IsCache(cache')
  BY DEF ClockTypes
<1>2. BoundTypes'
  BY BoundsKept DEF Succeed, bounds
<1>3. /\ ObjectTypes' /\ StreamTypes'
      /\ scalerStream # None => scalerStream' # None
      /\ quotaStream # None => quotaStream' # None
      /\ eventStream' = eventStream
  BY WriteScalerTypes, WriteQuotaTypes
<1>4. StreamsOpen'
  BY <1>3, StreamsStayOpen
<1> QED BY <1>1, <1>2, <1>3, <1>4

(* The changes of users, of Kubernetes and of the pods.                     *)
LEMMA UserTypes ==
  ASSUME WatchInv, NEW ref \in UserRefs, UserWritesScaler(ref)
  PROVE  WatchInv'
<1> DEFINE new == IF scaler = None THEN [uid |-> rev + 1, ref |-> ref, rev |-> rev + 1]
                  ELSE [scaler EXCEPT !.ref = IF ref = "" THEN @ ELSE ref, !.rev = rev + 1]
<1>1. rev + 1 \in Nat /\ ref \in QuotaNames \cup {""} /\ scaler \in ScalerObjects \cup {None}
  <2>1. rev + 1 \in Nat /\ scaler \in MaybeScaler
    BY DEF WatchInv, ObjectTypes
  <2>2. ref \in QuotaNames \cup {""}
    BY NamesAreKnown
  <2> QED BY <2>1, <2>2 DEF MaybeScaler
<1>2. new \in ScalerObjects
  <2>1. CASE scaler = None
    BY <1>1, <2>1 DEF ScalerObjects
  <2>2. CASE scaler # None
    <3>1. scaler \in ScalerObjects
      BY <1>1, <2>2
    <3> QED BY <1>1, <2>2, <3>1 DEF ScalerObjects
  <2> QED BY <2>1, <2>2
<1>3. /\ UNCHANGED <<time, era, main, cache, failures>> /\ Disturb /\ WriteScaler(new)
  BY DEF UserWritesScaler, unchangedByOthers
<1>4. new = None => scaler \in ScalerObjects
  BY <1>1, <1>2
<1> HIDE DEF new
<1> QED BY <1>2, <1>3, <1>4, OtherWriteTypes DEF MaybeScaler

(* The same of a quota.                                                     *)
LEMMA QuotaTypes ==
  ASSUME WatchInv, NEW name \in QuotaNames,
         UserCreatesQuota(name) \/ UserDeletesQuota(name) \/ QuotaChanges(name) \/ GarbageCollected(name)
  PROVE  WatchInv'
<1>1. quota[name] \in QuotaObjects \cup {None} /\ rev + 1 \in Nat
  BY DEF WatchInv, ObjectTypes, MaybeQuota
<1>2. UNCHANGED <<time, era, main, cache, failures>> /\ (Disturb \/ UNCHANGED disturbances)
  BY DEF UserCreatesQuota, UserDeletesQuota, QuotaChanges, GarbageCollected, unchangedByOthers
<1>3. CASE UserCreatesQuota(name)
  <2> DEFINE new == [name |-> name, owner |-> 0, rev |-> rev + 1]
  <2>1. new \in QuotaObjects
    BY <1>1 DEF QuotaObjects
  <2>2. quota[name] = None /\ WriteQuota(name, new)
    BY <1>3 DEF UserCreatesQuota
  <2> HIDE DEF new
  <2> QED BY <1>2, <2>1, <2>2, OtherWriteTypes DEF MaybeQuota
<1>4. CASE UserDeletesQuota(name) \/ GarbageCollected(name)
  <2>1. quota[name] \in QuotaObjects /\ WriteQuota(name, None)
    BY <1>1, <1>4 DEF UserDeletesQuota, GarbageCollected
  <2> QED BY <1>2, <2>1, OtherWriteTypes DEF MaybeQuota
<1>5. CASE QuotaChanges(name)
  <2> DEFINE new == [quota[name] EXCEPT !.rev = rev + 1]
  <2>1. quota[name] \in QuotaObjects /\ WriteQuota(name, new)
    BY <1>1, <1>5 DEF QuotaChanges
  <2>2. new \in QuotaObjects
    BY <1>1, <2>1 DEF QuotaObjects
  <2> HIDE DEF new
  <2> QED BY <1>2, <2>1, <2>2, OtherWriteTypes DEF MaybeQuota
<1> QED BY <1>3, <1>4, <1>5

(* A pod event occurs.                                                      *)
LEMMA OccurringTypes ==
  ASSUME WatchInv, NEW e \in Deliveries, PodEventChanges(e)
  PROVE  WatchInv'
<1> USE DEF WatchInv
<1>1. /\ UNCHANGED <<scaler, quota, rev, scalerStream, quotaStream, era, main, cache, failures>>
      /\ Disturb /\ time' = [time EXCEPT ![e] = era] /\ eventStream' = Notify(eventStream, e)
  BY DEF PodEventChanges, unchangedByOthers
<1>2. ObjectTypes' /\ IsMain(main') /\ IsCache(cache')
  BY <1>1 DEF ObjectTypes
<1>3. BoundTypes'
  BY <1>1, BoundsKept
<1>4. ClockTypes'
  BY <1>1 DEF ClockTypes
<1>5. eventStream' \in EventStreams \cup {None} /\ (eventStream # None => eventStream' # None)
  BY <1>1, NotifyTypes, NoneAssumption DEF StreamTypes, EventStreams
<1>6. StreamTypes' /\ StreamsOpen'
  BY <1>1, <1>5, StreamsStayOpen DEF StreamTypes
<1> QED BY <1>2, <1>3, <1>4, <1>6

(* The invariant is inductive.                                              *)
LEMMA WatchInductive == WatchInv /\ [Next]_vars => WatchInv'
<1> SUFFICES ASSUME WatchInv, [Next]_vars PROVE WatchInv'
  OBVIOUS
<1>1. CASE StreamsClose
  <2>1. /\ UNCHANGED <<scaler, quota, time, rev, era, failures>> /\ Disturb
        /\ main' = At("list") /\ cache' = EmptyCache
        /\ scalerStream' = None /\ quotaStream' = None /\ eventStream' = None
    BY <1>1 DEF StreamsClose, Closed, api
  <2>2. ObjectTypes' /\ ClockTypes' /\ StreamTypes'
    BY <2>1 DEF WatchInv, ObjectTypes, ClockTypes, StreamTypes
  <2>3. BoundTypes'
    BY <2>1, BoundsKept DEF WatchInv
  <2>4. IsMain(main')
    <3>1. "list" \in MainPCs \ Resolutions
      BY DEF MainPCs, Resolutions
    <3> QED BY <2>1, <3>1, MainMoves
  <2>5. IsCache(cache')
    BY <2>1 DEF EmptyCache, Cached, IsCache, MaybeScaler, MaybeQuota
  <2>6. StreamsOpen'
    <3>1. main'.pc = "list"
      BY <2>1 DEF At
    <3> QED BY <3>1 DEF StreamsOpen
  <2> QED BY <2>2, <2>3, <2>4, <2>5, <2>6 DEF WatchInv
<1>2. CASE UserDeletesScaler
  <2>1. UNCHANGED <<time, era, main, cache, failures>> /\ Disturb /\ scaler # None /\ WriteScaler(None)
    BY <1>2 DEF UserDeletesScaler, unchangedByOthers
  <2>2. scaler \in ScalerObjects
    BY <2>1 DEF WatchInv, ObjectTypes, MaybeScaler
  <2> QED BY <2>1, <2>2, OtherWriteTypes DEF MaybeScaler
<1>3. CASE UNCHANGED vars
  BY <1>3 DEF vars, WatchInv, ObjectTypes, ClockTypes, StreamTypes, StreamsOpen, BoundTypes
<1> QED BY <1>1, <1>2, <1>3, OpeningTypes, ResolvingTypes, SelectTypes, UserTypes, QuotaTypes,
           OccurringTypes DEF Next

(* The loop starts before any watch is open.                                *)
LEMMA WatchInit == Init => WatchInv
<1> SUFFICES ASSUME Init PROVE WatchInv
  OBVIOUS
<1>1. InitialRefs \subseteq QuotaNames /\ MaxDisturbances \in Nat
  BY WatcherAssumption, NamesAreKnown
<1>2. scaler \in MaybeScaler
  <2>1. [uid : {1}, ref : InitialRefs, rev : {1}] \subseteq ScalerObjects
    <3>1. ASSUME NEW s \in [uid : {1}, ref : InitialRefs, rev : {1}] PROVE s \in ScalerObjects
      <4>1. PICK ref \in InitialRefs : s = [uid |-> 1, ref |-> ref, rev |-> 1]
        OBVIOUS
      <4>2. ref \in QuotaNames \cup {""}
        BY <1>1
      <4> QED BY <4>1, <4>2 DEF ScalerObjects
    <3> QED BY <3>1
  <2>2. scaler \in {None} \cup [uid : {1}, ref : InitialRefs, rev : {1}]
    BY DEF Init
  <2> QED BY <2>1, <2>2 DEF MaybeScaler
<1>3. ASSUME NEW name \in QuotaNames PROVE quota[name] \in MaybeQuota
  <2>1. [name |-> name, owner |-> 0, rev |-> 1] \in QuotaObjects
    BY DEF QuotaObjects
  <2> QED BY <2>1 DEF Init, MaybeQuota
<1>4. ObjectTypes
  BY <1>2, <1>3 DEF Init, ObjectTypes
<1>5. main.pc = "list" /\ IsMain(main)
  <2>1. "list" \in MainPCs \ Resolutions /\ main = At("list") /\ main.pc = "list"
    BY DEF Init, At, MainPCs, Resolutions
  <2> QED BY <2>1, MainMoves
<1>6. IsCache(cache)
  BY DEF Init, EmptyCache, Cached, IsCache, MaybeScaler, MaybeQuota
<1>7. ClockTypes /\ StreamTypes /\ StreamsOpen /\ BoundTypes
  BY <1>1, <1>5 DEF Init, ClockTypes, StreamTypes, StreamsOpen, BoundTypes
<1> QED BY <1>4, <1>5, <1>6, <1>7 DEF WatchInv

(* What the loop holds of the API server are scalers and quotas that        *)
(* existed, events that occurred, and three open streams whenever it        *)
(* selects, whatever users delete and however often the streams close.      *)
THEOREM WatcherTypes == Safety => []TypeOK
<1>1. WatchInv => TypeOK
  <2> SUFFICES ASSUME WatchInv PROVE TypeOK
    OBVIOUS
  <2>1. main.pc \in {"run", "select"} => None \notin {scalerStream, quotaStream, eventStream}
    BY DEF WatchInv, StreamsOpen
  <2>2. main.scaler \in ScalerObjects \cup {None} /\ main.quota \in QuotaObjects \cup {None}
    BY DEF WatchInv, IsMain, Mains, MaybeScaler, MaybeQuota
  <2>3. /\ cache.scaler \in ScalerObjects \cup {None} /\ cache.quota \in QuotaObjects \cup {None}
        /\ cache.events \in (SUBSET Deliveries) \cup {None}
    BY DEF WatchInv, IsCache, MaybeScaler, MaybeQuota
  <2>4. /\ scaler \in ScalerObjects \cup {None}
        /\ \A name \in QuotaNames : quota[name] \in QuotaObjects \cup {None}
        /\ \A e \in Deliveries : time[e] \in 0 .. era \cup {None}
    BY DEF WatchInv, ObjectTypes, ClockTypes, MaybeScaler, MaybeQuota
  <2>5. /\ scalerStream \in Seq(Events(ScalerObjects)) \cup {None}
        /\ quotaStream \in Seq(Events(QuotaObjects)) \cup {None}
        /\ eventStream \in Seq(Deliveries) \cup {None}
    BY DEF WatchInv, StreamTypes, ScalerStreams, QuotaStreams, EventStreams
  <2>6. failures <= disturbances /\ disturbances <= MaxDisturbances
    BY DEF WatchInv, BoundTypes
  <2> QED BY <2>1, <2>2, <2>3, <2>4, <2>5, <2>6 DEF TypeOK
<1> QED BY <1>1, WatchInit, WatchInductive, PTL DEF Safety
=============================================================================
