---------------------------- MODULE ResizeWorker ----------------------------
(***************************************************************************)
(* The resize worker, internal/resize/api.go: RunEventHandler, one         *)
(* goroutine that selects between resize requests (ResizeNsChan) and       *)
(* completions (eventDoneChan), and one resizeAsync goroutine per call of  *)
(* the resize API.  Both channels are unbuffered, so a sender is blocked   *)
(* from the moment it has an event until the handler receives it.          *)
(*                                                                         *)
(* Data is reduced to what the handler looks at: the namespace and the     *)
(* Immediate flag of an event.  Whether the API succeeded is not recorded: *)
(* resizeAsync publishes a result and reports completion in both cases.    *)
(***************************************************************************)
EXTENDS Naturals

CONSTANTS Namespaces,      \* namespaces whose quota is managed
          Senders,         \* goroutines of the quota controller that request resizes
          Calls,           \* slots for resizeAsync goroutines
          UpdateInterval,  \* --quota-update-interval in clock ticks; 0: shorter than a
                           \* tick (a flag of 0 or less is replaced by a minute)
          ResultCap,       \* capacity of ResizeResultChan (1024 in the code)
          None             \* "no event", "no goroutine"

ASSUME WorkerAssumption ==
  /\ UpdateInterval \in Nat
  /\ ResultCap \in Nat

VARIABLES
  request,     \* the event each sender is blocked on, sending to ResizeNsChan
  inProgress,  \* the handler's inProgress map
  pending,     \* the handler's pending map
  cacheAge,    \* ticks since cache[ns].Timestamp; UpdateInterval if longer or no entry
  call,        \* the resizeAsync goroutines
  results      \* results buffered in ResizeResultChan

vars == <<request, inProgress, pending, cacheAge, call, results>>
handlerVars == <<inProgress, pending, cacheAge>>

Event == [ns : Namespaces, immediate : BOOLEAN]

(* A resizeAsync goroutine is inside the API, or past it and blocked on     *)
(* eventDoneChan.                                                           *)
Call == [event : Event, phase : {"calling", "returned"}]

ASSUME NoneAssumption == None \notin Event /\ None \notin Call

Init ==
  /\ request = [s \in Senders |-> None]
  /\ inProgress = [ns \in Namespaces |-> FALSE]
  /\ pending = [ns \in Namespaces |-> None]
  /\ cacheAge = [ns \in Namespaces |-> UpdateInterval]
  /\ call = [c \in Calls |-> None]
  /\ results = 0

-----------------------------------------------------------------------------
(* The rate limit: a periodic event is refused until the interval has       *)
(* passed since the last completion in its namespace.                       *)
ThrottledEarly(e, age) == ~e.immediate /\ age + 1 < UpdateInterval
Throttled(e, age) == ~e.immediate /\ age < UpdateInterval

(* Whether the handler may start a call in a namespace.                     *)
AlwaysFree(ns) == TRUE
Free(ns) == ~inProgress[ns]

NewCall(e) == [event |-> e, phase |-> "calling"]

(* Which event waits for the completion of the call in progress.            *)
WaitingKeepLatest(e, waiting) == e
Waiting(e, waiting) ==
  IF e.immediate \/ waiting = None \/ ~waiting.immediate THEN e ELSE waiting

(* Whether the waiting event runs right after a completion: the age of the  *)
(* cache entry has just become zero.                                        *)
RunsNext(e) == e # None /\ ~Throttled(e, 0)

(* The handler's bookkeeping when a call starts and when one completes.     *)
MarkBusyForgotten(ns) == UNCHANGED inProgress
MarkBusy(ns) == inProgress' = [inProgress EXCEPT ![ns] = TRUE]

MarkDoneAlwaysFree(ns) == inProgress' = [inProgress EXCEPT ![ns] = FALSE]
MarkDone(ns) == inProgress' = [inProgress EXCEPT ![ns] = RunsNext(pending[ns])]

ConsumeOnlyIfRun(ns) ==
  pending' = [pending EXCEPT ![ns] = IF RunsNext(@) THEN None ELSE @]
Consume(ns) == pending' = [pending EXCEPT ![ns] = None]

(* cache[ns].Timestamp becomes the time of the completion.                  *)
StampForgotten(ns) == UNCHANGED cacheAge
Stamp(ns) == cacheAge' = [cacheAge EXCEPT ![ns] = 0]

(* publishResizeResult: a full buffer drops the result.                     *)
PublishUnbounded == results' = results + 1
PublishBlocking == results < ResultCap /\ results' = results + 1
Publish == results' = IF results < ResultCap THEN results + 1 ELSE results

-----------------------------------------------------------------------------
(* Senders: InvokeResizeApiAsync and InvokeImmediateResizeApiAsync.         *)
Submit(s) ==
  /\ request[s] = None
  /\ \E e \in Event : request' = [request EXCEPT ![s] = e]
  /\ UNCHANGED <<handlerVars, call, results>>

(* The handler receives a request for a namespace that is being resized.    *)
ParkRequest(s) ==
  /\ request[s] # None
  /\ LET e == request[s] IN
       /\ inProgress[e.ns]
       /\ pending' = [pending EXCEPT ![e.ns] = Waiting(e, @)]
  /\ request' = [request EXCEPT ![s] = None]
  /\ UNCHANGED <<inProgress, cacheAge, call, results>>

(* ... for a free namespace, and it passes the rate limit.                  *)
StartRequest(s) ==
  /\ request[s] # None
  /\ LET e == request[s] IN
       /\ Free(e.ns)
       /\ ~Throttled(e, cacheAge[e.ns])
       /\ \E c \in Calls : call[c] = None /\ call' = [call EXCEPT ![c] = NewCall(e)]
       /\ MarkBusy(e.ns)
  /\ request' = [request EXCEPT ![s] = None]
  /\ UNCHANGED <<pending, cacheAge, results>>

(* ... for a free namespace, within the interval: dropped with a log line.  *)
IgnoreRequest(s) ==
  /\ request[s] # None
  /\ LET e == request[s] IN ~inProgress[e.ns] /\ Throttled(e, cacheAge[e.ns])
  /\ request' = [request EXCEPT ![s] = None]
  /\ UNCHANGED <<handlerVars, call, results>>

(* ResizeApiFunc returns; the result is published and the goroutine blocks  *)
(* on eventDoneChan.                                                        *)
ApiReturn(c) ==
  /\ call[c] # None /\ call[c].phase = "calling"
  /\ call' = [call EXCEPT ![c].phase = "returned"]
  /\ Publish
  /\ UNCHANGED <<request, handlerVars>>

(* The handler receives a completion: it stamps the cache, consumes the     *)
(* waiting event, and either runs it or frees the namespace.  The goroutine *)
(* that ends and the one that may start share the slot c.                   *)
HandleDone(c) ==
  /\ call[c] # None /\ call[c].phase = "returned"
  /\ LET ns == call[c].event.ns
         e == pending[ns]
     IN /\ Stamp(ns)
        /\ call' = [call EXCEPT ![c] = IF RunsNext(e) THEN NewCall(e) ELSE None]
        /\ Consume(ns)
        /\ MarkDone(ns)
  /\ UNCHANGED <<request, results>>

(* The clock, saturated at the interval: nothing distinguishes later ages.  *)
Tick ==
  /\ \E ns \in Namespaces : cacheAge[ns] < UpdateInterval
  /\ cacheAge' = [ns \in Namespaces |->
                    IF cacheAge[ns] < UpdateInterval THEN cacheAge[ns] + 1 ELSE cacheAge[ns]]
  /\ UNCHANGED <<request, inProgress, pending, call, results>>

-----------------------------------------------------------------------------
Receive(s) == ParkRequest(s) \/ StartRequest(s) \/ IgnoreRequest(s)

Next ==
  \/ \E s \in Senders : Submit(s) \/ ParkRequest(s) \/ StartRequest(s) \/ IgnoreRequest(s)
  \/ \E c \in Calls : ApiReturn(c) \/ HandleDone(c)
  \/ Tick

(* The handler's select always comes back to its channels and Go picks among *)
(* ready cases at random, so no ready case waits for ever; the resize API    *)
(* answers (a PATCH with the client's timeout).                              *)
Fairness ==
  /\ \A s \in Senders : WF_vars(Receive(s))
  /\ \A c \in Calls : WF_vars(ApiReturn(c)) /\ WF_vars(HandleDone(c))

Safety == Init /\ [][Next]_vars
Spec == Safety /\ Fairness

-----------------------------------------------------------------------------
TypeOK ==
  /\ request \in [Senders -> Event \cup {None}]
  /\ inProgress \in [Namespaces -> BOOLEAN]
  /\ pending \in [Namespaces -> Event \cup {None}]
  /\ cacheAge \in [Namespaces -> 0 .. UpdateInterval]
  /\ call \in [Calls -> Call \cup {None}]
  /\ results \in 0 .. ResultCap

Active(c, ns) == call[c] # None /\ call[c].event.ns = ns

(* The worker serializes quota updates per namespace: two goroutines never  *)
(* patch the quota of one namespace at the same time.                       *)
OneCallPerNamespace ==
  \A ns \in Namespaces : \A c, d \in Calls : Active(c, ns) /\ Active(d, ns) => c = d

(* The map inProgress that the handler reads in place of the goroutines     *)
(* says exactly which namespaces have one, also when a completed call is    *)
(* followed by the waiting event without going through "free".              *)
InProgressIsAccurate ==
  \A ns \in Namespaces : inProgress[ns] <=> \E c \in Calls : Active(c, ns)

(* A parked event always has a goroutine whose completion will consume it:  *)
(* no event is left in the pending map of a free namespace.                 *)
PendingHasCarrier ==
  \A ns \in Namespaces :
    pending[ns] # None => pending[ns].ns = ns /\ \E c \in Calls : Active(c, ns)

(* e starts in this step: a goroutine in the API that was not there before. *)
Starts(e) ==
  \E c \in Calls : /\ call'[c] # call[c]
                   /\ call'[c] = NewCall(e)

(* A periodic resize never starts within the update interval of the         *)
(* namespace's last completed resize, whether it was received or parked.    *)
KeepsInterval ==
  \A ns \in Namespaces :
    Starts([ns |-> ns, immediate |-> FALSE]) => cacheAge'[ns] = UpdateInterval
PeriodicRespectsInterval == [][KeepsInterval]_vars

(* A quota-denied resize is never lost: when its sender is released it has   *)
(* started or is parked, and it stays parked, not replaced by a periodic     *)
(* one, until an immediate resize of the namespace starts.                   *)
ParkedImmediate(ns) == pending[ns] # None /\ pending[ns].immediate
Delivered(ns) ==
  \E s \in Senders : request[s] = [ns |-> ns, immediate |-> TRUE] /\ request'[s] = None
KeepsImmediate ==
  \A ns \in Namespaces :
    ParkedImmediate(ns) \/ Delivered(ns) =>
      ParkedImmediate(ns)' \/ Starts([ns |-> ns, immediate |-> TRUE])
ImmediateNeverDropped == [][KeepsImmediate]_vars

(* A quota-denied resize request, still with its sender or parked, is        *)
(* followed by an immediate API call for its namespace that leaves nothing   *)
(* immediate parked, whatever is in progress and however recent.             *)
ImmediateServed ==
  \A ns \in Namespaces :
    (ParkedImmediate(ns) \/ \E s \in Senders : request[s] = [ns |-> ns, immediate |-> TRUE])
      ~> /\ ~ParkedImmediate(ns)
         /\ \E c \in Calls : call[c] = NewCall([ns |-> ns, immediate |-> TRUE])

-----------------------------------------------------------------------------
(* The worker implements ResizeContract.                                    *)
Running(ns) ==
  IF ~inProgress[ns] THEN "idle"
  ELSE IF \E c \in Calls : Active(c, ns) /\ call[c].event.immediate
       THEN "immediate" ELSE "periodic"

Contract == INSTANCE ResizeContract WITH
              running <- [ns \in Namespaces |-> Running(ns)],
              owed <- [ns \in Namespaces |-> ParkedImmediate(ns)],
              rest <- cacheAge

(* Every step of the worker is one the contract allows, and every operation *)
(* that begins in a namespace ends there.                                   *)
ContractSafety == Contract!ContractSafety
ContractFairness == Contract!ContractFairness
=============================================================================
