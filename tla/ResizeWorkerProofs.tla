------------------------- MODULE ResizeWorkerProofs -------------------------
(***************************************************************************)
(* Theorems about the resize worker, for any sets of namespaces, senders   *)
(* and goroutine slots, any update interval and any result buffer.         *)
(***************************************************************************)
EXTENDS ResizeWorker, TLAPS

(* Events and goroutines are not None: what every leaf about the maps needs. *)
LEMMA NoneIsNoEvent == \A e \in Event : e # None
BY NoneAssumption

(* The goroutine started for an event is a well-formed one.                 *)
LEMMA NewCallType == \A e \in Event : NewCall(e) \in Call
BY DEF NewCall, Call

-----------------------------------------------------------------------------
(* One handler step of the worker preserves the type invariant.             *)
LEMMA TypeInductive == TypeOK /\ [Next]_vars => TypeOK'
<1> SUFFICES ASSUME TypeOK, [Next]_vars PROVE TypeOK'
  OBVIOUS
<1> USE WorkerAssumption DEF TypeOK
<1>1. ASSUME NEW s \in Senders, Submit(s) PROVE TypeOK'
  BY <1>1 DEF Submit, handlerVars
<1>2. ASSUME NEW s \in Senders, ParkRequest(s) PROVE TypeOK'
  <2>1. request[s] \in Event
    BY <1>2 DEF ParkRequest
  <2>2. request[s].ns \in Namespaces
    BY <2>1 DEF Event
  <2>3. pending' \in [Namespaces -> Event \cup {None}]
    BY <1>2, <2>1, <2>2 DEF ParkRequest, Waiting
  <2> QED BY <1>2, <2>3 DEF ParkRequest
<1>3. ASSUME NEW s \in Senders, StartRequest(s) PROVE TypeOK'
  <2>1. request[s] \in Event /\ NewCall(request[s]) \in Call
    BY <1>3, NewCallType DEF StartRequest
  <2>2. call' \in [Calls -> Call \cup {None}]
    BY <1>3, <2>1 DEF StartRequest
  <2>3. inProgress' \in [Namespaces -> BOOLEAN]
    BY <1>3 DEF StartRequest, MarkBusy
  <2> QED BY <1>3, <2>2, <2>3 DEF StartRequest
<1>4. ASSUME NEW s \in Senders, IgnoreRequest(s) PROVE TypeOK'
  BY <1>4 DEF IgnoreRequest, handlerVars
<1>5. ASSUME NEW c \in Calls, ApiReturn(c) PROVE TypeOK'
  <2>1. call[c] \in Call
    BY <1>5 DEF ApiReturn
  <2>2. call' \in [Calls -> Call \cup {None}]
    BY <1>5, <2>1 DEF ApiReturn, Call
  <2>3. results' \in 0 .. ResultCap
    BY <1>5 DEF ApiReturn, Publish
  <2> QED BY <1>5, <2>2, <2>3 DEF ApiReturn, handlerVars
<1>6. ASSUME NEW c \in Calls, HandleDone(c) PROVE TypeOK'
  <2> DEFINE ns == call[c].event.ns
  <2>1. ns \in Namespaces
    BY <1>6 DEF HandleDone, Call, Event
  <2>2. call' \in [Calls -> Call \cup {None}]
    BY <1>6, <2>1, NewCallType DEF HandleDone, RunsNext
  <2>3. /\ pending' \in [Namespaces -> Event \cup {None}]
        /\ inProgress' \in [Namespaces -> BOOLEAN]
        /\ cacheAge' \in [Namespaces -> 0 .. UpdateInterval]
    BY <1>6, <2>1 DEF HandleDone, Stamp, Consume, MarkDone, RunsNext
  <2> QED BY <1>6, <2>2, <2>3 DEF HandleDone
<1>7. CASE Tick
  BY <1>7 DEF Tick
<1>8. CASE UNCHANGED vars
  BY <1>8 DEF vars
<1> QED BY <1>1, <1>2, <1>3, <1>4, <1>5, <1>6, <1>7, <1>8 DEF Next

(* The maps and channels start empty.                                       *)
LEMMA TypeInitial == Init => TypeOK
BY WorkerAssumption DEF Init, TypeOK

(* The state stays in its type: in particular the age of a cache entry      *)
(* saturates, and the result buffer never exceeds its capacity although     *)
(* nobody reads it (publishResizeResult).                                   *)
THEOREM TypeCorrect == Safety => []TypeOK
BY TypeInitial, TypeInductive, PTL DEF Safety

-----------------------------------------------------------------------------
(* The inductive invariant.  The three facts hold each other up: a second   *)
(* call cannot start because inProgress is accurate, inProgress stays       *)
(* accurate because the completed call was the only one, and the event that *)
(* follows a call is one of the same namespace.                             *)
Inv == TypeOK /\ OneCallPerNamespace /\ InProgressIsAccurate /\ PendingHasCarrier

(* The API's answer leaves the namespace of every goroutine as it was.      *)
LEMMA ApiReturnKeepsActive ==
  ASSUME TypeOK, NEW c \in Calls, ApiReturn(c), NEW d \in Calls, NEW ns \in Namespaces
  PROVE  Active(d, ns)' <=> Active(d, ns)
<1> DEFINE back == [call[c] EXCEPT !.phase = "returned"]
<1>1. call[c] \in Call
  BY DEF TypeOK, ApiReturn
<1>2. back \in Call /\ back.event = call[c].event
  BY <1>1 DEF Call
<1>3. call'[d] = IF d = c THEN back ELSE call[d]
  BY DEF ApiReturn, TypeOK
<1> HIDE DEF back
<1>4. back # None
  BY <1>2, NoneAssumption
<1> QED BY <1>2, <1>3, <1>4 DEF Active, ApiReturn

(* A start adds exactly one goroutine, of the request's namespace.          *)
LEMMA StartAddsActive ==
  ASSUME TypeOK, NEW s \in Senders, StartRequest(s)
  PROVE  \E c \in Calls :
           /\ call[c] = None
           /\ \A d \in Calls, ns \in Namespaces :
                Active(d, ns)' <=> IF d = c THEN ns = request[s].ns ELSE Active(d, ns)
<1>1. PICK c \in Calls : call[c] = None /\ call' = [call EXCEPT ![c] = NewCall(request[s])]
  BY DEF StartRequest
<1>2. NewCall(request[s]) # None /\ NewCall(request[s]).event = request[s]
  BY NewCallType, NoneAssumption DEF StartRequest, TypeOK, NewCall
<1>3. \A d \in Calls, ns \in Namespaces :
        Active(d, ns)' <=> IF d = c THEN ns = request[s].ns ELSE Active(d, ns)
  BY <1>1, <1>2 DEF TypeOK, Active
<1> QED BY <1>1, <1>3

(* A completion removes the completed goroutine unless the parked event of  *)
(* the same namespace takes its place.                                      *)
LEMMA DoneReplacesActive ==
  ASSUME Inv, NEW c \in Calls, HandleDone(c), NEW d \in Calls, NEW ns \in Namespaces
  PROVE  /\ call[c].event.ns \in Namespaces
         /\ Active(d, ns)' <=> /\ Active(d, ns)
                               /\ d = c => RunsNext(pending[ns])
<1> DEFINE m == call[c].event.ns
           e == pending[m]
<1>1. call[c] \in Call /\ call[c] # None /\ m \in Namespaces
  BY DEF Inv, TypeOK, HandleDone, Call, Event
<1>2. call' = [call EXCEPT ![c] = IF RunsNext(e) THEN NewCall(e) ELSE None]
  BY DEF HandleDone
<1>3. RunsNext(e) => NewCall(e) # None /\ NewCall(e).event.ns = m
  <2> SUFFICES ASSUME RunsNext(e) PROVE NewCall(e) # None /\ NewCall(e).event.ns = m
    OBVIOUS
  <2>1. e \in Event /\ e.ns = m
    BY <1>1 DEF RunsNext, Inv, TypeOK, PendingHasCarrier
  <2> QED BY <2>1, NewCallType, NoneAssumption DEF NewCall
<1>4. d # c => (Active(d, ns)' <=> Active(d, ns))
  BY <1>2 DEF Active, Inv, TypeOK
<1>5. d = c => (Active(d, ns)' <=> ns = m /\ RunsNext(e))
  BY <1>1, <1>2, <1>3 DEF Active, Inv, TypeOK
<1>6. d = c => (Active(d, ns) <=> ns = m)
  BY <1>1 DEF Active
<1> QED BY <1>1, <1>4, <1>5, <1>6

(* Every step of the worker preserves the invariant.                        *)
LEMMA InvInductive == Inv /\ [Next]_vars => Inv'
<1> SUFFICES ASSUME Inv, [Next]_vars PROVE Inv'
  OBVIOUS
<1>0. TypeOK /\ TypeOK'
  BY TypeInductive DEF Inv
<1>a. ASSUME UNCHANGED <<call, inProgress, pending>> PROVE Inv'
  BY <1>0, <1>a DEF Inv, OneCallPerNamespace, InProgressIsAccurate, PendingHasCarrier, Active
<1>1. ASSUME NEW s \in Senders, Submit(s) PROVE Inv'
  BY <1>1, <1>a DEF Submit, handlerVars
<1>2. ASSUME NEW s \in Senders, ParkRequest(s) PROVE Inv'
  <2> DEFINE e == request[s]
  <2>1. e \in Event /\ e.ns \in Namespaces
    BY <1>2, <1>0 DEF ParkRequest, TypeOK, Event
  <2>2. OneCallPerNamespace' /\ InProgressIsAccurate'
    BY <1>2 DEF ParkRequest, Inv, OneCallPerNamespace, InProgressIsAccurate, Active
  <2>3. \E c \in Calls : Active(c, e.ns)
    BY <1>2, <2>1 DEF ParkRequest, Inv, InProgressIsAccurate
  <2>4. \A ns \in Namespaces, c \in Calls : Active(c, ns)' <=> Active(c, ns)
    BY <1>2 DEF ParkRequest, Active
  <2>5. \A ns \in Namespaces :
          pending'[ns] = IF ns = e.ns THEN Waiting(e, pending[ns]) ELSE pending[ns]
    BY <1>2, <1>0 DEF ParkRequest, TypeOK
  <2>6. Waiting(e, pending[e.ns]) \in {e, pending[e.ns]} /\
        (pending[e.ns] = None => Waiting(e, pending[e.ns]) = e)
    BY DEF Waiting
  <2>7. PendingHasCarrier'
    BY <2>1, <2>3, <2>4, <2>5, <2>6 DEF Inv, PendingHasCarrier
  <2> QED BY <1>0, <2>2, <2>7 DEF Inv
<1>3. ASSUME NEW s \in Senders, StartRequest(s) PROVE Inv'
  <2> DEFINE m == request[s].ns
  <2>1. m \in Namespaces /\ ~inProgress[m]
    BY <1>3, <1>0 DEF StartRequest, Free, TypeOK, Event
  <2>2. PICK c \in Calls :
          /\ call[c] = None
          /\ \A d \in Calls, ns \in Namespaces :
               Active(d, ns)' <=> IF d = c THEN ns = m ELSE Active(d, ns)
    BY <1>3, <1>0, StartAddsActive
  <2>3. \A d \in Calls : ~Active(d, m)
    BY <2>1 DEF Inv, InProgressIsAccurate
  <2>4. \A ns \in Namespaces : ~Active(c, ns)
    BY <2>2 DEF Active
  <2>5. OneCallPerNamespace'
    BY <2>2, <2>3 DEF Inv, OneCallPerNamespace
  <2>6. \A ns \in Namespaces : inProgress'[ns] <=> ns = m \/ inProgress[ns]
    BY <1>3, <1>0, <2>1 DEF StartRequest, MarkBusy, TypeOK
  <2>7. InProgressIsAccurate'
    BY <2>2, <2>4, <2>6 DEF Inv, InProgressIsAccurate
  <2>8. PendingHasCarrier'
    BY <1>3, <2>2, <2>4 DEF StartRequest, Inv, PendingHasCarrier
  <2> QED BY <1>0, <2>5, <2>7, <2>8 DEF Inv
<1>4. ASSUME NEW s \in Senders, IgnoreRequest(s) PROVE Inv'
  BY <1>4, <1>a DEF IgnoreRequest, handlerVars
<1>5. ASSUME NEW c \in Calls, ApiReturn(c) PROVE Inv'
  <2>1. \A d \in Calls, ns \in Namespaces : Active(d, ns)' <=> Active(d, ns)
    BY <1>5, <1>0, ApiReturnKeepsActive
  <2> QED BY <1>0, <1>5, <2>1
      DEF ApiReturn, handlerVars, Inv, OneCallPerNamespace, InProgressIsAccurate, PendingHasCarrier
<1>6. ASSUME NEW c \in Calls, HandleDone(c) PROVE Inv'
  <2>0. PICK m \in Namespaces : m = call[c].event.ns
    BY <1>6, <1>0 DEF HandleDone, TypeOK, Call, Event
  <2>a. PICK runs \in BOOLEAN : runs = RunsNext(pending[m])
    BY DEF RunsNext
  <2>1. \A d \in Calls, ns \in Namespaces :
          Active(d, ns)' <=> Active(d, ns) /\ (d = c => RunsNext(pending[ns]))
    BY <1>6, DoneReplacesActive
  <2>2. Active(c, m)
    BY <1>6, <2>0 DEF HandleDone, Active
  <2>3. OneCallPerNamespace'
    BY <2>1 DEF Inv, OneCallPerNamespace
  <2>4. \A ns \in Namespaces :
          /\ inProgress'[ns] <=> IF ns = m THEN runs ELSE inProgress[ns]
          /\ pending'[ns] = IF ns = m THEN None ELSE pending[ns]
    BY <1>6, <1>0, <2>0, <2>a DEF HandleDone, Consume, MarkDone, RunsNext, TypeOK
  <2>5. \A ns \in Namespaces \ {m}, d \in Calls : Active(d, ns)' <=> Active(d, ns)
    BY <2>0, <2>1 DEF Active
  <2>6. (\E d \in Calls : Active(d, m)') <=> runs
    <3>1. Active(c, m)' <=> runs
      BY <2>1, <2>2, <2>a
    <3>2. ASSUME NEW d \in Calls, Active(d, m)' PROVE d = c
      <4>1. Active(d, m)
        BY <2>1, <3>2
      <4> QED BY <4>1, <2>2 DEF Inv, OneCallPerNamespace
    <3> QED BY <3>1, <3>2
  <2>7. ASSUME NEW ns \in Namespaces
        PROVE  inProgress'[ns] <=> \E d \in Calls : Active(d, ns)'
    <3>1. CASE ns = m
      BY <2>4, <2>6, <3>1
    <3>2. CASE ns # m
      <4>1. inProgress'[ns] <=> inProgress[ns]
        BY <2>4, <3>2
      <4>2. inProgress[ns] <=> \E d \in Calls : Active(d, ns)
        BY DEF Inv, InProgressIsAccurate
      <4> QED BY <4>1, <4>2, <2>5, <3>2
    <3> QED BY <3>1, <3>2
  <2>9. InProgressIsAccurate'
    BY <2>7 DEF InProgressIsAccurate
  <2>8. PendingHasCarrier'
    BY <2>4, <2>5 DEF Inv, PendingHasCarrier
  <2> QED BY <1>0, <2>3, <2>9, <2>8 DEF Inv
<1>7. CASE Tick
  BY <1>7, <1>a DEF Tick
<1>8. CASE UNCHANGED vars
  BY <1>8, <1>a DEF vars
<1> QED BY <1>1, <1>2, <1>3, <1>4, <1>5, <1>6, <1>7, <1>8 DEF Next

(* The invariant holds of every reachable state of the worker.              *)
THEOREM InvCorrect == Safety => []Inv
<1>1. Init => Inv
  BY TypeInitial DEF Init, Inv, OneCallPerNamespace, InProgressIsAccurate, PendingHasCarrier, Active
<1> QED BY <1>1, InvInductive, PTL DEF Safety

(* The worker serializes quota updates per namespace.                       *)
THEOREM SerializesPerNamespace == Safety => []OneCallPerNamespace
<1>1. Inv => OneCallPerNamespace
  BY DEF Inv
<1> QED BY <1>1, InvCorrect, PTL

(* The inProgress map is accurate whenever the handler can read it.         *)
THEOREM InProgressCorrect == Safety => []InProgressIsAccurate
<1>1. Inv => InProgressIsAccurate
  BY DEF Inv
<1> QED BY <1>1, InvCorrect, PTL

(* No parked event is left without a goroutine that will consume it.        *)
THEOREM NoOrphanedPending == Safety => []PendingHasCarrier
<1>1. Inv => PendingHasCarrier
  BY DEF Inv
<1> QED BY <1>1, InvCorrect, PTL
-----------------------------------------------------------------------------
(* A step that leaves the goroutines alone starts nothing.                  *)
LEMMA NoStart == \A e : UNCHANGED call => ~Starts(e)
BY DEF Starts

(* Only a fresh or a parked event starts: the two places that run resize.   *)
LEMMA StartsOnlyThere ==
  ASSUME Inv, [Next]_vars, NEW e \in Event, Starts(e)
  PROVE  \/ \E s \in Senders : StartRequest(s) /\ e = request[s]
         \/ \E c \in Calls : /\ HandleDone(c)
                             /\ pending[call[c].event.ns] = e
                             /\ RunsNext(e)
<1> DEFINE Goal == \/ \E s \in Senders : StartRequest(s) /\ e = request[s]
                   \/ \E c \in Calls : /\ HandleDone(c)
                                       /\ pending[call[c].event.ns] = e
                                       /\ RunsNext(e)
<1> SUFFICES Goal
  OBVIOUS
<1>0. PICK d \in Calls : call'[d] # call[d] /\ call'[d] = NewCall(e)
  BY DEF Starts
<1>a. NewCall(e) # None
  BY NewCallType, NoneAssumption
<1>1. ASSUME NEW s \in Senders, Submit(s) \/ ParkRequest(s) \/ IgnoreRequest(s) PROVE Goal
  BY <1>1, <1>0 DEF Submit, ParkRequest, IgnoreRequest
<1>2. ASSUME NEW s \in Senders, StartRequest(s) PROVE Goal
  <2>1. NewCall(e) = NewCall(request[s])
    BY <1>2, <1>0 DEF StartRequest, Inv, TypeOK
  <2>2. e = request[s]
    BY <2>1 DEF NewCall
  <2> QED BY <1>2, <2>2
<1>3. ASSUME NEW c \in Calls, ApiReturn(c) PROVE Goal
  <2>1. d = c /\ call[c] \in Call
    BY <1>3, <1>0 DEF ApiReturn, Inv, TypeOK
  <2>2. call'[c] = [call[c] EXCEPT !.phase = "returned"]
    BY <1>3 DEF ApiReturn, Inv, TypeOK
  <2>3. call'[c].phase = "returned"
    BY <2>1, <2>2 DEF Call
  <2>4. call'[c].phase = "calling"
    BY <1>0, <2>1 DEF NewCall
  <2> QED BY <2>3, <2>4
<1>4. ASSUME NEW c \in Calls, HandleDone(c) PROVE Goal
  <2> DEFINE f == pending[call[c].event.ns]
  <2>1. d = c
    BY <1>4, <1>0 DEF HandleDone, Inv, TypeOK
  <2>2. call'[c] = IF RunsNext(f) THEN NewCall(f) ELSE None
    BY <1>4 DEF HandleDone, Inv, TypeOK
  <2>3. RunsNext(f) /\ NewCall(e) = NewCall(f)
    BY <1>0, <1>a, <2>1, <2>2
  <2>4. e = f
    BY <2>3 DEF NewCall
  <2> QED BY <1>4, <2>3, <2>4
<1>5. CASE Tick
  BY <1>5, <1>0 DEF Tick
<1>6. CASE UNCHANGED vars
  BY <1>6, <1>0 DEF vars
<1> QED BY <1>1, <1>2, <1>3, <1>4, <1>5, <1>6 DEF Next

(* A periodic resize never starts within the update interval, on either of  *)
(* the two paths through the handler's resize closure.                      *)
LEMMA StepKeepsInterval == Inv /\ [Next]_vars => KeepsInterval
<1> SUFFICES ASSUME Inv, [Next]_vars, NEW ns \in Namespaces,
                    Starts([ns |-> ns, immediate |-> FALSE])
             PROVE  cacheAge'[ns] = UpdateInterval
  BY DEF KeepsInterval
<1> DEFINE e == [ns |-> ns, immediate |-> FALSE]
<1>1. e \in Event
  BY DEF Event
<1>2. CASE \E s \in Senders : StartRequest(s) /\ e = request[s]
  <2>1. PICK s \in Senders : StartRequest(s) /\ e = request[s]
    BY <1>2
  <2>2. ~(cacheAge[ns] < UpdateInterval) /\ cacheAge' = cacheAge
    BY <2>1 DEF StartRequest, Throttled
  <2> QED BY <2>2, WorkerAssumption DEF Inv, TypeOK
<1>3. CASE \E c \in Calls : /\ HandleDone(c)
                            /\ pending[call[c].event.ns] = e
                            /\ RunsNext(e)
  <2>1. PICK c \in Calls : HandleDone(c) /\ pending[call[c].event.ns] = e /\ RunsNext(e)
    BY <1>3
  <2>2. call[c].event.ns \in Namespaces
    BY <2>1 DEF HandleDone, Inv, TypeOK, Call, Event
  <2>3. call[c].event.ns = ns
    BY <1>1, <2>1, <2>2, NoneAssumption DEF Inv, PendingHasCarrier
  <2>4. cacheAge'[ns] = 0
    BY <2>1, <2>3 DEF HandleDone, Stamp, Inv, TypeOK
  <2>5. ~(0 < UpdateInterval)
    BY <2>1 DEF RunsNext, Throttled
  <2> QED BY <2>4, <2>5, WorkerAssumption
<1> HIDE DEF e
<1> QED BY <1>1, <1>2, <1>3, StartsOnlyThere DEF e

(* Periodic resizes are rate-limited per namespace, received or parked.      *)
THEOREM PeriodicRespectsIntervalCorrect == Safety => PeriodicRespectsInterval
BY InvCorrect, StepKeepsInterval, PTL DEF Safety, PeriodicRespectsInterval

(* A quota-denied resize is never lost: one step per handler action.        *)
LEMMA StepKeepsImmediate == Inv /\ [Next]_vars => KeepsImmediate
<1> SUFFICES ASSUME Inv, [Next]_vars, NEW ns \in Namespaces,
                    ParkedImmediate(ns) \/ Delivered(ns)
             PROVE  ParkedImmediate(ns)' \/ Starts([ns |-> ns, immediate |-> TRUE])
  BY DEF KeepsImmediate
<1> DEFINE e == [ns |-> ns, immediate |-> TRUE]
           Goal == ParkedImmediate(ns)' \/ Starts(e)
<1>0. e \in Event
  BY DEF Event
<1>a. ASSUME UNCHANGED <<pending, request>> PROVE Goal
  BY <1>a, <1>0, NoneIsNoEvent DEF ParkedImmediate, Delivered
<1>1. ASSUME NEW s \in Senders, Submit(s) PROVE Goal
  <2>1. ~Delivered(ns)
    BY <1>1, <1>0, NoneIsNoEvent DEF Submit, Delivered, Inv, TypeOK
  <2> QED BY <1>1, <2>1 DEF Submit, handlerVars, ParkedImmediate
<1>2. ASSUME NEW s \in Senders, ParkRequest(s) PROVE Goal
  <2>1. request[s] \in Event /\ request[s].ns \in Namespaces
    BY <1>2 DEF ParkRequest, Inv, TypeOK, Event
  <2>2. pending' = [pending EXCEPT ![request[s].ns] = Waiting(request[s], pending[request[s].ns])]
    BY <1>2 DEF ParkRequest
  <2>3. CASE request[s].ns # ns
    <3>1. ~Delivered(ns)
      BY <1>2, <1>0, <2>3, NoneIsNoEvent DEF ParkRequest, Delivered, Inv, TypeOK
    <3>2. pending'[ns] = pending[ns]
      BY <2>2, <2>3 DEF Inv, TypeOK
    <3> QED BY <3>1, <3>2 DEF ParkedImmediate
  <2>4. CASE request[s].ns = ns
    <3>1. pending'[ns] = Waiting(request[s], pending[ns])
      BY <2>2, <2>4 DEF Inv, TypeOK
    <3>2. request[s].immediate \/ (pending[ns] # None /\ pending[ns].immediate)
      <4>1. Delivered(ns) => request[s] = e
        BY <1>2, <1>0, NoneIsNoEvent DEF ParkRequest, Delivered, Inv, TypeOK
      <4> QED BY <4>1 DEF ParkedImmediate
    <3>3. Waiting(request[s], pending[ns]) # None /\ Waiting(request[s], pending[ns]).immediate
      BY <2>1, <3>2, NoneIsNoEvent DEF Waiting
    <3> QED BY <3>1, <3>3 DEF ParkedImmediate
  <2> QED BY <2>3, <2>4
<1>3. ASSUME NEW s \in Senders, StartRequest(s) PROVE Goal
  <2>1. Delivered(ns) => request[s] = e
    BY <1>3, <1>0, NoneIsNoEvent DEF StartRequest, Delivered, Inv, TypeOK
  <2>2. Starts(request[s])
    <3>1. PICK c \in Calls : call[c] = None /\ call' = [call EXCEPT ![c] = NewCall(request[s])]
      BY <1>3 DEF StartRequest
    <3>2. request[s] \in Event
      BY <1>3 DEF StartRequest, Inv, TypeOK
    <3>3. NewCall(request[s]) # None
      BY <3>2, NewCallType, NoneAssumption
    <3> QED BY <3>1, <3>3 DEF Starts, Inv, TypeOK
  <2>3. pending' = pending
    BY <1>3 DEF StartRequest
  <2> QED BY <2>1, <2>2, <2>3 DEF ParkedImmediate
<1>4. ASSUME NEW s \in Senders, IgnoreRequest(s) PROVE Goal
  <2>1. ~request[s].immediate /\ pending' = pending
    BY <1>4 DEF IgnoreRequest, Throttled, handlerVars
  <2>2. ~Delivered(ns)
    BY <1>4, <1>0, <2>1, NoneIsNoEvent DEF IgnoreRequest, Delivered, Inv, TypeOK
  <2> QED BY <2>1, <2>2 DEF ParkedImmediate
<1>5. ASSUME NEW c \in Calls, ApiReturn(c) PROVE Goal
  BY <1>5, <1>a DEF ApiReturn, handlerVars
<1>6. ASSUME NEW c \in Calls, HandleDone(c) PROVE Goal
  <2> DEFINE m == call[c].event.ns
  <2>1. m \in Namespaces /\ call[c].phase = "returned"
    BY <1>6 DEF HandleDone, Inv, TypeOK, Call, Event
  <2>2. ParkedImmediate(ns)
    BY <1>6, <1>0, NoneIsNoEvent DEF HandleDone, Delivered
  <2>3. CASE m # ns
    BY <1>6, <2>2, <2>3 DEF HandleDone, Consume, ParkedImmediate, Inv, TypeOK
  <2>4. CASE m = ns
    <3>1. pending[ns] = e
      BY <2>2 DEF ParkedImmediate, Inv, TypeOK, PendingHasCarrier, Event
    <3>2. RunsNext(e)
      BY <1>0, NoneIsNoEvent DEF RunsNext, Throttled
    <3>3. call'[c] = NewCall(e)
      BY <1>6, <2>4, <3>1, <3>2 DEF HandleDone, Inv, TypeOK
    <3>4. call'[c] # call[c]
      BY <2>1, <3>3 DEF NewCall
    <3> QED BY <3>3, <3>4 DEF Starts
  <2> QED BY <2>3, <2>4
<1>7. CASE Tick
  BY <1>7, <1>a DEF Tick
<1>8. CASE UNCHANGED vars
  BY <1>8, <1>a DEF vars
<1> QED BY <1>1, <1>2, <1>3, <1>4, <1>5, <1>6, <1>7, <1>8 DEF Next

(* A quota-denied resize is kept from its sender to the API.                 *)
THEOREM ImmediateNeverDroppedCorrect == Safety => ImmediateNeverDropped
BY InvCorrect, StepKeepsImmediate, PTL DEF Safety, ImmediateNeverDropped
-----------------------------------------------------------------------------
(* The refinement of ResizeContract.  Running(ns) depends on the one        *)
(* goroutine of the namespace; the lemmas say what each step does to it.    *)
LEMMA RunningOfCall ==
  ASSUME Inv, NEW ns \in Namespaces, NEW c \in Calls, Active(c, ns)
  PROVE  Running(ns) = IF call[c].event.immediate THEN "immediate" ELSE "periodic"
<1>1. inProgress[ns]
  BY DEF Inv, InProgressIsAccurate
<1>2. \A d \in Calls : Active(d, ns) => d = c
  BY DEF Inv, OneCallPerNamespace
<1> QED BY <1>1, <1>2 DEF Running

(* A free namespace runs nothing, a busy one does not read as idle.         *)
LEMMA RunningIdle ==
  ASSUME NEW ns \in Namespaces
  PROVE  inProgress[ns] <=> Running(ns) # "idle"
BY DEF Running

(* Goroutines of other namespaces do not matter to Running.                 *)
LEMMA RunningSame ==
  ASSUME Inv, Inv', NEW ns \in Namespaces,
         inProgress'[ns] <=> inProgress[ns],
         \A d \in Calls : /\ Active(d, ns)' <=> Active(d, ns)
                          /\ Active(d, ns) => call'[d].event = call[d].event
  PROVE  Running(ns)' = Running(ns)
<1>1. (\E d \in Calls : Active(d, ns) /\ call[d].event.immediate)
        <=> (\E d \in Calls : Active(d, ns)' /\ call'[d].event.immediate)
  OBVIOUS
<1> QED BY <1>1 DEF Running

(* A start is the abstract begin of a periodic or an immediate operation.    *)
LEMMA StartRefines ==
  ASSUME Inv, Inv', NEW s \in Senders, StartRequest(s)
  PROVE  Contract!BeginPeriodic(request[s].ns) \/ Contract!BeginImmediate(request[s].ns)
<1>0. PICK m \in Namespaces : m = request[s].ns
  BY DEF StartRequest, Inv, TypeOK, Event
<1>1. PICK c \in Calls : call[c] = None /\ call' = [call EXCEPT ![c] = NewCall(request[s])]
  BY DEF StartRequest
<1>2. request[s] \in Event /\ NewCall(request[s]) # None /\ NewCall(request[s]).event = request[s]
  BY NewCallType, NoneAssumption DEF StartRequest, Inv, TypeOK, NewCall
<1>3. Active(c, m)' /\ call'[c].event = request[s]
  BY <1>0, <1>1, <1>2 DEF Active, Inv, TypeOK
<1>4. Running(m)' = IF request[s].immediate THEN "immediate" ELSE "periodic"
  <2>1. inProgress'[m] /\ \A d \in Calls : Active(d, m)' => d = c
    BY <1>3 DEF Inv, InProgressIsAccurate, OneCallPerNamespace
  <2> QED BY <1>3, <2>1 DEF Running
<1>5. Running(m) = "idle"
  BY <1>0 DEF StartRequest, Free, Running
<1>6. \A ns \in Namespaces \ {m} : Running(ns)' = Running(ns)
  <2> SUFFICES ASSUME NEW ns \in Namespaces, ns # m PROVE Running(ns)' = Running(ns)
    OBVIOUS
  <2>1. inProgress'[ns] = inProgress[ns]
    BY <1>0 DEF StartRequest, MarkBusy, Inv, TypeOK
  <2>2. ASSUME NEW d \in Calls
        PROVE  /\ Active(d, ns)' <=> Active(d, ns)
               /\ Active(d, ns) => call'[d].event = call[d].event
    <3>1. CASE d = c
      BY <1>0, <1>1, <1>2, <3>1 DEF Active, Inv, TypeOK
    <3>2. CASE d # c
      <4>1. call'[d] = call[d]
        BY <1>1, <3>2 DEF Inv, TypeOK
      <4> QED BY <4>1 DEF Active
    <3> QED BY <3>1, <3>2
  <2> QED BY <2>1, <2>2, RunningSame
<1>7. [ns \in Namespaces |-> Running(ns)'] =
        [[ns \in Namespaces |-> Running(ns)] EXCEPT
           ![m] = IF request[s].immediate THEN "immediate" ELSE "periodic"]
  BY <1>4, <1>6
<1>8. /\ [ns \in Namespaces |-> ParkedImmediate(ns)'] = [ns \in Namespaces |-> ParkedImmediate(ns)]
      /\ cacheAge' = cacheAge
  BY DEF StartRequest, ParkedImmediate
<1>9. ~request[s].immediate => cacheAge[m] = UpdateInterval
  BY <1>0, WorkerAssumption DEF StartRequest, Throttled, Inv, TypeOK
<1>10. CASE request[s].immediate
  BY <1>0, <1>5, <1>7, <1>8, <1>10 DEF Contract!BeginImmediate
<1>11. CASE ~request[s].immediate
  BY <1>0, <1>5, <1>7, <1>8, <1>9, <1>11 DEF Contract!BeginPeriodic
<1> QED BY <1>10, <1>11

(* Parking is invisible, or an abstract Owe.                                *)
LEMMA ParkRefines ==
  ASSUME Inv, Inv', NEW s \in Senders, ParkRequest(s)
  PROVE  Contract!Owe(request[s].ns) \/ UNCHANGED Contract!contractVars
<1>0. PICK m \in Namespaces : m = request[s].ns
  BY DEF ParkRequest, Inv, TypeOK, Event
<1>1. /\ inProgress[m]
      /\ pending' = [pending EXCEPT ![m] = Waiting(request[s], pending[m])]
      /\ UNCHANGED <<inProgress, cacheAge, call>>
  BY <1>0 DEF ParkRequest
<1>2. \A ns \in Namespaces : Running(ns)' = Running(ns)
  BY <1>1 DEF Running, Active
<1>3. \A ns \in Namespaces \ {m} : ParkedImmediate(ns)' = ParkedImmediate(ns)
  BY <1>1 DEF ParkedImmediate, Inv, TypeOK
<1>4. ParkedImmediate(m) => ParkedImmediate(m)'
  <2> SUFFICES ASSUME ParkedImmediate(m) PROVE ParkedImmediate(m)'
    OBVIOUS
  <2>1. pending'[m] = Waiting(request[s], pending[m])
    BY <1>1 DEF Inv, TypeOK
  <2>2. request[s] # None
    BY DEF ParkRequest
  <2> QED BY <2>1, <2>2 DEF ParkedImmediate, Waiting
<1>5. Running(m) # "idle"
  BY <1>1, RunningIdle
<1>6. CASE ParkedImmediate(m)' <=> ParkedImmediate(m)
  <2>1. \A ns \in Namespaces : ParkedImmediate(ns)' = ParkedImmediate(ns)
    BY <1>3, <1>6 DEF ParkedImmediate, Inv, TypeOK, Event
  <2> QED BY <1>1, <1>2, <2>1 DEF Contract!contractVars
<1>7. CASE ~ParkedImmediate(m) /\ ParkedImmediate(m)'
  <2>1. \A ns \in Namespaces :
          ParkedImmediate(ns)' = IF ns = m THEN TRUE ELSE ParkedImmediate(ns)
    BY <1>3, <1>7 DEF ParkedImmediate, Inv, TypeOK, Event
  <2>2. [ns \in Namespaces |-> ParkedImmediate(ns)'] =
          [[ns \in Namespaces |-> ParkedImmediate(ns)] EXCEPT ![m] = TRUE]
    BY <2>1
  <2> QED BY <1>0, <1>1, <1>2, <1>5, <2>2 DEF Contract!Owe
<1> QED BY <1>4, <1>6, <1>7

(* The API's answer is invisible.                                           *)
LEMMA ApiReturnRefines ==
  ASSUME Inv, Inv', NEW c \in Calls, ApiReturn(c)
  PROVE  UNCHANGED Contract!contractVars
<1>1. call[c] \in Call
  BY DEF Inv, TypeOK, ApiReturn
<1>2. \A d \in Calls : call[d] # None => call'[d].event = call[d].event
  BY <1>1 DEF ApiReturn, Inv, TypeOK, Call
<1>3. \A ns \in Namespaces : \A d \in Calls :
        /\ Active(d, ns)' <=> Active(d, ns)
        /\ Active(d, ns) => call'[d].event = call[d].event
  BY <1>2, ApiReturnKeepsActive DEF Inv, Active
<1>4. \A ns \in Namespaces : Running(ns)' = Running(ns)
  BY <1>3, RunningSame DEF ApiReturn, handlerVars
<1> QED BY <1>4 DEF ApiReturn, handlerVars, ParkedImmediate, Contract!contractVars

(* A completion, with what follows it in the same step, is the abstract End. *)
LEMMA DoneRefines ==
  ASSUME Inv, Inv', NEW c \in Calls, HandleDone(c)
  PROVE  \E ns \in Namespaces : Contract!End(ns)
<1>0. PICK m \in Namespaces : m = call[c].event.ns
  BY DEF HandleDone, Inv, TypeOK, Call, Event
<1> DEFINE e == pending[m]
           next == IF ~RunsNext(e) THEN "idle"
                   ELSE IF e.immediate THEN "immediate" ELSE "periodic"
<1>1. Active(c, m)
  BY <1>0 DEF HandleDone, Active
<1>2. Running(m) # "idle"
  BY <1>1, RunningOfCall
<1>3. /\ call'[c] = IF RunsNext(e) THEN NewCall(e) ELSE None
      /\ \A d \in Calls \ {c} : call'[d] = call[d]
      /\ \A ns \in Namespaces : inProgress'[ns] = IF ns = m THEN RunsNext(e) ELSE inProgress[ns]
      /\ \A ns \in Namespaces : pending'[ns] = IF ns = m THEN None ELSE pending[ns]
      /\ cacheAge' = [cacheAge EXCEPT ![m] = 0]
  BY <1>0 DEF HandleDone, Stamp, Consume, MarkDone, RunsNext, Inv, TypeOK
<1>4. Running(m)' = next
  <2>1. CASE ~RunsNext(e)
    BY <1>3, <2>1 DEF Running
  <2>2. CASE RunsNext(e)
    <3>1. e \in Event /\ e.ns = m
      BY <2>2 DEF RunsNext, Inv, TypeOK, PendingHasCarrier
    <3>2. NewCall(e) # None /\ NewCall(e).event = e
      BY <3>1, NewCallType, NoneAssumption DEF NewCall
    <3>3. Active(c, m)' /\ call'[c].event = e
      BY <1>3, <2>2, <3>1, <3>2 DEF Active
    <3>4. inProgress'[m] /\ \A d \in Calls : Active(d, m)' => d = c
      BY <3>3 DEF Inv, InProgressIsAccurate, OneCallPerNamespace
    <3> QED BY <2>2, <3>3, <3>4 DEF Running
  <2> QED BY <2>1, <2>2
<1>5. \A ns \in Namespaces \ {m} : Running(ns)' = Running(ns)
  <2> SUFFICES ASSUME NEW ns \in Namespaces, ns # m PROVE Running(ns)' = Running(ns)
    OBVIOUS
  <2>1. \A d \in Calls : /\ Active(d, ns)' <=> Active(d, ns)
                         /\ d = c => ~Active(d, ns)
    BY <1>0, DoneReplacesActive DEF Active
  <2>2. \A d \in Calls : Active(d, ns) => call'[d].event = call[d].event
    BY <1>3, <2>1
  <2> QED BY <1>3, <2>1, <2>2, RunningSame
<1>6. next \in Contract!Successors(m)
  <2>1. CASE ParkedImmediate(m)
    BY <2>1 DEF ParkedImmediate, RunsNext, Throttled, Contract!Successors
  <2>2. CASE ~ParkedImmediate(m)
    <3>1. RunsNext(e) => ~e.immediate /\ UpdateInterval = 0
      BY <2>2, WorkerAssumption DEF ParkedImmediate, RunsNext, Throttled
    <3> QED BY <2>2, <3>1 DEF Contract!Successors
  <2> QED BY <2>1, <2>2
<1> HIDE DEF next
<1>7. [ns \in Namespaces |-> Running(ns)'] =
        [[ns \in Namespaces |-> Running(ns)] EXCEPT ![m] = next]
  BY <1>4, <1>5
<1>8. \A ns \in Namespaces :
        ParkedImmediate(ns)' = IF ns = m THEN FALSE ELSE ParkedImmediate(ns)
  BY <1>3 DEF ParkedImmediate
<1>9. [ns \in Namespaces |-> ParkedImmediate(ns)'] =
        [[ns \in Namespaces |-> ParkedImmediate(ns)] EXCEPT ![m] = FALSE]
  BY <1>8
<1>10. Contract!End(m)
  BY <1>2, <1>3, <1>6, <1>7, <1>9 DEF Contract!End
<1> QED BY <1>10

(* Every step of the worker is a step of the contract or invisible.         *)
LEMMA StepRefines ==
  Inv /\ Inv' /\ [Next]_vars => [Contract!ContractNext]_Contract!contractVars
<1> SUFFICES ASSUME Inv, Inv', [Next]_vars
             PROVE  [Contract!ContractNext]_Contract!contractVars
  OBVIOUS
<1>a. ASSUME UNCHANGED <<inProgress, pending, cacheAge, call>>
      PROVE  UNCHANGED Contract!contractVars
  BY <1>a DEF Contract!contractVars, Running, Active, ParkedImmediate
<1>1. ASSUME NEW s \in Senders, Submit(s) \/ IgnoreRequest(s)
      PROVE  UNCHANGED Contract!contractVars
  BY <1>1, <1>a DEF Submit, IgnoreRequest, handlerVars
<1>2. ASSUME NEW s \in Senders, ParkRequest(s)
      PROVE  Contract!ContractNext \/ UNCHANGED Contract!contractVars
  <2>1. request[s].ns \in Namespaces
    BY <1>2 DEF ParkRequest, Inv, TypeOK, Event
  <2> QED BY <1>2, <2>1, ParkRefines DEF Contract!ContractNext
<1>3. ASSUME NEW s \in Senders, StartRequest(s) PROVE Contract!ContractNext
  <2>1. request[s].ns \in Namespaces
    BY <1>3 DEF StartRequest, Inv, TypeOK, Event
  <2> QED BY <1>3, <2>1, StartRefines DEF Contract!ContractNext
<1>4. ASSUME NEW c \in Calls, ApiReturn(c) PROVE UNCHANGED Contract!contractVars
  BY <1>4, ApiReturnRefines
<1>5. ASSUME NEW c \in Calls, HandleDone(c) PROVE Contract!ContractNext
  BY <1>5, DoneRefines DEF Contract!ContractNext
<1>6. CASE Tick
  <2>1. \A ns \in Namespaces : Running(ns)' = Running(ns) /\ ParkedImmediate(ns)' = ParkedImmediate(ns)
    BY <1>6 DEF Tick, Running, Active, ParkedImmediate
  <2>2. Contract!Elapse
    BY <1>6, <2>1 DEF Tick, Contract!Elapse
  <2> QED BY <2>2 DEF Contract!ContractNext
<1>7. CASE UNCHANGED vars
  BY <1>7, <1>a DEF vars
<1> QED BY <1>1, <1>2, <1>3, <1>4, <1>5, <1>6, <1>7 DEF Next

(* The resize worker implements its contract (safety part).                 *)
THEOREM WorkerImplementsContract == Safety => ContractSafety
<1>1. Init => Contract!ContractInit
  BY DEF Init, Contract!ContractInit, Running, ParkedImmediate
<1> QED BY <1>1, StepRefines, InvCorrect, PTL
        DEF Safety, ContractSafety, Contract!ContractSafety
=============================================================================
