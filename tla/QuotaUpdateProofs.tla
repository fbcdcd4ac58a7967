-------------------------- MODULE QuotaUpdateProofs --------------------------
(***************************************************************************)
(* Theorems about the goroutines of UpdateQuotaIfRequired, for any sets of *)
(* namespaces and goroutines, any quotas, policies and events.             *)
(***************************************************************************)
EXTENDS QuotaUpdate, QuotaPolicyProofs

(* As much of the goroutines' type as the flag depends on.  demand, which a *)
(* fold computes, is left free.                                             *)
Shaped(r) ==
  r = [ns |-> r.ns, quota |-> r.quota, kinds |-> r.kinds, pc |-> r.pc,
       demand |-> r.demand, short |-> r.short, overtaken |-> r.overtaken]
AllShaped ==
  /\ call = [c \in Calls |-> call[c]]
  /\ \A c \in Calls : call[c] # None => Shaped(call[c])

FlagInv == AllShaped /\ OneHolder /\ HolderHasFlag

-----------------------------------------------------------------------------
(* A step that gives nobody the flag and takes it from nobody: whoever      *)
(* holds it after the step held it before, for the same namespace.          *)
Quiet ==
  /\ pending' = pending
  /\ \A d \in Calls : Holds(d)' => Holds(d) /\ call'[d].ns = call[d].ns

(* Such a step keeps what the flag promises.                                *)
LEMMA QuietKeepsFlag ==
  ASSUME OneHolder, HolderHasFlag, Quiet
  PROVE  OneHolder' /\ HolderHasFlag'
BY DEF OneHolder, HolderHasFlag, Quiet

(* A step of goroutine c alone, to a record that holds the flag only if the *)
(* old one did.                                                             *)
LEMMA LocalStep ==
  ASSUME AllShaped, NEW c \in Calls, NEW r,
         call' = [call EXCEPT ![c] = r],
         r # None => Shaped(r),
         r # None /\ r.pc \in Holding /\ ~r.overtaken => Holds(c) /\ r.ns = call[c].ns
  PROVE  /\ AllShaped'
         /\ \A d \in Calls : Holds(d)' => Holds(d) /\ call'[d].ns = call[d].ns
<1>1. call' = [d \in Calls |-> IF d = c THEN r ELSE call[d]]
  BY DEF AllShaped
<1>2. AllShaped'
  BY <1>1 DEF AllShaped
<1>3. ASSUME NEW d \in Calls, Holds(d)' PROVE Holds(d) /\ call'[d].ns = call[d].ns
  <2>1. CASE d = c
    BY <1>1, <1>3, <2>1 DEF Holds
  <2>2. CASE d # c
    BY <1>1, <1>3, <2>2 DEF Holds
  <2> QED BY <2>1, <2>2
<1> QED BY <1>2, <1>3

(* What With and Goto make of a goroutine is one, in the given place.       *)
LEMMA WithShape ==
  ASSUME NEW c, NEW pc, NEW demand, NEW short
  PROVE  /\ Shaped(With(c, pc, demand, short))
         /\ With(c, pc, demand, short).pc = pc
         /\ With(c, pc, demand, short).ns = call[c].ns
BY DEF Shaped, With

(* Moving a goroutine to another place changes nothing else of it.          *)
LEMMA GotoShape ==
  ASSUME NEW r, Shaped(r), NEW pc
  PROVE  /\ Shaped([r EXCEPT !.pc = pc])
         /\ [r EXCEPT !.pc = pc].pc = pc
         /\ [r EXCEPT !.pc = pc].ns = r.ns
         /\ [r EXCEPT !.pc = pc].overtaken = r.overtaken
BY DEF Shaped

(* The kinds of local steps: to a place that does not rely on the flag, from*)
(* one place that relies on it to another, to the end of the goroutine.     *)
Kept == AllShaped' /\ \A d \in Calls : Holds(d)' => Holds(d) /\ call'[d].ns = call[d].ns

(* Continue, to a place that does not rely on the flag.                     *)
LEMMA ContinueKeeps ==
  ASSUME AllShaped, NEW c \in Calls, NEW pc, pc \notin Holding, NEW demand, NEW short,
         Continue(c, pc, demand, short)
  PROVE  Kept
<1> DEFINE r == With(c, pc, demand, short)
<1>1. call' = [call EXCEPT ![c] = r] /\ Shaped(r) /\ r.pc \notin Holding
  BY WithShape DEF Continue
<1> HIDE DEF r
<1> QED BY <1>1, LocalStep DEF Kept

(* Goto, to such a place, or from one that relies on the flag.              *)
LEMMA GotoKeeps ==
  ASSUME AllShaped, NEW c \in Calls, call[c] # None, NEW pc, Goto(c, pc),
         pc \notin Holding \/ call[c].pc \in Holding
  PROVE  Kept
<1> DEFINE r == [call[c] EXCEPT !.pc = pc]
<1>1. Shaped(call[c])
  BY DEF AllShaped
<1>2. call' = [call EXCEPT ![c] = r]
  BY DEF Goto
<1>3. Shaped(r) /\ r.pc = pc /\ r.ns = call[c].ns /\ r.overtaken = call[c].overtaken
  BY <1>1, GotoShape
<1> HIDE DEF r
<1>4. r.pc \in Holding /\ ~r.overtaken => Holds(c)
  BY <1>3 DEF Holds
<1> QED BY <1>2, <1>3, <1>4, LocalStep DEF Kept

(* The end of a goroutine.                                                  *)
LEMMA EndKeeps ==
  ASSUME AllShaped, NEW c \in Calls, call' = [call EXCEPT ![c] = None]
  PROVE  Kept
BY LocalStep DEF Kept

(* The steps of a goroutine that leave pendingScaleOut alone: they enter a  *)
(* part that relies on the flag only from a part that does.                 *)
LEMMA QuietSteps ==
  ASSUME AllShaped, NEW c \in Calls,
         \/ ComputeDemand(c) \/ CheckFit(c) \/ Poll(c) \/ SendResize(c)
         \/ Recheck(c) \/ RecheckFit(c)
  PROVE  AllShaped' /\ Quiet
<1>0. call[c] # None /\ pending' = pending
  BY DEF ComputeDemand, CheckFit, Poll, SendResize, Recheck, RecheckFit, At
<1>1. ASSUME Leave(c) PROVE Kept
  BY <1>1, ContinueKeeps DEF Leave, Leaving, Continue, Holding
<1>2. CASE ComputeDemand(c)
  BY <1>0, <1>1, <1>2, ContinueKeeps DEF ComputeDemand, Holding, Kept, Quiet
<1>3. CASE CheckFit(c)
  BY <1>0, <1>3, ContinueKeeps, GotoKeeps DEF CheckFit, Holding, Kept, Quiet
<1>4. CASE Poll(c)
  BY <1>0, <1>1, <1>4, GotoKeeps DEF Poll, At, Holding, Kept, Quiet
<1>5. CASE SendResize(c)
  BY <1>0, <1>1, <1>5 DEF SendResize, Kept, Quiet
<1>6. CASE Recheck(c)
  BY <1>0, <1>6, ContinueKeeps DEF Recheck, Holding, Kept, Quiet
<1>7. CASE RecheckFit(c)
  BY <1>0, <1>7, EndKeeps, GotoKeeps DEF RecheckFit, Holding, Kept, Quiet
<1> QED BY <1>2, <1>3, <1>4, <1>5, <1>6, <1>7

(* Steps of anything but a goroutine, and the start of a goroutine.         *)
LEMMA OutsideSteps ==
  ASSUME AllShaped, UNCHANGED <<call, pending>>
  PROVE  AllShaped' /\ Quiet
BY DEF AllShaped, Quiet, Holds

(* UpdateNs starts a goroutine that does not rely on the flag yet.          *)
LEMMA StartKeeps ==
  ASSUME AllShaped, NEW ns, NEW kinds, UpdateNs(ns, kinds)
  PROVE  AllShaped' /\ Quiet
<1>1. PICK c \in Calls, quota \in Quotas : call' = [call EXCEPT ![c] = NewCall(ns, quota, kinds)]
  BY DEF UpdateNs
<1>2. Shaped(NewCall(ns, quota, kinds)) /\ NewCall(ns, quota, kinds).pc \notin Holding
  BY DEF Shaped, NewCall, Holding
<1> QED BY <1>1, <1>2, LocalStep DEF Quiet, UpdateNs

(* beginPendingScaleOut gives the flag to c only if nobody has it.          *)
LEMMA BeginKeepsFlag ==
  ASSUME FlagInv, NEW c \in Calls, BeginPending(c)
  PROVE  FlagInv'
<1> DEFINE ns == call[c].ns
<1> USE DEF FlagInv
<1>0. call[c] # None /\ Shaped(call[c]) /\ call[c].pc = "begin"
  BY DEF BeginPending, At, AllShaped
<1>1. CASE ns \in pending
  BY <1>1, ContinueKeeps, QuietKeepsFlag
  DEF BeginPending, Leave, Leaving, Continue, Holding, Kept, Quiet
<1>2. CASE ns \notin pending
  <2>1. pending' = pending \cup {ns} /\ Goto(c, "request")
    BY <1>2 DEF BeginPending
  <2> DEFINE r == [call[c] EXCEPT !.pc = "request"]
  <2>2. Shaped(r) /\ r.ns = ns
    BY <1>0, GotoShape
  <2>3. call' = [d \in Calls |-> IF d = c THEN r ELSE call[d]]
    BY <2>1 DEF Goto, AllShaped
  <2> HIDE DEF r
  <2>4. AllShaped'
    BY <2>2, <2>3 DEF AllShaped
  <2>5. \A d \in Calls \ {c} : Holds(d)' => Holds(d) /\ call'[d].ns = call[d].ns /\ call[d].ns # ns
    BY <1>2, <2>3 DEF Holds, HolderHasFlag
  <2>6. OneHolder'
    BY <2>2, <2>3, <2>5 DEF OneHolder
  <2>7. HolderHasFlag'
    BY <2>1, <2>2, <2>3, <2>5 DEF HolderHasFlag
  <2> QED BY <2>4, <2>6, <2>7
<1> QED BY <1>1, <1>2

(* Marking a goroutine as overtaken changes nothing else of it.             *)
LEMMA OvertakenShape ==
  ASSUME NEW r, Shaped(r), NEW v
  PROVE  Shaped([r EXCEPT !.overtaken = v]) /\ [r EXCEPT !.overtaken = v].overtaken = v
BY DEF Shaped

(* clearPendingScaleOut, whoever calls it and wherever the caller goes,     *)
(* keeps the invariant: nobody is left that relies on a flag that is not    *)
(* set.                                                                     *)
LEMMA ReleaseKeepsFlag ==
  ASSUME FlagInv, NEW c \in Calls, NEW next, Release(c, next),
         next # None => Shaped(next) /\ next.pc \notin Holding
  PROVE  FlagInv'
<1> DEFINE ns == call[c].ns
           taken(d) == call[d] # None /\ call[d].ns = ns /\ call[d].pc \in Holding
           r(d) == [call[d] EXCEPT !.overtaken = TRUE]
<1> USE DEF FlagInv
<1>1. pending' = pending \ {ns}
  BY DEF Release
<1>2. call' = [d \in Calls |-> IF d = c THEN next ELSE IF taken(d) THEN r(d) ELSE call[d]]
  BY DEF Release, Overtaken
<1>3. \A d \in Calls : call[d] # None => Shaped(call[d]) /\ Shaped(r(d)) /\ r(d).overtaken = TRUE
  BY OvertakenShape, Zenon DEF AllShaped
<1> HIDE DEF r
<1>4. AllShaped'
  BY <1>2, <1>3 DEF AllShaped
<1>5. ASSUME NEW d \in Calls, Holds(d)'
      PROVE  Holds(d) /\ call'[d] = call[d] /\ call[d].ns # ns
  <2>1. d # c
    BY <1>2, <1>5 DEF Holds
  <2>2. ~taken(d)
    BY <1>2, <1>3, <1>5, <2>1 DEF Holds
  <2> QED BY <1>2, <1>5, <2>1, <2>2 DEF Holds
<1>6. OneHolder'
  BY <1>5 DEF OneHolder
<1>7. HolderHasFlag'
  BY <1>1, <1>5 DEF HolderHasFlag
<1> QED BY <1>4, <1>6, <1>7

-----------------------------------------------------------------------------
(* Every step of every goroutine and of the cluster keeps the invariant.    *)
LEMMA FlagInductive == FlagInv /\ [Next]_vars => FlagInv'
<1> SUFFICES ASSUME FlagInv, [Next]_vars PROVE FlagInv'
  OBVIOUS
<1>1. ASSUME AllShaped' /\ Quiet PROVE FlagInv'
  BY <1>1, QuietKeepsFlag DEF FlagInv
<1>2. ASSUME NEW c \in Calls, CallStep(c) PROVE FlagInv'
  <2>1. CASE ComputeDemand(c) \/ CheckFit(c) \/ Poll(c) \/ SendResize(c) \/ Recheck(c) \/ RecheckFit(c)
    BY <1>1, <2>1, QuietSteps DEF FlagInv
  <2>2. CASE BeginPending(c)
    BY <2>2, BeginKeepsFlag
  <2>3. CASE SendRequest(c)
    <3>0. call[c] # None /\ call[c].pc = "request"
      BY <2>3 DEF SendRequest, At
    <3>1. CASE Goto(c, "waiting") /\ UNCHANGED pending
      <4>1. Kept
        BY <3>0, <3>1, GotoKeeps DEF Holding, FlagInv
      <4> QED BY <1>1, <3>1, <4>1 DEF Kept, Quiet
    <3>2. CASE Release(c, Leaving(c))
      <4>1. Shaped(Leaving(c)) /\ Leaving(c).pc = "recheck"
        BY DEF Leaving, With, Shaped
      <4>2. Leaving(c).pc \notin Holding
        BY <4>1 DEF Holding
      <4> QED BY <3>2, <4>1, <4>2, ReleaseKeepsFlag
    <3> QED BY <2>3, <3>1, <3>2 DEF SendRequest
  <2>4. CASE ClearPending(c)
    <3> DEFINE next == With(c, "send", call[c].demand, FALSE)
    <3>1. Shaped(next) /\ next.pc = "send"
      BY DEF With, Shaped
    <3> HIDE DEF next
    <3>2. next.pc \notin Holding
      BY <3>1 DEF Holding
    <3>3. Release(c, next)
      BY <2>4 DEF ClearPending, next
    <3> QED BY <3>1, <3>2, <3>3, ReleaseKeepsFlag
  <2>5. CASE ReleaseFlag(c)
    BY <2>5, ReleaseKeepsFlag DEF ReleaseFlag
  <2> QED BY <1>2, <2>1, <2>2, <2>3, <2>4, <2>5 DEF CallStep
<1>3. ASSUME NEW ns \in Namespaces, NEW kinds, UpdateNs(ns, kinds) PROVE FlagInv'
  BY <1>1, <1>3, StartKeeps DEF FlagInv
<1>4. ASSUME UNCHANGED <<call, pending>> PROVE FlagInv'
  BY <1>1, <1>4, OutsideSteps DEF FlagInv
<1>5. ASSUME NEW ns \in Namespaces, PodsChange(ns) PROVE FlagInv'
  BY <1>4, <1>5 DEF PodsChange
<1>6. CASE TakeResize \/ ServeScaleOut \/ ScaleIn \/ UNCHANGED vars
  BY <1>4, <1>6 DEF TakeResize, ServeScaleOut, ScaleIn, vars
<1> QED BY <1>2, <1>3, <1>5, <1>6 DEF Next

(* No goroutine runs at the start.                                          *)
LEMMA FlagInit == Init => FlagInv
BY DEF Init, FlagInv, AllShaped, OneHolder, HolderHasFlag, Holds

(* The invariant that makes pendingScaleOut a lock holds in every behaviour *)
(* of the goroutines, whatever the quotas, the events and the API do.       *)
THEOREM FlagInvariant == Safety => []FlagInv
BY FlagInit, FlagInductive, PTL DEF Safety

(* At most one goroutine per namespace is between beginPendingScaleOut and  *)
(* clearPendingScaleOut with its flag not taken away.                       *)
THEOREM OneHolderPerNamespace == Safety => []OneHolder
<1>1. FlagInv => OneHolder
  BY DEF FlagInv
<1> QED BY <1>1, FlagInvariant, PTL

(* And the flag of such a goroutine is set, so that no other can get it.    *)
THEOREM HolderKeepsFlag == Safety => []HolderHasFlag
<1>1. FlagInv => HolderHasFlag
  BY DEF FlagInv
<1> QED BY <1>1, FlagInvariant, PTL

-----------------------------------------------------------------------------
(* Types.  What is sent to the resize worker is a quota only if the table   *)
(* of outcomes has an entry for the demand, and the demand is within its    *)
(* bound only because it is counted from pods that are within theirs.       *)
Records ==
  [ns : Namespaces, quota : Quotas, kinds : SUBSET Kinds, pc : PCs,
   demand : 0 .. MaxPods + 1, short : BOOLEAN, overtaken : BOOLEAN]
PodsWithin == \A ns \in Namespaces : used[ns] + denied[ns] <= MaxPods

TypeInv == TypeOK /\ PodsWithin /\ call \in [Calls -> Records \cup {None}]

(* The demand of some events is at most the pods of the namespace and one.  *)
LEMMA DemandIsBounded ==
  ASSUME TypeInv, NEW ns \in Namespaces, NEW kinds \in SUBSET Kinds
  PROVE  DemandOf(ns, kinds) \in 0 .. MaxPods + 1
<1> DEFINE f == [kind \in kinds |-> Lacking(ns, kind)]
           m == denied[ns]
<1>1. /\ used[ns] \in Nat /\ m \in Nat /\ MaxPods \in Nat /\ m <= MaxPods
  BY UpdateAssumption DEF TypeInv, TypeOK, PodsWithin
<1>2. kinds \in SUBSET {"FailedCreate", "FailedScheduling"}
  BY UpdateAssumption
<1>3. \A kind \in kinds : kind = "FailedCreate" \/ kind = "FailedScheduling"
  BY <1>2
<1>4. \A kind \in kinds : /\ Lacking(ns, kind) \in Nat
                          /\ kind = "FailedCreate" => Lacking(ns, kind) = m
                          /\ kind = "FailedScheduling" => Lacking(ns, kind) <= 1
  BY <1>1, <1>3 DEF Lacking
<1>5. /\ f \in [kinds -> Nat]
      /\ "FailedCreate" \in kinds => f["FailedCreate"] <= m
      /\ "FailedScheduling" \in kinds => f["FailedScheduling"] <= 1
  BY <1>1, <1>4
<1> HIDE DEF f, m
<1>6. SumFunction(f) \in Nat /\ SumFunction(f) <= m + 1
  BY <1>1, <1>2, <1>5, SumOfTwo
<1>7. DemandOf(ns, kinds) = SumFunction(f)
  BY DEF DemandOf, f
<1> QED BY <1>1, <1>6, <1>7

(* Every entry of the table is a quota.                                     *)
LEMMA OutcomeIsTyped ==
  ASSUME NEW quota \in Quotas, NEW demand \in 0 .. MaxPods + 1
  PROVE  Outcome(quota, demand).value \in Nat
<1> DEFINE target(q, n) == Desired(QuotaOf(q), Scaler, Uniform(n))
           entry(q, n) == [quota |-> q, demand |-> n, value |-> target(q, n)["limits.cpu"],
                           differs |-> DiffersFrom(target(q, n), QuotaOf(q)),
                           shrinks |-> IsScaleDown(target(q, n), QuotaOf(q))]
<1>1. ASSUME NEW q \in Quotas, NEW n \in 0 .. MaxPods + 1
      PROVE  target(q, n)["limits.cpu"] \in Nat
  <2>1. q.hard \in Nat /\ q.used \in Nat /\ n \in Nat
    BY UpdateAssumption
  <2>2. IsQuota(QuotaOf(q)) /\ Uniform(n) \in Vectors
    BY <2>1 DEF IsQuota, QuotaOf, Uniform, Vectors
  <2>3. target(q, n) \in Vectors
    BY <2>2, UpdateAssumption, DesiredProperties
  <2> QED BY <2>3, DimsAreKnown DEF Vectors
<1>2. Outcomes = {entry(p[1], p[2]) : p \in Quotas \X (0 .. MaxPods + 1)}
  BY DEF Outcomes
<1>3. \A o \in Outcomes : o.value \in Nat
  <2>1. ASSUME NEW p \in Quotas \X (0 .. MaxPods + 1)
        PROVE  entry(p[1], p[2]).value \in Nat
    <3>1. p[1] \in Quotas /\ p[2] \in 0 .. MaxPods + 1
      OBVIOUS
    <3>2. entry(p[1], p[2]).value = target(p[1], p[2])["limits.cpu"]
      OBVIOUS
    <3> HIDE DEF target, entry
    <3> QED BY <1>1, <3>1, <3>2
  <2> HIDE DEF entry
  <2> QED BY <1>2, <2>1
<1>4. \E o \in Outcomes : o.quota = quota /\ o.demand = demand
  <2>1. <<quota, demand>> \in Quotas \X (0 .. MaxPods + 1)
    OBVIOUS
  <2>2. entry(quota, demand) \in Outcomes
    <3>1. <<quota, demand>>[1] = quota /\ <<quota, demand>>[2] = demand
      OBVIOUS
    <3> HIDE DEF entry
    <3> QED BY <1>2, <2>1, <3>1
  <2>3. entry(quota, demand).quota = quota /\ entry(quota, demand).demand = demand
    OBVIOUS
  <2> HIDE DEF entry
  <2> QED BY <2>2, <2>3
<1>5. Outcome(quota, demand) \in Outcomes
  <2> HIDE DEF Outcomes
  <2> QED BY <1>4 DEF Outcome
<1> QED BY <1>3, <1>5

(* Records that a goroutine can become.                                     *)
LEMMA RecordsWith ==
  ASSUME NEW c, call[c] \in Records, NEW pc \in PCs, NEW demand \in 0 .. MaxPods + 1,
         NEW short \in BOOLEAN
  PROVE  With(c, pc, demand, short) \in Records
BY DEF Records, With

(* It goes to another step, or is overtaken.                                *)
LEMMA RecordsGoto ==
  ASSUME NEW r \in Records, NEW pc \in PCs
  PROVE  [r EXCEPT !.pc = pc] \in Records /\ [r EXCEPT !.overtaken = TRUE] \in Records
BY DEF Records

CallTypes == call \in [Calls -> Records \cup {None}]
Channels == [ns : Namespaces, value : Nat, immediate : BOOLEAN]

(* A goroutine changes itself, and marks others as overtaken.               *)
LEMMA ReleaseTypes ==
  ASSUME TypeInv, NEW c \in Calls, NEW next \in Records \cup {None}, Release(c, next)
  PROVE  CallTypes' /\ pending' \subseteq Namespaces
<1>1. \A d \in Calls : Overtaken(call[c].ns)[d] \in Records \cup {None}
  <2>1. ASSUME NEW d \in Calls
        PROVE  Overtaken(call[c].ns)[d] \in {call[d], [call[d] EXCEPT !.overtaken = TRUE]}
                 /\ (call[d] = None => Overtaken(call[c].ns)[d] = None)
    BY DEF Overtaken
  <2>2. \A d \in Calls : call[d] \in Records => [call[d] EXCEPT !.overtaken = TRUE] \in Records
    BY DEF Records
  <2> QED BY <2>1, <2>2 DEF TypeInv
<1>2. call' = [d \in Calls |-> IF d = c THEN next ELSE Overtaken(call[c].ns)[d]]
  BY DEF Release, Overtaken
<1>3. pending' \subseteq Namespaces
  BY DEF Release, TypeInv, TypeOK
<1> QED BY <1>1, <1>2, <1>3 DEF CallTypes

(* A goroutine changes itself alone.                                        *)
LEMMA LocalTypes ==
  ASSUME TypeInv, NEW c \in Calls, NEW r \in Records \cup {None}, call' = [call EXCEPT ![c] = r]
  PROVE  CallTypes'
BY DEF TypeInv, CallTypes

(* The record of a goroutine that takes a step.                             *)
LEMMA CallerIsTyped ==
  ASSUME TypeInv, NEW c \in Calls, call[c] # None
  PROVE  /\ call[c] \in Records
         /\ call[c].ns \in Namespaces /\ call[c].quota \in Quotas /\ call[c].kinds \in SUBSET Kinds
         /\ call[c].demand \in 0 .. MaxPods + 1
         /\ 0 \in 0 .. MaxPods + 1
<1>1. call[c] \in Records
  BY DEF TypeInv
<1>2. 0 \in 0 .. MaxPods + 1
  BY UpdateAssumption
<1> QED BY <1>1, <1>2 DEF Records

(* Where Continue, Leave, Goto and the end of a goroutine take it.          *)
LEMMA MovesAreTyped ==
  ASSUME TypeInv, NEW c \in Calls, call[c] # None
  PROVE  /\ \A pc \in PCs, demand \in 0 .. MaxPods + 1 :
              Continue(c, pc, demand, TRUE) \/ Continue(c, pc, demand, FALSE) => CallTypes'
         /\ \A pc \in PCs : Goto(c, pc) => CallTypes'
         /\ Leave(c) => CallTypes'
         /\ Leaving(c) \in Records
         /\ call' = [call EXCEPT ![c] = None] => CallTypes'
<1>1. call[c] \in Records /\ 0 \in 0 .. MaxPods + 1
  BY CallerIsTyped
<1>2. ASSUME NEW pc \in PCs, NEW demand \in 0 .. MaxPods + 1, NEW short \in BOOLEAN,
             Continue(c, pc, demand, short)
      PROVE  CallTypes'
  <2>1. With(c, pc, demand, short) \in Records
    BY <1>1, RecordsWith
  <2> QED BY <1>2, <2>1, LocalTypes DEF Continue
<1>3. ASSUME NEW pc \in PCs, Goto(c, pc) PROVE CallTypes'
  <2>1. [call[c] EXCEPT !.pc = pc] \in Records
    BY <1>1, RecordsGoto
  <2>2. call' = [call EXCEPT ![c] = [call[c] EXCEPT !.pc = pc]]
    BY <1>3 DEF Goto
  <2> QED BY <2>1, <2>2, LocalTypes
<1>4. Leaving(c) \in Records
  <2>1. "recheck" \in PCs
    BY DEF PCs
  <2>2. \A short \in BOOLEAN : With(c, "recheck", 0, short) \in Records
    BY <1>1, <2>1, RecordsWith
  <2> HIDE DEF With
  <2> QED BY <2>2, Zenon DEF Leaving
<1>5. Leave(c) => CallTypes'
  BY <1>4, LocalTypes DEF Leave
<1>6. call' = [call EXCEPT ![c] = None] => CallTypes'
  BY LocalTypes
<1>7. \A pc \in PCs, demand \in 0 .. MaxPods + 1 :
        Continue(c, pc, demand, TRUE) \/ Continue(c, pc, demand, FALSE) => CallTypes'
  <2> HIDE DEF Continue, CallTypes
  <2> QED BY <1>2, Zenon
<1> QED BY <1>3, <1>4, <1>5, <1>6, <1>7

(* A step of a goroutine.                                                   *)
LEMMA CallStepTypes ==
  ASSUME TypeInv, NEW c \in Calls, CallStep(c)
  PROVE  /\ CallTypes' /\ pending' \subseteq Namespaces /\ outQ' \in 0 .. QueueCap
         /\ channel' \in Channels \cup {None} /\ UNCHANGED cluster
<1>1. call[c] # None
  BY DEF CallStep, ComputeDemand, CheckFit, BeginPending, SendRequest, Poll, ClearPending,
         SendResize, Recheck, RecheckFit, ReleaseFlag, At
<1>2. /\ call[c] \in Records /\ call[c].ns \in Namespaces /\ call[c].quota \in Quotas
      /\ call[c].kinds \in SUBSET Kinds /\ call[c].demand \in 0 .. MaxPods + 1
  BY <1>1, CallerIsTyped
<1>3. /\ pending \subseteq Namespaces /\ outQ \in 0 .. QueueCap /\ channel \in Channels \cup {None}
  BY DEF TypeInv, TypeOK, Channels
<1>4. \A kinds \in Readable(call[c].kinds) : DemandOf(call[c].ns, kinds) \in 0 .. MaxPods + 1
  <2>1. Readable(call[c].kinds) \subseteq SUBSET Kinds
    BY <1>2 DEF Readable
  <2> QED BY <1>2, <2>1, DemandIsBounded
<1>5. {"demand", "fit", "begin", "request", "waiting", "clear", "send", "recheck", "recheckFit",
       "release"} \subseteq PCs
  BY DEF PCs
<1>6. /\ \A pc \in PCs, demand \in 0 .. MaxPods + 1 :
           Continue(c, pc, demand, TRUE) \/ Continue(c, pc, demand, FALSE) => CallTypes'
      /\ \A pc \in PCs : Goto(c, pc) => CallTypes'
      /\ Leave(c) => CallTypes'
      /\ Leaving(c) \in Records
      /\ call' = [call EXCEPT ![c] = None] => CallTypes'
  BY <1>1, MovesAreTyped
<1>7. ASSUME NEW next \in Records \cup {None}, Release(c, next)
      PROVE  CallTypes' /\ pending' \subseteq Namespaces
  BY <1>7, ReleaseTypes
<1>8. CASE ComputeDemand(c)
  BY <1>3, <1>4, <1>5, <1>6, <1>8 DEF ComputeDemand
<1>9. CASE CheckFit(c)
  BY <1>2, <1>3, <1>5, <1>6, <1>9 DEF CheckFit
<1>10. CASE BeginPending(c)
  BY <1>2, <1>3, <1>5, <1>6, <1>10 DEF BeginPending
<1>11. CASE SendRequest(c)
  BY <1>3, <1>5, <1>6, <1>7, <1>11, UpdateAssumption DEF SendRequest
<1>12. CASE Poll(c)
  BY <1>3, <1>5, <1>6, <1>12 DEF Poll
<1>13. CASE ClearPending(c)
  <2>1. With(c, "send", call[c].demand, FALSE) \in Records
    <3>1. \A short \in BOOLEAN : With(c, "send", call[c].demand, short) \in Records
      BY <1>2, <1>5, RecordsWith
    <3> QED BY <3>1, Zenon
  <2> QED BY <1>3, <1>7, <1>13, <2>1 DEF ClearPending
<1>14. CASE SendResize(c)
  <2> DEFINE outcome == Outcome(call[c].quota, call[c].demand)
             now == call[c].demand # 0
  <2>1. outcome.value \in Nat
    BY <1>2, OutcomeIsTyped
  <2>2. \/ channel' = [ns |-> call[c].ns, value |-> outcome.value, immediate |-> now]
        \/ channel' = channel
    BY <1>14 DEF SendResize
  <2>3. now \in BOOLEAN
    OBVIOUS
  <2> HIDE DEF outcome, now
  <2>4. \A b \in BOOLEAN : [ns |-> call[c].ns, value |-> outcome.value, immediate |-> b] \in Channels
    BY <1>2, <2>1 DEF Channels
  <2>5. channel' \in Channels \cup {None}
    <3>1. CASE channel' = [ns |-> call[c].ns, value |-> outcome.value, immediate |-> now]
      BY <2>3, <2>4, <3>1, Zenon
    <3> QED BY <1>3, <2>2, <3>1
  <2> QED BY <1>3, <1>6, <1>14, <2>5 DEF SendResize
<1>15. CASE Recheck(c)
  BY <1>3, <1>4, <1>5, <1>6, <1>15 DEF Recheck
<1>16. CASE RecheckFit(c)
  BY <1>3, <1>5, <1>6, <1>16 DEF RecheckFit
<1>17. CASE ReleaseFlag(c)
  BY <1>3, <1>7, <1>17 DEF ReleaseFlag
<1> QED BY <1>8, <1>9, <1>10, <1>11, <1>12, <1>13, <1>14, <1>15, <1>16, <1>17 DEF CallStep

(* The start of a goroutine.                                                *)
LEMMA StartTypes ==
  ASSUME TypeInv, NEW ns \in Namespaces, NEW kinds \in SUBSET Kinds, UpdateNs(ns, kinds)
  PROVE  CallTypes'
<1>1. PICK c \in Calls, quota \in Quotas : call' = [call EXCEPT ![c] = NewCall(ns, quota, kinds)]
  BY DEF UpdateNs
<1>2. 0 \in 0 .. MaxPods + 1 /\ "demand" \in PCs
  BY UpdateAssumption DEF PCs
<1>3. NewCall(ns, quota, kinds) \in Records
  BY <1>2 DEF NewCall, Records
<1> QED BY <1>1, <1>3, LocalTypes

(* Every step keeps the types and the bounds.                               *)
LEMMA TypeInductive == TypeInv /\ [Next]_vars => TypeInv'
<1> SUFFICES ASSUME TypeInv, [Next]_vars PROVE TypeInv'
  OBVIOUS
<1>1. Records \subseteq CallRecords
  BY UpdateAssumption DEF Records, CallRecords
<1>2. /\ used \in [Namespaces -> Nat] /\ denied \in [Namespaces -> Nat] /\ workers \in Nat
      /\ PodsWithin /\ CallTypes /\ pending \subseteq Namespaces /\ outQ \in 0 .. QueueCap
      /\ channel \in Channels \cup {None}
  BY DEF TypeInv, TypeOK, CallTypes, Channels
<1>3. /\ used' \in [Namespaces -> Nat] /\ denied' \in [Namespaces -> Nat] /\ workers' \in Nat
      /\ PodsWithin' /\ CallTypes' /\ pending' \subseteq Namespaces /\ outQ' \in 0 .. QueueCap
      /\ channel' \in Channels \cup {None}
  <2>1. CASE \E c \in Calls : CallStep(c)
    BY <1>2, <2>1, CallStepTypes DEF cluster, PodsWithin
  <2>2. CASE \E ns \in Namespaces : \E kinds \in SUBSET Kinds : UpdateNs(ns, kinds)
    <3>1. CallTypes'
      BY <2>2, StartTypes
    <3> QED BY <1>2, <2>2, <3>1 DEF UpdateNs, cluster, PodsWithin
  <2>3. ASSUME NEW ns \in Namespaces, PodsChange(ns)
        PROVE  /\ used' \in [Namespaces -> Nat] /\ denied' \in [Namespaces -> Nat]
               /\ PodsWithin' /\ UNCHANGED <<workers, call, pending, outQ, channel>>
    <3>1. used[ns] \in Nat /\ denied[ns] \in Nat /\ MaxPods \in Nat
      BY <1>2, UpdateAssumption
    <3>2. \/ used[ns] + denied[ns] < MaxPods /\ denied' = [denied EXCEPT ![ns] = @ + 1] /\ used' = used
          \/ /\ denied[ns] > 0
             /\ denied' = [denied EXCEPT ![ns] = @ - 1]
             /\ used' = [used EXCEPT ![ns] = @ + 1]
          \/ used[ns] > 0 /\ used' = [used EXCEPT ![ns] = @ - 1] /\ denied' = denied
      BY <2>3 DEF PodsChange
    <3>3. used' \in [Namespaces -> Nat] /\ denied' \in [Namespaces -> Nat]
      BY <1>2, <3>1, <3>2
    <3>4. used'[ns] + denied'[ns] <= MaxPods
      BY <1>2, <3>1, <3>2 DEF PodsWithin
    <3>5. \A m \in Namespaces : m # ns => used'[m] = used[m] /\ denied'[m] = denied[m]
      BY <1>2, <3>2
    <3> QED BY <1>2, <2>3, <3>3, <3>4, <3>5 DEF PodsChange, PodsWithin
  <2>4. CASE TakeResize
    BY <1>2, <2>4 DEF TakeResize, cluster, CallTypes, PodsWithin
  <2>5. CASE ServeScaleOut
    <3>1. workers' \in Nat
      BY <1>2, <2>5, UpdateAssumption DEF ServeScaleOut, Least
    <3>2. outQ' \in 0 .. QueueCap
      BY <1>2, <2>5, UpdateAssumption DEF ServeScaleOut
    <3> QED BY <1>2, <2>5, <3>1, <3>2 DEF ServeScaleOut, CallTypes, PodsWithin
  <2>6. CASE ScaleIn
    <3>1. AllPods \in Nat
      BY <1>2, UpdateAssumption, SumProperties DEF AllPods
    <3>2. workers > 0 /\ workers' = workers - 1
      BY <1>2, <2>6, <3>1 DEF ScaleIn, Free, Greatest
    <3> QED BY <1>2, <2>6, <3>2 DEF ScaleIn, CallTypes, PodsWithin
  <2>7. CASE UNCHANGED vars
    BY <1>2, <2>7 DEF vars, CallTypes, PodsWithin
  <2>8. ASSUME NEW ns \in Namespaces, PodsChange(ns)
        PROVE  CallTypes' /\ workers' = workers /\ pending' = pending /\ outQ' = outQ /\ channel' = channel
    BY <1>2, <2>3, <2>8 DEF CallTypes
  <2> QED BY <1>2, <2>1, <2>2, <2>3, <2>4, <2>5, <2>6, <2>7, <2>8 DEF Next
<1> QED BY <1>1, <1>3 DEF TypeInv, TypeOK, CallTypes, Channels

(* They hold at the start.                                                  *)
LEMMA TypeInit == Init => TypeInv
<1> SUFFICES ASSUME Init PROVE TypeInv
  OBVIOUS
<1>1. /\ used \in [Namespaces -> Nat] /\ denied \in [Namespaces -> Nat] /\ workers \in Nat /\ PodsWithin
  BY UpdateAssumption DEF Init, PodsWithin
<1>2. pending \subseteq Namespaces /\ outQ \in 0 .. QueueCap /\ channel = None
  BY UpdateAssumption DEF Init
<1>3. call = [c \in Calls |-> None]
  BY DEF Init
<1> QED BY <1>1, <1>2, <1>3 DEF TypeInv, TypeOK

(* The goroutines, the flag, the queue and the channel keep their types:    *)
(* every request that the resize worker is handed is a quota, and the queue *)
(* of the node scaling controller never holds more than its capacity.       *)
THEOREM UpdateTypes == Safety => []TypeOK
<1>1. TypeInv => TypeOK
  BY DEF TypeInv
<1> QED BY <1>1, TypeInit, TypeInductive, PTL DEF Safety
=============================================================================
