-------------------------- MODULE GitRuntimeProofs --------------------------
(***************************************************************************)
(* Theorems about the clone of the manifest repository, for any bounds on  *)
(* the number of nodes, any counts, any other writers and any faults.      *)
(***************************************************************************)
EXTENDS GitRuntime, TLAPS

(* A clone with nothing of its own that has the last commit of the branch   *)
(* has its count.                                                           *)
Based(c) == c # None /\ c.current /\ ~c.ahead => c.head = branch.replicas

(* What is left to publish was computed from the count in the last commit   *)
(* the clone shares with the branch, unless something was left behind.      *)
InCommit ==
  pc = "commit" =>
    /\ clone.tree # None
    /\ ~leftovers => /\ ~clone.ahead /\ clone.head # None
                     /\ clone.tree = Contract!Target(request, clone.head)
InPush ==
  pc = "push" =>
    /\ clone.head # None /\ clone.tree = clone.head
    /\ clone.current = previousHead.current
    /\ ~leftovers => /\ ~previousHead.ahead /\ previousHead.head # None
                     /\ clone.head = Contract!Target(request, previousHead.head)
PushInv ==
  /\ TypeOK
  /\ Based(clone)
  /\ pc \in {"push", "reset"} => Based(previousHead)
  /\ pc = "push" => clone.ahead
  /\ InCommit /\ InPush

-----------------------------------------------------------------------------
(* The count a request aims at is one.                                      *)
LEMMA TargetType ==
  ASSUME NEW r \in Contract!Requests, NEW n \in Nat
  PROVE  Contract!Target(r, n) \in Nat
<1>1. r.count \in Nat /\ r.kind \in {"baseline", "raise", "lower"}
  <2>1. CASE r = Contract!Baseline
    BY <2>1 DEF Contract!Baseline
  <2>2. CASE r \in [kind : {"raise", "lower"}, count : Counts]
    <3>1. r.kind \in {"raise", "lower"} /\ r.count \in Counts
      BY <2>2
    <3> QED BY <3>1, GitAssumption
  <2> QED BY <2>1, <2>2 DEF Contract!Requests
<1>2. CASE r.kind = "baseline"
  BY <1>2, GitAssumption DEF Contract!Target
<1>3. CASE r.kind = "raise"
  BY <1>1, <1>3, GitAssumption DEF Contract!Target
<1>4. CASE r.kind = "lower"
  BY <1>1, <1>4, GitAssumption DEF Contract!Target
<1> QED BY <1>1, <1>2, <1>3, <1>4

(* None is not a clone.                                                     *)
LEMMA CloneIsSome ==
  ASSUME NEW c \in Clones
  PROVE  c # None
BY GitAssumption

(* The last commit of the branch, checked out.                              *)
LEMMA CheckoutType ==
  ASSUME branch \in Contract!Commits
  PROVE  Checkout \in Clones /\ Clean(Checkout) /\ Based(Checkout)
BY DEF Checkout, Clones, Clean, Based, Contract!Commits, Contract!Contents

(* However SyncRepo goes, it changes only the clone, to one that is based   *)
(* on the branch if it says so, and one that was clean stays clean.         *)
LEMMA SyncKeeps ==
  ASSUME TypeOK, Based(clone), Synchronised \/ NotSynchronised, branch' = branch
  PROVE  /\ clone' \in Clones \cup {None} /\ skipNextPull' \in BOOLEAN
         /\ Based(clone)'
         /\ Synchronised => clone' # None
         /\ NothingLeftBehind => NothingLeftBehind'
<1>1. Checkout \in Clones /\ Clean(Checkout) /\ Based(Checkout) /\ Checkout # None
  BY CheckoutType, CloneIsSome DEF TypeOK
<1>2. clone # None => HeadMoved \in Clones /\ Based(HeadMoved) /\ HeadMoved # None
  BY CloneIsSome DEF HeadMoved, Clones, Based, TypeOK, Contract!Commits, Contract!Contents
<1>3. CASE CloneRepo \/ SkipPull \/ PullRepo
  BY <1>1, <1>3 DEF CloneRepo, SkipPull, PullRepo, Based, NothingLeftBehind, TypeOK, Checkout, Clean
<1>4. CASE PullFails
  BY <1>2, <1>4 DEF PullFails, Based, NothingLeftBehind, TypeOK, HeadMoved, Clean
<1>5. CASE UNCHANGED <<clone, skipNextPull>> /\ clone = None
  BY <1>1, <1>5 DEF Based, NothingLeftBehind, TypeOK, Synchronised, CloneRepo, SkipPull, PullRepo, PullFails
<1> QED BY <1>3, <1>4, <1>5 DEF Synchronised, NotSynchronised

(* The clone in the middle of CommitAndPush, one field at a time.           *)
LEMMA CloneFields ==
  ASSUME TypeOK, pc \in {"write", "commit", "push", "reset"}
  PROVE  /\ clone \in Clones /\ clone # None
         /\ clone.current \in BOOLEAN /\ clone.ahead \in BOOLEAN
         /\ clone.head \in Nat \cup {None} /\ clone.tree \in Nat \cup {None}
BY DEF TypeOK, Clones

(* The clone before the commit, likewise.                                   *)
LEMMA PreviousFields ==
  ASSUME TypeOK, pc \in {"push", "reset"}
  PROVE  /\ previousHead \in Clones /\ previousHead # None
         /\ previousHead.current \in BOOLEAN /\ previousHead.ahead \in BOOLEAN
         /\ previousHead.head \in Nat \cup {None} /\ previousHead.tree \in Nat \cup {None}
BY DEF TypeOK, Clones

(* Start and SyncRepo leave everything to SyncKeeps.                        *)
LEMMA SyncSteps ==
  ASSUME PushInv, Start \/ SyncRepo
  PROVE  PushInv'
<1>1. /\ TypeOK /\ Based(clone) /\ branch' = branch
      /\ Synchronised \/ NotSynchronised
      /\ pc' \in {"sync", "write", "idle"} /\ (pc' = "write" => Synchronised)
      /\ request' \in Contract!Requests
      /\ UNCHANGED <<previousHead, leftovers, faults>>
  BY DEF Start, SyncRepo, PushInv, TypeOK, Contract!Requests
<1>2. /\ clone' \in Clones \cup {None} /\ skipNextPull' \in BOOLEAN /\ Based(clone)'
      /\ Synchronised => clone' # None
  BY <1>1, SyncKeeps
<1>3. TypeOK'
  BY <1>1, <1>2 DEF TypeOK, PCs
<1> QED BY <1>1, <1>2, <1>3 DEF PushInv, InCommit, InPush

(* Reading the count and writing the new one.                               *)
LEMMA WriteStep ==
  ASSUME PushInv, WriteReplicas
  PROVE  PushInv'
<1> DEFINE target == Contract!Target(request, clone.tree)
<1>1. TypeOK /\ pc = "write" /\ UNCHANGED <<branch, skipNextPull, request, previousHead>>
  BY DEF WriteReplicas, PushInv
<1>2. leftovers' \in BOOLEAN /\ leftovers' = ~Clean(clone)
  BY DEF WriteReplicas, Clean
<1>3. clone.tree # None => target \in Nat
  BY <1>1, CloneFields, TargetType DEF TypeOK
<1> HIDE DEF target
<1>4. CASE pc' = "idle" /\ UNCHANGED <<clone, faults>>
  BY <1>1, <1>2, <1>4 DEF PushInv, TypeOK, PCs, Based, InCommit, InPush
<1>5. ASSUME clone.tree # None, NEW value \in Nat \cup {None}, clone' = [clone EXCEPT !.tree = value],
             \/ pc' = "commit" /\ value = target /\ UNCHANGED faults
             \/ pc' = "idle" /\ Fault
      PROVE  PushInv'
  <2>1. /\ clone' \in Clones /\ clone' # None /\ clone'.tree = value
        /\ clone'.current = clone.current /\ clone'.ahead = clone.ahead /\ clone'.head = clone.head
    BY <1>1, <1>5, CloneFields, CloneIsSome DEF Clones
  <2>2. TypeOK'
    BY <1>1, <1>2, <1>5, <2>1, GitAssumption DEF TypeOK, PCs, Fault
  <2>3. Based(clone)'
    BY <1>1, <2>1, CloneFields DEF PushInv, Based
  <2>4. pc' = "commit" => clone'.tree # None
    BY <1>3, <1>5, <2>1, GitAssumption
  <2>5. pc' = "commit" /\ ~leftovers' =>
          ~clone.ahead /\ clone.head = clone.tree /\ clone'.tree = Contract!Target(request, clone.head)
    BY <1>2, <1>5, <2>1 DEF Clean, target
  <2>6. InCommit'
    BY <1>1, <1>5, <2>1, <2>4, <2>5 DEF InCommit
  <2> QED BY <1>5, <2>2, <2>3, <2>6 DEF PushInv, InPush
<1>6. CASE clone.tree # None /\ clone' = [clone EXCEPT !.tree = target] /\ pc' = "commit" /\ UNCHANGED faults
  BY <1>3, <1>5, <1>6
<1>7. CASE clone.tree # None /\ Fault /\ pc' = "idle" /\ clone' = clone
  BY <1>1, <1>2, <1>7, GitAssumption DEF PushInv, TypeOK, PCs, Based, InCommit, InPush, Fault
<1>8. CASE clone.tree # None /\ Fault /\ pc' = "idle" /\ clone' = [clone EXCEPT !.tree = None]
  BY <1>5, <1>8
<1> QED BY <1>4, <1>6, <1>7, <1>8 DEF WriteReplicas, target

(* Committing.                                                              *)
LEMMA CommitStep ==
  ASSUME PushInv, Commit
  PROVE  PushInv'
<1>1. TypeOK /\ pc = "commit" /\ UNCHANGED <<branch, skipNextPull, request, leftovers>>
  BY DEF Commit, PushInv
<1>2. CASE Fault /\ pc' = "idle" /\ UNCHANGED <<clone, previousHead>>
  BY <1>1, <1>2, GitAssumption DEF PushInv, TypeOK, PCs, Based, InCommit, InPush, Fault
<1>3. ASSUME previousHead' = clone, pc' = "push", UNCHANGED faults,
             clone' = [current |-> clone.current, ahead |-> TRUE, head |-> clone.tree, tree |-> clone.tree]
      PROVE  PushInv'
  <2>1. clone' \in Clones /\ clone' # None
    BY <1>1, <1>3, CloneFields, CloneIsSome DEF Clones
  <2>2. TypeOK'
    BY <1>1, <1>3, <2>1, CloneFields DEF TypeOK, PCs
  <2>3. clone'.ahead /\ Based(clone)'
    BY <1>3 DEF Based
  <2>4. Based(previousHead)'
    BY <1>1, <1>3 DEF Based, PushInv
  <2>5. InPush'
    BY <1>1, <1>3 DEF PushInv, InPush, InCommit
  <2> QED BY <1>3, <2>2, <2>3, <2>4, <2>5 DEF PushInv, InCommit
<1> QED BY <1>2, <1>3 DEF Commit

(* Pushing.                                                                 *)
LEMMA PushStep ==
  ASSUME PushInv, Push
  PROVE  PushInv'
<1>1. /\ TypeOK /\ pc = "push" /\ Based(previousHead)
      /\ UNCHANGED <<skipNextPull, request, leftovers, faults>>
  BY DEF Push, PushInv
<1>2. CASE pc' = "reset" /\ UNCHANGED <<branch, clone, previousHead>>
  BY <1>1, <1>2 DEF PushInv, TypeOK, PCs, Based, InCommit, InPush
<1>3. ASSUME Publish,
             clone' = [current |-> TRUE, ahead |-> FALSE, head |-> clone.head, tree |-> clone.tree],
             \/ pc' = "idle" /\ UNCHANGED previousHead
             \/ /\ pc' = "reset"
                /\ previousHead' = [current |-> FALSE, ahead |-> FALSE,
                                    head |-> previousHead.head, tree |-> previousHead.tree]
      PROVE  PushInv'
  <2>1. branch' \in Contract!Commits /\ branch'.replicas = clone.head
    BY <1>1, <1>3, CloneFields DEF Publish, Contract!Commits, Contract!Contents
  <2>2. clone' \in Clones /\ clone' # None /\ Based(clone)'
    BY <1>1, <1>3, <2>1, CloneFields, CloneIsSome DEF Clones, Based
  <2>3. previousHead' \in Clones /\ previousHead' # None /\ (pc' = "reset" => Based(previousHead)')
    <3>1. CASE pc' = "idle" /\ UNCHANGED previousHead
      BY <1>1, <3>1, PreviousFields
    <3>2. CASE /\ pc' = "reset"
               /\ previousHead' = [current |-> FALSE, ahead |-> FALSE,
                                   head |-> previousHead.head, tree |-> previousHead.tree]
      <4>1. previousHead' \in Clones /\ ~previousHead'.current
        BY <1>1, <3>2, PreviousFields DEF Clones
      <4> QED BY <4>1, CloneIsSome DEF Based
    <3> QED BY <1>3, <3>1, <3>2
  <2>4. TypeOK'
    BY <1>1, <1>3, <2>1, <2>2, <2>3 DEF TypeOK, PCs
  <2> QED BY <1>3, <2>2, <2>3, <2>4 DEF PushInv, InCommit, InPush
<1> QED BY <1>2, <1>3 DEF Push

(* Undoing.                                                                 *)
LEMMA ResetStep ==
  ASSUME PushInv, ResetHard
  PROVE  PushInv'
<1>1. /\ TypeOK /\ pc = "reset" /\ pc' = "idle" /\ Based(previousHead)
      /\ UNCHANGED <<branch, skipNextPull, request, previousHead, leftovers>>
  BY DEF ResetHard, PushInv
<1>2. CASE Fault /\ UNCHANGED clone
  BY <1>1, <1>2, GitAssumption DEF PushInv, TypeOK, PCs, Based, InCommit, InPush, Fault
<1>3. CASE /\ clone' = [current |-> previousHead.current, ahead |-> previousHead.ahead,
                        head |-> previousHead.head, tree |-> previousHead.head]
           /\ UNCHANGED faults
  <2>1. clone' \in Clones /\ Based(clone)'
    BY <1>1, <1>3, PreviousFields DEF Clones, Based
  <2> QED BY <1>1, <1>3, <2>1 DEF PushInv, TypeOK, PCs, InCommit, InPush
<1> QED BY <1>2, <1>3 DEF ResetHard

(* A reconciliation begins, or the process dies.                            *)
LEMMA ControlSteps ==
  ASSUME PushInv, Reconcile \/ Crash
  PROVE  PushInv'
<1>1. CASE Reconcile
  <2>1. request' \in Contract!Requests
    BY <1>1 DEF Reconcile, Contract!Requests
  <2> QED BY <1>1, <2>1 DEF Reconcile, PushInv, TypeOK, PCs, Based, InCommit, InPush
<1>2. CASE Crash
  <2>1. request' \in Contract!Requests
    BY <1>2 DEF Crash, Contract!Requests
  <2>2. faults' \in 0 .. MaxFaults
    BY <1>2, GitAssumption DEF Crash, Fault, PushInv, TypeOK
  <2>3. TypeOK'
    BY <1>2, <2>1, <2>2 DEF Crash, PushInv, TypeOK, PCs
  <2>4. Based(clone)'
    BY <1>2 DEF Crash, PushInv, Based
  <2> QED BY <1>2, <2>3, <2>4 DEF Crash, PushInv, InCommit, InPush
<1> QED BY <1>1, <1>2

(* Another commit leaves what a clone holds and takes away that it is level.*)
LEMMA BehindFields ==
  ASSUME NEW c \in Clones
  PROVE  /\ Behind(c) \in Clones /\ Behind(c) # None /\ ~Behind(c).current
         /\ Behind(c).ahead = c.ahead /\ Behind(c).head = c.head /\ Behind(c).tree = c.tree
BY CloneIsSome DEF Behind, Clones

(* Where there is no clone, there is still none.                            *)
LEMMA BehindNone == Behind(None) = None
BY DEF Behind

(* Another writer.                                                          *)
LEMMA OthersStep ==
  ASSUME PushInv, OthersCommit
  PROVE  PushInv'
<1>1. TypeOK /\ UNCHANGED <<skipNextPull, pc, request, leftovers, faults>>
      /\ clone' = Behind(clone) /\ previousHead' = Behind(previousHead)
  BY DEF OthersCommit, PushInv
<1>2. branch' \in Contract!Commits
  BY GitAssumption DEF OthersCommit, Contract!Commits, Contract!Contents
<1>3. ASSUME NEW c \in Clones \cup {None}
      PROVE  Behind(c) \in Clones \cup {None} /\ (c # None => Behind(c) # None /\ ~Behind(c).current)
  BY BehindFields DEF Behind
<1> HIDE DEF Behind
<1>4. clone \in Clones \cup {None} /\ previousHead \in Clones \cup {None}
  BY <1>1 DEF TypeOK
<1>5. /\ clone' \in Clones \cup {None} /\ (clone # None => clone' # None)
      /\ clone' # None => ~clone'.current
  BY <1>1, <1>3, <1>4, BehindNone
<1>6. /\ previousHead' \in Clones \cup {None} /\ (previousHead # None => previousHead' # None)
      /\ previousHead' # None => ~previousHead'.current
  BY <1>1, <1>3, <1>4, BehindNone
<1>7. TypeOK'
  BY <1>1, <1>2, <1>5, <1>6 DEF TypeOK
<1>8. Based(clone)' /\ Based(previousHead)'
  BY <1>5, <1>6 DEF Based
<1>9. CASE pc = "commit"
  <2>1. /\ clone'.ahead = clone.ahead /\ clone'.head = clone.head /\ clone'.tree = clone.tree
    BY <1>1, <1>9, CloneFields, BehindFields
  <2> QED BY <1>1, <1>7, <1>8, <1>9, <2>1 DEF PushInv, InCommit, InPush
<1>10. CASE pc = "push"
  <2>1. /\ clone'.ahead = clone.ahead /\ clone'.head = clone.head /\ clone'.tree = clone.tree
        /\ ~clone'.current
    BY <1>1, <1>10, CloneFields, BehindFields
  <2>2. /\ previousHead'.ahead = previousHead.ahead /\ previousHead'.head = previousHead.head
        /\ ~previousHead'.current
    BY <1>1, <1>10, PreviousFields, BehindFields
  <2>3. clone'.current = previousHead'.current
    <3>1. clone'.current \in BOOLEAN /\ previousHead'.current \in BOOLEAN
      BY <1>5, <1>6, <1>7, <1>10, <1>1 DEF Clones, TypeOK
    <3> QED BY <2>1, <2>2, <3>1
  <2> QED BY <1>1, <1>7, <1>8, <1>10, <2>1, <2>2, <2>3 DEF PushInv, InCommit, InPush
<1> QED BY <1>1, <1>7, <1>8, <1>9, <1>10 DEF PushInv, InCommit, InPush

-----------------------------------------------------------------------------
(* The invariant is inductive.                                              *)
LEMMA PushInductive == PushInv /\ [Next]_vars => PushInv'
<1> SUFFICES ASSUME PushInv, [Next]_vars PROVE PushInv'
  OBVIOUS
<1>1. CASE UNCHANGED vars
  BY <1>1 DEF vars, PushInv, TypeOK, Based, InCommit, InPush
<1> QED
  BY <1>1, SyncSteps, WriteStep, CommitStep, PushStep, ResetStep, ControlSteps, OthersStep DEF Next, Step

(* There is no clone at the start.                                          *)
LEMMA PushInit == Init => PushInv
<1> SUFFICES ASSUME Init PROVE PushInv
  OBVIOUS
<1>1. branch \in Contract!Commits
  BY GitAssumption DEF Init, Contract!Commits, Contract!Contents
<1>2. request \in Contract!Requests
  BY DEF Init, Contract!Requests
<1>3. faults \in 0 .. MaxFaults
  BY GitAssumption DEF Init
<1> QED BY <1>1, <1>2, <1>3 DEF Init, PushInv, TypeOK, PCs, Based, InCommit, InPush

(* What is pushed was computed from the count it replaces, in every         *)
(* behaviour: the invariant that the refinement below rests on.             *)
THEOREM PushInvariant == Safety => []PushInv
BY PushInit, PushInductive, PTL DEF Safety

(* Every variable stays in its type, and the clone exists while it is used. *)
THEOREM GitTypeCorrect == Safety => []TypeOK
<1>1. PushInv => TypeOK
  BY DEF PushInv
<1> QED BY <1>1, PushInvariant, PTL

-----------------------------------------------------------------------------
(* The step of the manifest that a step of the runtime is: none, except for *)
(* an accepted push and another writer's commit.                            *)
LEMMA StepRefines ==
  ASSUME PushInv, [Next]_vars
  PROVE  [Contract!ManifestNext]_Contract!manifestVars
<1> DEFINE trusted == IF pc \in {"commit", "push", "reset"} THEN ~leftovers ELSE NothingLeftBehind
<1>1. trusted' \in BOOLEAN /\ request' \in Contract!Requests
  <2>1. TypeOK'
    BY PushInductive DEF PushInv
  <2> QED BY <2>1 DEF NothingLeftBehind, TypeOK
<1>2. CASE UNCHANGED branch
  BY <1>1, <1>2 DEF Contract!ManifestNext, Contract!Unseen
<1>3. CASE OthersCommit
  <2>1. branch' \in Contract!Commits /\ branch'.by = "other" /\ UNCHANGED request
    BY <1>3, GitAssumption DEF OthersCommit, Contract!Commits, Contract!Contents
  <2>2. NothingLeftBehind' = NothingLeftBehind
    <3>1. clone' = Behind(clone) /\ clone \in Clones \cup {None}
      BY <1>3 DEF OthersCommit, PushInv, TypeOK
    <3>2. CASE clone = None
      BY <3>1, <3>2, BehindNone DEF NothingLeftBehind
    <3>3. CASE clone # None
      <4>1. /\ clone' # None /\ clone # None
            /\ clone'.ahead = clone.ahead /\ clone'.head = clone.head /\ clone'.tree = clone.tree
        BY <3>1, <3>3, BehindFields
      <4> QED BY <4>1 DEF NothingLeftBehind, Clean
    <3> QED BY <3>2, <3>3
  <2>3. trusted' = trusted
    BY <1>3, <2>2 DEF OthersCommit
  <2> QED BY <2>1, <2>3 DEF Contract!ManifestNext, Contract!OthersCommit
<1>4. CASE Push /\ clone.current /\ Publish
  <2>1. /\ pc = "push" /\ clone.head \in Nat /\ branch' = [replicas |-> clone.head, by |-> "controller"]
        /\ UNCHANGED <<request, leftovers>>
    BY <1>4, CloneFields DEF Push, Publish, PushInv, InPush
  <2>2. CASE leftovers
    <3>1. ~trusted
      BY <2>1, <2>2
    <3>2. Contract!ApplyWithLeftovers
      BY <1>1, <2>1, <3>1, GitAssumption
         DEF Contract!ApplyWithLeftovers, Contract!Commits, Contract!Contents
    <3> QED BY <3>2 DEF Contract!ManifestNext
  <2>3. CASE ~leftovers
    <3>1. previousHead.head = branch.replicas /\ previousHead.head # None
          /\ clone.head = Contract!Target(request, previousHead.head)
      BY <1>4, <2>1, <2>3, PreviousFields DEF PushInv, InPush, Based
    <3>2. trusted /\ trusted'
      <4>1. /\ pc' \in {"idle", "reset"} /\ (pc' = "idle" => NothingLeftBehind')
        <5>1. pc' = "idle" =>
                clone' = [current |-> TRUE, ahead |-> FALSE, head |-> clone.head, tree |-> clone.head]
          BY <1>4 DEF Push, PushInv, InPush
        <5> QED BY <1>4, <5>1 DEF Push, NothingLeftBehind, Clean
      <4> QED BY <2>1, <2>3, <4>1
    <3>3. Contract!Apply
      BY <2>1, <3>1, <3>2 DEF Contract!Apply
    <3> QED BY <3>3 DEF Contract!ManifestNext
  <2> QED BY <2>2, <2>3
<1> QED
  BY <1>2, <1>3, <1>4 DEF Next, Step, vars, Start, SyncRepo, WriteReplicas, Commit, Push, ResetHard, Reconcile, Crash

(* The git runtime implements the manifest that NodeScaling assumes: a push *)
(* from a clone with nothing left behind applies the request in hand to the *)
(* count that it replaces.                                                  *)
THEOREM RuntimeImplementsManifest == Safety => ManifestSafety
<1>1. Init => Contract!ManifestInit
  BY GitAssumption DEF Init, Contract!ManifestInit, Contract!Commits, Contract!Contents, NothingLeftBehind
<1>2. PushInv /\ [Next]_vars => [Contract!ManifestNext]_Contract!manifestVars
  BY StepRefines
<1> QED BY <1>1, <1>2, PushInvariant, PTL DEF Safety, ManifestSafety, Contract!ManifestSafety

-----------------------------------------------------------------------------
(* As long as nothing but the network has failed.                           *)
CleanInv ==
  faults = 0 =>
    /\ ~leftovers
    /\ pc \in {"start", "idle", "sync", "write"} => NothingLeftBehind
    /\ pc = "reset" => ~previousHead.ahead

(* Neither a rejected push nor one whose answer is lost leaves anything.    *)
LEMMA CleanInductive == PushInv /\ CleanInv /\ [Next]_vars => CleanInv'
<1> SUFFICES ASSUME PushInv, CleanInv, [Next]_vars, faults' = 0 PROVE CleanInv'
  BY DEF CleanInv
<1>1. TypeOK /\ faults \in Nat
  BY GitAssumption DEF PushInv, TypeOK
<1>2. faults = 0 /\ ~Fault
  <2>1. faults' = faults \/ Fault
    BY DEF Next, Step, vars, Start, SyncRepo, WriteReplicas, Commit, Push, ResetHard, Reconcile, Crash,
      OthersCommit
  <2> QED BY <1>1, <2>1 DEF Fault
<1>3. CASE Start \/ SyncRepo
  <2>1. branch' = branch /\ leftovers' = leftovers /\ pc \in {"start", "sync"} /\ pc' # "reset"
        /\ Based(clone)
    BY <1>3 DEF Start, SyncRepo, PushInv
  <2>2. Synchronised \/ NotSynchronised
    BY <1>3 DEF Start, SyncRepo
  <2> QED BY <1>1, <1>2, <2>1, <2>2, SyncKeeps DEF CleanInv
<1>4. CASE WriteReplicas
  BY <1>1, <1>2, <1>4, CloneFields DEF WriteReplicas, CleanInv, NothingLeftBehind, Clean
<1>5. CASE Commit
  BY <1>2, <1>5 DEF Commit, CleanInv
<1>6. CASE Push
  BY <1>1, <1>2, <1>6, CloneFields DEF Push, CleanInv, NothingLeftBehind, Clean, PushInv, InPush
<1>7. CASE ResetHard
  BY <1>1, <1>2, <1>7 DEF ResetHard, CleanInv, NothingLeftBehind, Clean
<1>8. CASE Reconcile \/ UNCHANGED vars
  BY <1>2, <1>8 DEF Reconcile, vars, CleanInv, NothingLeftBehind, Clean
<1>9. CASE OthersCommit
  BY <1>1, <1>2, <1>9, BehindFields, PreviousFields
    DEF OthersCommit, CleanInv, NothingLeftBehind, Clean, TypeOK, Behind
<1> QED BY <1>2, <1>3, <1>4, <1>5, <1>6, <1>7, <1>8, <1>9 DEF Next, Step, Crash

(* A count that the branch has not had stays in the clone only after a      *)
(* crash or a failure of the local file system.                             *)
THEOREM OnlyFaultsLeaveCounts == Safety => []CleanUnlessFaulty
<1>1. Init => CleanInv
  BY DEF Init, CleanInv, NothingLeftBehind
<1>2. CleanInv => CleanUnlessFaulty
  BY DEF CleanInv, CleanUnlessFaulty
<1> QED BY <1>1, <1>2, CleanInductive, PushInvariant, PTL DEF Safety
=============================================================================
