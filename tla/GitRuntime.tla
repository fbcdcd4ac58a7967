----------------------------- MODULE GitRuntime -----------------------------
(***************************************************************************)
(* The git side of node scaling, internal/nodescaling/runtime.go, and the  *)
(* order in which the controller uses it: synchronise the clone, read the  *)
(* replica count from the working tree, write the new one there, commit,   *)
(* push, and reset if the push fails.  The Run goroutine is the only user  *)
(* of the clone; the branch has other writers.                             *)
(*                                                                         *)
(* Each step is one call of the git library or one access of the manifest  *)
(* file, with the local computation around it.  The branch only ever grows *)
(* (nobody rewrites it), and a push is accepted if it adds to the last     *)
(* commit of the branch.  A clone remembers whether the last commit of the *)
(* branch is still the one it is based on (current), whether it has        *)
(* commits of its own beyond that (ahead), the count in its last commit    *)
(* (head) and the one in the working tree.                                 *)
(***************************************************************************)
EXTENDS Integers

CONSTANTS
  MaxNodes, PreparedSpares, Counts, None,   \* as in Manifest
  InitialContents,  \* what the manifest may hold at first
  OtherContents,    \* what others may commit
  NetworkFails,     \* whether clone, pull and push may fail
  MaxFaults         \* bound: crashes, and failures of the local file system

VARIABLES
  branch,        \* the branch of the remote repository: [replicas, by]
  clone,         \* runtime.RepoDir: None, or [current, ahead, head, tree]
  skipNextPull,  \* runtime.skipNextPull
  pc,            \* where the Run goroutine is
  request,       \* the reconciliation it is in: [kind, count]
  previousHead,  \* CommitAndPush: the clone before the commit
  leftovers,     \* the clone held something unpublished when it was read
  faults         \* how much of the bound is used up

vars == <<branch, clone, skipNextPull, pc, request, previousHead, leftovers, faults>>

Clones == [current : BOOLEAN, ahead : BOOLEAN, head : Nat \cup {None}, tree : Nat \cup {None}]
Clean(c) == ~c.ahead /\ c.tree = c.head
NothingLeftBehind == clone = None \/ Clean(clone)

(* The abstract manifest, with this branch and this request: in the middle  *)
(* of CommitAndPush the clone is as trustworthy as it was when the count    *)
(* was read.                                                                *)
Contract == INSTANCE Manifest WITH
  trusted <- IF pc \in {"commit", "push", "reset"} THEN ~leftovers ELSE NothingLeftBehind

ASSUME GitAssumption ==
  /\ MaxNodes \in Nat \ {0} /\ PreparedSpares \in Nat \ {0} /\ Counts \subseteq Nat
  /\ InitialContents \subseteq Nat \cup {None} /\ OtherContents \subseteq Nat \cup {None}
  /\ NetworkFails \in BOOLEAN /\ MaxFaults \in Nat
  /\ None \notin Nat \cup Clones

(* InitializeNodeScaling, which tolerates a failure, comes before Run.      *)
Init ==
  /\ branch \in [replicas : InitialContents, by : {"other"}]
  /\ clone = None
  /\ skipNextPull = FALSE
  /\ pc = "start"
  /\ request = Contract!Baseline
  /\ previousHead = None
  /\ leftovers = FALSE
  /\ faults = 0

Fault == faults < MaxFaults /\ faults' = faults + 1

-----------------------------------------------------------------------------
(* SyncRepo.                                                                *)
Checkout == [current |-> TRUE, ahead |-> FALSE, head |-> branch.replicas, tree |-> branch.replicas]

CloneRepo ==
  /\ clone = None
  /\ clone' = Checkout
  /\ skipNextPull' = TRUE

(* The pull right after a clone is skipped, once.                           *)
SkipAlways ==
  /\ clone # None /\ skipNextPull
  /\ UNCHANGED <<clone, skipNextPull>>
SkipPull ==
  /\ clone # None /\ skipNextPull
  /\ skipNextPull' = FALSE
  /\ UNCHANGED clone

(* A pull with nothing to fetch touches nothing, whatever the tree holds.   *)
PullRepo ==
  /\ clone # None /\ ~skipNextPull
  /\ \/ clone.current /\ UNCHANGED clone
     \/ ~clone.current /\ ~clone.ahead /\ clone' = Checkout
  /\ UNCHANGED skipNextPull

(* Besides the network, histories that have diverged make it fail, and so   *)
(* may a changed working tree, after HEAD has been moved.                   *)
HeadMoved == [current |-> TRUE, ahead |-> FALSE, head |-> branch.replicas, tree |-> clone.tree]
PullFails ==
  /\ clone # None /\ ~skipNextPull
  /\ \/ NetworkFails /\ UNCHANGED clone
     \/ ~clone.current /\ clone.ahead /\ UNCHANGED clone
     \/ ~clone.current /\ ~Clean(clone) /\ ~clone.ahead /\ clone' \in {clone, HeadMoved}
  /\ UNCHANGED skipNextPull

(* ensureLocalMachineDeploymentReadable: the clone as it is will do.        *)
Synchronised ==
  \/ CloneRepo \/ SkipPull \/ PullRepo
  \/ PullFails /\ clone'.tree # None
NotSynchronised ==
  \/ clone = None /\ NetworkFails /\ UNCHANGED <<clone, skipNextPull>>
  \/ PullFails /\ clone'.tree = None

Start ==
  /\ pc = "start"
  /\ Synchronised \/ NotSynchronised
  /\ pc' = "sync" /\ request' = Contract!Baseline
  /\ UNCHANGED <<branch, previousHead, leftovers, faults>>

-----------------------------------------------------------------------------
(* A reconciliation: the baseline when Run starts, then scale-outs and      *)
(* scale-ins.                                                               *)
Reconcile ==
  /\ pc = "idle"
  /\ \E kind \in {"raise", "lower"}, count \in Counts : request' = [kind |-> kind, count |-> count]
  /\ pc' = "sync"
  /\ UNCHANGED <<branch, clone, skipNextPull, previousHead, leftovers, faults>>

SyncRepo ==
  /\ pc = "sync"
  /\ \/ Synchronised /\ pc' = "write"
     \/ NotSynchronised /\ pc' = "idle"
  /\ UNCHANGED <<branch, request, previousHead, leftovers, faults>>

(* ReadMachineDeploymentReplicas and WriteMachineDeploymentReplicas.  The   *)
(* file is truncated before it is written.                                  *)
WriteReplicas ==
  /\ pc = "write"
  /\ leftovers' = ~Clean(clone)
  /\ LET tree == clone.tree
         target == Contract!Target(request, tree)
     IN \/ /\ IF tree = None THEN TRUE ELSE target = tree
           /\ pc' = "idle"
           /\ UNCHANGED <<clone, faults>>
        \/ /\ IF tree = None THEN FALSE ELSE target # tree
           /\ clone' = [clone EXCEPT !.tree = target]
           /\ pc' = "commit"
           /\ UNCHANGED faults
        \/ /\ IF tree = None THEN FALSE ELSE target # tree
           /\ Fault
           /\ clone' \in {clone, [clone EXCEPT !.tree = None]}
           /\ pc' = "idle"
  /\ UNCHANGED <<branch, skipNextPull, request, previousHead>>

(* CommitAndPush: Add and Commit.  When one fails the file stays written.   *)
Commit ==
  /\ pc = "commit"
  /\ \/ /\ previousHead' = clone
        /\ clone' = [current |-> clone.current, ahead |-> TRUE, head |-> clone.tree, tree |-> clone.tree]
        /\ pc' = "push"
        /\ UNCHANGED faults
     \/ /\ Fault
        /\ pc' = "idle"
        /\ UNCHANGED <<clone, previousHead>>
  /\ UNCHANGED <<branch, skipNextPull, request, leftovers>>

(* Push.  It may succeed and be reported as failed: then the commits before *)
(* the new one are in the branch, behind its end.                           *)
Publish == branch' = [replicas |-> clone.head, by |-> "controller"]
ForcePush ==
  /\ pc = "push"
  /\ Publish
  /\ clone' = [current |-> TRUE, ahead |-> FALSE, head |-> clone.head, tree |-> clone.tree]
  /\ pc' = "idle"
  /\ UNCHANGED <<skipNextPull, request, previousHead, leftovers, faults>>
Push ==
  /\ pc = "push"
  /\ \/ /\ clone.current
        /\ Publish
        /\ clone' = [current |-> TRUE, ahead |-> FALSE, head |-> clone.head, tree |-> clone.tree]
        /\ \/ pc' = "idle" /\ UNCHANGED previousHead
           \/ /\ NetworkFails
              /\ pc' = "reset"
              /\ previousHead' = [current |-> FALSE, ahead |-> FALSE,
                                  head |-> previousHead.head, tree |-> previousHead.tree]
     \/ /\ ~clone.current \/ NetworkFails
        /\ pc' = "reset"
        /\ UNCHANGED <<branch, clone, previousHead>>
  /\ UNCHANGED <<skipNextPull, request, leftovers, faults>>

(* A hard reset: the last commit and the working tree.                      *)
ResetSoft ==
  /\ pc = "reset"
  /\ clone' = [current |-> previousHead.current, ahead |-> previousHead.ahead,
               head |-> previousHead.head, tree |-> clone.tree]
  /\ pc' = "idle"
  /\ UNCHANGED <<branch, skipNextPull, request, previousHead, leftovers, faults>>
ResetHard ==
  /\ pc = "reset"
  /\ \/ /\ clone' = [current |-> previousHead.current, ahead |-> previousHead.ahead,
                     head |-> previousHead.head, tree |-> previousHead.head]
        /\ UNCHANGED faults
     \/ Fault /\ UNCHANGED clone
  /\ pc' = "idle"
  /\ UNCHANGED <<branch, skipNextPull, request, previousHead, leftovers>>

-----------------------------------------------------------------------------
(* The process dies.  Its directory may survive it.                         *)
Crash ==
  /\ Fault
  /\ pc' = "start"
  /\ request' = Contract!Baseline
  /\ skipNextPull' = FALSE
  /\ previousHead' = None
  /\ leftovers' = FALSE
  /\ clone' \in {clone, None}
  /\ UNCHANGED branch

(* Another writer of the repository.                                        *)
Behind(c) ==
  IF c = None THEN None
  ELSE [current |-> FALSE, ahead |-> c.ahead, head |-> c.head, tree |-> c.tree]
OthersCommit ==
  /\ \E replicas \in OtherContents : branch' = [replicas |-> replicas, by |-> "other"]
  /\ clone' = Behind(clone) /\ previousHead' = Behind(previousHead)
  /\ UNCHANGED <<skipNextPull, pc, request, leftovers, faults>>

-----------------------------------------------------------------------------
Step == Start \/ SyncRepo \/ WriteReplicas \/ Commit \/ Push \/ ResetHard
Next == Step \/ Reconcile \/ Crash \/ OthersCommit

Safety == Init /\ [][Next]_vars

(* The calls of a reconciliation return, and a repository that is asked     *)
(* again and again answers at some time.  Nothing says that a reconciliation*)
(* is ever requested, and others may commit at any time.                    *)
Reached == SyncRepo /\ (CloneRepo \/ SkipPull \/ PullRepo)
Fairness == WF_vars(Step) /\ SF_vars(Reached)
Spec == Safety /\ Fairness

-----------------------------------------------------------------------------
PCs == {"start", "idle", "sync", "write", "commit", "push", "reset"}

TypeOK ==
  /\ branch \in Contract!Commits
  /\ clone \in Clones \cup {None} /\ previousHead \in Clones \cup {None}
  /\ skipNextPull \in BOOLEAN /\ leftovers \in BOOLEAN
  /\ pc \in PCs
  /\ request \in Contract!Requests
  /\ faults \in 0 .. MaxFaults
  /\ pc \in {"write", "commit", "push", "reset"} => clone # None
  /\ pc \in {"push", "reset"} => previousHead # None

(* A push that is rejected, or that fails although it was accepted, leaves  *)
(* nothing behind: between reconciliations the working tree is a commit     *)
(* that the branch has had.  Only a crash or a failure of the file system   *)
(* can leave a count that was never pushed.                                 *)
CleanUnlessFaulty ==
  faults = 0 /\ pc \in {"start", "idle", "sync", "write"} => NothingLeftBehind

(* The manifest changes the way NodeScaling assumes: however stale the      *)
(* clone that a count was read from, what is pushed is the request in hand, *)
(* and no other, applied to what the branch holds at the moment of the      *)
(* push.  Nor does a push make a clone untrustworthy, or another writer.    *)
ManifestSafety == Contract!ManifestSafety

(* A clone that reconciliations keep coming to is, again and again, level   *)
(* with the branch: skipped pulls and the local copy that is used when a    *)
(* pull fails delay this and do not prevent it.                             *)
Level == clone # None /\ clone.current /\ clone.tree = branch.replicas
CatchesUp == []<>(pc = "sync") => []<>(Level \/ faults > 0)
=============================================================================
