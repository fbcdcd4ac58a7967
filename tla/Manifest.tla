------------------------------ MODULE Manifest ------------------------------
(***************************************************************************)
(* What the node scaling controller takes its git repository to be: one    *)
(* replica count that it changes in single steps, each computed from the   *)
(* count that is there, while others may change it too.  NodeScaling is    *)
(* written on this assumption; GitRuntime shows how far the clone, the     *)
(* pulls and the pushes of internal/nodescaling/runtime.go bear it out.    *)
(***************************************************************************)
EXTENDS Integers

CONSTANTS
  MaxNodes,         \* --node-scaling-max-nodes, at least one
  PreparedSpares,   \* --node-scaling-prepared-spares, likewise
  Counts,           \* how many replicas a reconciliation may add or remove
  None              \* no count, not a number: the manifest cannot be read

VARIABLES
  branch,    \* spec.replicas as last committed to the branch, and by whom
  request,   \* what the controller is to do to it: [kind, count]
  trusted    \* the controller's clone holds nothing that the branch has not had

manifestVars == <<branch, request, trusted>>

Baseline == [kind |-> "baseline", count |-> 0]
Requests == [kind : {"raise", "lower"}, count : Counts] \cup {Baseline}
Contents == Nat \cup {None}
Commits == [replicas : Contents, by : {"controller", "other"}]

(* EnsureMachineDeploymentReplicaBaseline, ReconcileScaleOut, and the part  *)
(* of ReconcileScaleIn that removes spares: the count each aims at.         *)
Unfloored(r, replicas) ==
  CASE r.kind = "baseline" -> IF replicas = 0 THEN PreparedSpares ELSE replicas
    [] r.kind = "raise" ->
         IF replicas + r.count > MaxNodes THEN MaxNodes ELSE replicas + r.count
    [] r.kind = "lower" -> replicas - r.count
Target(r, replicas) ==
  CASE r.kind = "baseline" -> IF replicas = 0 THEN PreparedSpares ELSE replicas
    [] r.kind = "raise" ->
         IF replicas + r.count > MaxNodes THEN MaxNodes ELSE replicas + r.count
    [] r.kind = "lower" ->
         IF r.count > replicas THEN 0 ELSE replicas - r.count

(* The controller turns to a request, finds that there is nothing to push,  *)
(* or fails, which may leave a write behind in its clone; others see        *)
(* nothing of it.                                                           *)
Unseen ==
  /\ request' \in Requests
  /\ trusted' \in BOOLEAN
  /\ UNCHANGED branch

(* The request it is at is applied to the count that is there, now.         *)
Apply ==
  /\ trusted /\ branch.replicas # None
  /\ branch' = [replicas |-> Target(request, branch.replicas), by |-> "controller"]
  /\ UNCHANGED <<request, trusted>>

(* A clone in which a write was left behind publishes that write with the   *)
(* next one.                                                                *)
ApplyWithLeftovers ==
  /\ ~trusted
  /\ branch' \in Commits /\ branch'.by = "controller" /\ branch'.replicas # None
  /\ trusted' \in BOOLEAN
  /\ UNCHANGED request

OthersCommit ==
  /\ branch' \in Commits /\ branch'.by = "other"
  /\ UNCHANGED <<request, trusted>>

ManifestInit == branch \in Commits /\ request = Baseline /\ trusted = TRUE
ManifestNext == Unseen \/ Apply \/ ApplyWithLeftovers \/ OthersCommit

ManifestSafety == ManifestInit /\ [][ManifestNext]_manifestVars
=============================================================================
