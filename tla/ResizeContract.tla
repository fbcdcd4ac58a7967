--------------------------- MODULE ResizeContract ---------------------------
(***************************************************************************)
(* What the resize worker promises to the rest of the controller, without  *)
(* channels, maps or goroutines: per namespace there is at most one resize *)
(* operation at a time; a periodic operation starts only after the update  *)
(* interval has passed since the last operation ended; an immediate        *)
(* operation may start at any time the namespace is free; an immediate     *)
(* request that arrives while the namespace is busy is owed an operation,  *)
(* which starts in the very step that ends the current one.                *)
(***************************************************************************)
EXTENDS Naturals

CONSTANTS Namespaces,      \* the namespaces whose quota is managed
          UpdateInterval   \* --quota-update-interval, in clock ticks (a natural number)

VARIABLES running,   \* the operation in progress in each namespace
          owed,      \* an immediate operation must follow the current one
          rest       \* ticks since the last operation ended, at most UpdateInterval

contractVars == <<running, owed, rest>>

Operations == {"idle", "periodic", "immediate"}

ContractTypeOK ==
  /\ running \in [Namespaces -> Operations]
  /\ owed \in [Namespaces -> BOOLEAN]
  /\ rest \in [Namespaces -> 0 .. UpdateInterval]

ContractInit ==
  /\ running = [ns \in Namespaces |-> "idle"]
  /\ owed = [ns \in Namespaces |-> FALSE]
  /\ rest = [ns \in Namespaces |-> UpdateInterval]

BeginPeriodic(ns) ==
  /\ running[ns] = "idle"
  /\ rest[ns] = UpdateInterval
  /\ running' = [running EXCEPT ![ns] = "periodic"]
  /\ UNCHANGED <<owed, rest>>

BeginImmediate(ns) ==
  /\ running[ns] = "idle"
  /\ running' = [running EXCEPT ![ns] = "immediate"]
  /\ UNCHANGED <<owed, rest>>

Owe(ns) ==
  /\ running[ns] # "idle"
  /\ owed' = [owed EXCEPT ![ns] = TRUE]
  /\ UNCHANGED <<running, rest>>

(* What may follow an operation that ends.  With an interval of zero ticks  *)
(* a periodic request that was waiting may follow at once.                  *)
Successors(ns) ==
  IF owed[ns] THEN {"immediate"}
  ELSE IF UpdateInterval = 0 THEN {"idle", "periodic"} ELSE {"idle"}

End(ns) ==
  /\ running[ns] # "idle"
  /\ \E next \in Successors(ns) : running' = [running EXCEPT ![ns] = next]
  /\ owed' = [owed EXCEPT ![ns] = FALSE]
  /\ rest' = [rest EXCEPT ![ns] = 0]

Elapse ==
  /\ rest' = [ns \in Namespaces |->
                IF rest[ns] < UpdateInterval THEN rest[ns] + 1 ELSE rest[ns]]
  /\ UNCHANGED <<running, owed>>

ContractNext ==
  \/ \E ns \in Namespaces : BeginPeriodic(ns) \/ BeginImmediate(ns) \/ Owe(ns) \/ End(ns)
  \/ Elapse

(* Every operation ends.                                                    *)
ContractFairness == \A ns \in Namespaces : WF_contractVars(End(ns))

ContractSafety == ContractInit /\ [][ContractNext]_contractVars
ContractSpec == ContractSafety /\ ContractFairness
=============================================================================
