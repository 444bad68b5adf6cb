--------------------------- MODULE ClusterTracking ---------------------------
(***************************************************************************)
(* pkg/process/cluster_tracking.go: isRuntimeTrackable decides from the    *)
(* operations KEB lists for a runtime whether its cluster is billable.     *)
(*                                                                         *)
(* KEB is external: it runs one operation at a time on the cluster, along  *)
(* the cluster lifecycle of docs/contributor/README.md, and an operation   *)
(* may fail.  Two operations may have the same creation time; which of     *)
(* them sort.Slice, which is not stable, puts last is then open.           *)
(***************************************************************************)
EXTENDS Naturals

CONSTANT MaxOps     \* bound: the number of operations

ASSUME MaxOpsAssumption == MaxOps \in Nat

Kinds == {"provisioning", "deprovisioning", "upgradingkyma", "upgradingcluster",
          "update", "suspension", "unsuspension"}

States == {"in progress", "succeeded", "failed"}

VARIABLES
    cluster,    \* what the cluster really is
    status,     \* the operations of each kind in the runtime's status
    count,      \* the number of operations so far
    clock,      \* the creation time of the latest operation
    tied,       \* history: the one before it has the same creation time
    pending     \* the kind of the operation in progress

vars == <<cluster, status, count, clock, tied, pending>>

Init ==
    /\ cluster = "absent"
    /\ status = [kind \in Kinds |-> {}]
    /\ count = 0
    /\ clock = 0
    /\ tied = FALSE
    /\ pending = "none"
-----------------------------------------------------------------------------
(* KEB.                                                                    *)

(* The operations the lifecycle allows in each state of the cluster.       *)
Allowed ==
    CASE cluster = "absent"    -> IF count = 0 THEN {"provisioning"} ELSE {"deprovisioning"}
      [] cluster = "running"   -> Kinds \ {"provisioning", "unsuspension"}
      [] cluster = "suspended" -> {"unsuspension", "deprovisioning"}
      [] OTHER                 -> {}

(* The status has one provisioning and one deprovisioning operation, and a *)
(* list of each of the other kinds.                                        *)
Start(kind) ==
    /\ pending = "none"
    /\ count < MaxOps
    /\ kind \in Allowed
    /\ count' = count + 1
    /\ tied' \in BOOLEAN
    /\ tied' => count > 0
    /\ clock' = IF tied' THEN clock ELSE clock + 1
    /\ pending' = kind
    /\ status' = [status EXCEPT ![kind] =
          (IF kind \in {"provisioning", "deprovisioning"} THEN {} ELSE @)
             \cup {[id |-> count', createdAt |-> clock', state |-> "in progress"]}]
    /\ UNCHANGED cluster

(* What a successful operation makes of the cluster.                       *)
Outcome(kind) ==
    CASE kind = "suspension"     -> "suspended"
      [] kind = "deprovisioning" -> "gone"
      [] OTHER                   -> "running"

Finish(state) ==
    /\ pending # "none"
    /\ pending' = "none"
    /\ status' = [status EXCEPT ![pending] =
          {op \in @ : op.id # count}
             \cup {[id |-> count, createdAt |-> clock, state |-> state]}]
    /\ cluster' = IF state = "succeeded" THEN Outcome(pending) ELSE cluster
    /\ UNCHANGED <<count, clock, tied>>

Next ==
    \/ \E kind \in Kinds : Start(kind)
    \/ \E state \in {"succeeded", "failed"} : Finish(state)

Spec == Init /\ [][Next]_vars
-----------------------------------------------------------------------------
(* The decision.                                                           *)

operationSucceeded(op) == op.state = "succeeded"

(* Faulty variant: the state is left at its zero value.                    *)
newSimpleOperationWithoutState(kind, op) ==
    [state |-> "", time |-> op.createdAt, succeeded |-> operationSucceeded(op)]

newSimpleOperation(kind, op) ==
    [state |-> kind, time |-> op.createdAt, succeeded |-> operationSucceeded(op)]

(* Faulty variant: deprovisioning is left out of the operations.           *)
operationsButDeprovisioning ==
    UNION {{newSimpleOperation(kind, op) : op \in status[kind]} :
              kind \in Kinds \ {"deprovisioning"}}

(* What sortOperations collects from the status.                           *)
operations ==
    UNION {{newSimpleOperation(kind, op) : op \in status[kind]} : kind \in Kinds}

(* An operation that can come last when they are sorted by time.           *)
IsLast(op) == op \in operations /\ \A p \in operations : p.time <= op.time

(* Faulty variant: any unfinished operation suspends the billing.          *)
BillsIfSucceeded(op) == op.state \notin {"suspension", "deprovisioning"} /\ op.succeeded

(* The verdict of the last operation.                                      *)
Bills(op) ==
    /\ op.state \notin {"suspension", "deprovisioning"}
    /\ op.state \in {"provisioning", "unsuspension"} => op.succeeded

(* The results that isRuntimeTrackable can have: not both unless there is  *)
(* a tie.  Without operations a runtime is not trackable.                  *)
MayBeTrackable == \E op \in operations : IsLast(op) /\ Bills(op)

MayBeUntrackable == operations = {} \/ \E op \in operations : IsLast(op) /\ ~ Bills(op)
-----------------------------------------------------------------------------
(* Properties.                                                             *)

(* What sortOperations returns has the type simpleOperation.               *)
TypeOK ==
    /\ cluster \in {"absent", "running", "suspended", "gone"}
    /\ count \in 0..MaxOps
    /\ clock \in 0..MaxOps
    /\ tied \in BOOLEAN
    /\ pending \in Kinds \cup {"none"}
    /\ operations \subseteq [state : Kinds, time : 1..MaxOps, succeeded : BOOLEAN]

(* KEB has set the cluster up successfully.                                *)
Provisioned == \E op \in status["provisioning"] : operationSucceeded(op)

(* A cluster that does not run is never billed: neither while it is being  *)
(* provisioned or unsuspended, nor after that has failed, nor once it is   *)
(* suspended or deprovisioned, whatever operations came before.  Two       *)
(* operations with one creation time can blur when the billing of a        *)
(* cluster ends, but even they bill no cluster that never ran.             *)
OnlyRunningIsTracked == MayBeTrackable => cluster = "running" \/ (tied /\ Provisioned)

(* The verdict changes from billable to not billable only when KEB starts  *)
(* to suspend or deprovision the cluster: upgrades and updates, in         *)
(* progress or failed, do not interrupt the billing, ties or not.          *)
BillingStopsByIntent ==
    [][~ MayBeUntrackable /\ MayBeUntrackable' =>
          pending' \in {"suspension", "deprovisioning"}]_vars
-----------------------------------------------------------------------------
(* The inductive invariant behind the properties.                          *)

Operation == [id : Nat, createdAt : Nat, state : States]

StatusInv ==
    /\ status \in [Kinds -> SUBSET Operation]
    /\ clock <= count
    /\ count = 0 <=> clock = 0
    /\ \A kind \in Kinds : \A op \in status[kind] :
          op.id \in 1..count /\ op.createdAt \in 1..clock

(* The state of the operation that KEB started last, and what it says of   *)
(* the cluster.                                                            *)
LatestInv ==
    /\ count > 0 => \E kind \in Kinds : \E op \in status[kind] :
          op.id = count /\ op.createdAt = clock
    /\ \A kind \in Kinds : \A op \in status[kind] :
          /\ ~ tied /\ op.createdAt = clock => op.id = count
          /\ op.id = count =>
                /\ op.createdAt = clock
                /\ pending # "none" => kind = pending /\ op.state = "in progress"
                /\ Bills(newSimpleOperation(kind, op)) => cluster = "running"

(* Which operations there can be.                                          *)
LifecycleInv ==
    /\ cluster \in {"running", "suspended"} => Provisioned
    /\ \A kind \in Kinds \ {"provisioning", "deprovisioning"} :
          status[kind] # {} => Provisioned
    /\ pending # "none" => count > 0

IInv == TypeOK /\ StatusInv /\ LatestInv /\ LifecycleInv
=============================================================================
