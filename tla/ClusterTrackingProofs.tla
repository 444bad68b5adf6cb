----------------------- MODULE ClusterTrackingProofs -----------------------
(* Proofs of the properties of ClusterTracking, for any number of          *)
(* operations.                                                             *)
EXTENDS ClusterTracking, TLAPS

(* What sortOperations collects.                                           *)
LEMMA Collected ==
    \A o : o \in operations <=>
        \E kind \in Kinds : \E op \in status[kind] : o = newSimpleOperation(kind, op)
  BY DEF operations

(* What sortOperations collects has the type simpleOperation.              *)
LEMMA OperationsType ==
    ASSUME StatusInv, count \in 0..MaxOps, clock \in Nat
    PROVE  operations \subseteq [state : Kinds, time : 1..MaxOps, succeeded : BOOLEAN]
  <1> SUFFICES ASSUME NEW kind \in Kinds, NEW op \in status[kind]
               PROVE  newSimpleOperation(kind, op)
                          \in [state : Kinds, time : 1..MaxOps, succeeded : BOOLEAN]
    BY Collected
  <1>1. op.createdAt \in 1..MaxOps
    BY MaxOpsAssumption DEF StatusInv
  <1> QED
    BY <1>1 DEF newSimpleOperation, operationSucceeded

(* The verdict of an operation is the one of its kind and state.           *)
LEMMA BillsOf ==
    ASSUME NEW kind, NEW op
    PROVE  Bills(newSimpleOperation(kind, op)) <=>
              /\ kind \notin {"suspension", "deprovisioning"}
              /\ kind \in {"provisioning", "unsuspension"} => op.state = "succeeded"
  BY DEF Bills, newSimpleOperation, operationSucceeded

(* KEB starts with no operation.                                           *)
LEMMA InitIInv == Init => IInv
  <1> SUFFICES ASSUME Init PROVE IInv
    OBVIOUS
  <1>1. StatusInv
    BY DEF Init, StatusInv
  <1>2. TypeOK
    <2>1. count \in 0..MaxOps /\ clock \in 0..MaxOps /\ clock \in Nat
      BY MaxOpsAssumption DEF Init
    <2>2. operations \subseteq [state : Kinds, time : 1..MaxOps, succeeded : BOOLEAN]
      BY <1>1, <2>1, OperationsType
    <2> QED
      BY <2>1, <2>2 DEF Init, TypeOK
  <1>3. LatestInv /\ LifecycleInv
    BY DEF Init, LatestInv, LifecycleInv
  <1> QED
    BY <1>1, <1>2, <1>3 DEF IInv

(* The operations after one is started.                                    *)
LEMMA StartedStatus ==
    ASSUME StatusInv, count \in Nat, clock \in Nat, NEW kind \in Kinds, Start(kind),
           NEW k \in Kinds, NEW op
    PROVE  /\ op \in status'[k] =>
                 \/ op \in status[k]
                 \/ k = kind /\ op = [id |-> count', createdAt |-> clock', state |-> "in progress"]
           /\ op \in status[k] =>
                 op \in status'[k] \/ (k = kind /\ kind \in {"provisioning", "deprovisioning"})
           /\ k = kind => [id |-> count', createdAt |-> clock', state |-> "in progress"] \in status'[k]
  <1> DEFINE new == [id |-> count', createdAt |-> clock', state |-> "in progress"]
  <1>1. DOMAIN status = Kinds
    BY DEF StatusInv
  <1>2. status'[k] = IF k # kind THEN status[k]
                     ELSE (IF kind \in {"provisioning", "deprovisioning"} THEN {} ELSE status[k])
                             \cup {new}
    BY <1>1 DEF Start
  <1> HIDE DEF new
  <1>3. /\ op \in status'[k] => op \in status[k] \/ (k = kind /\ op = new)
        /\ op \in status[k] =>
              op \in status'[k] \/ (k = kind /\ kind \in {"provisioning", "deprovisioning"})
        /\ k = kind => new \in status'[k]
    BY <1>2
  <1> QED
    BY <1>3 DEF new

(* The operations after the one in progress has ended.                     *)
LEMMA FinishedStatus ==
    ASSUME StatusInv, count \in Nat, clock \in Nat, NEW state, Finish(state),
           NEW k \in Kinds, NEW op
    PROVE  /\ op \in status'[k] =>
                 \/ op \in status[k] /\ (k = pending => op.id # count)
                 \/ k = pending /\ op = [id |-> count, createdAt |-> clock, state |-> state]
           /\ op \in status[k] => op \in status'[k] \/ (k = pending /\ op.id = count)
           /\ k = pending => [id |-> count, createdAt |-> clock, state |-> state] \in status'[k]
  <1> DEFINE ended == [id |-> count, createdAt |-> clock, state |-> state]
  <1>1. DOMAIN status = Kinds
    BY DEF StatusInv
  <1>2. status'[k] = IF k # pending THEN status[k]
                     ELSE {o \in status[k] : o.id # count} \cup {ended}
    BY <1>1 DEF Finish
  <1> HIDE DEF ended
  <1>3. /\ op \in status'[k] =>
              \/ op \in status[k] /\ (k = pending => op.id # count)
              \/ k = pending /\ op = ended
        /\ op \in status[k] => op \in status'[k] \/ (k = pending /\ op.id = count)
        /\ k = pending => ended \in status'[k]
    BY <1>2
  <1> QED
    BY <1>3 DEF ended

(* What the steps need of the invariant.                                   *)
LEMMA IInvFacts ==
    ASSUME IInv
    PROVE  /\ StatusInv /\ LatestInv /\ LifecycleInv
           /\ count \in Nat /\ clock \in Nat /\ count \in 0..MaxOps
           /\ tied \in BOOLEAN /\ pending \in Kinds \cup {"none"}
           /\ cluster \in {"absent", "running", "suspended", "gone"}
  BY MaxOpsAssumption DEF IInv, TypeOK

(* Starting an operation keeps the invariant.                              *)
LEMMA StartIInv == ASSUME IInv, NEW kind \in Kinds, Start(kind) PROVE IInv'
  <1> DEFINE new == [id |-> count', createdAt |-> clock', state |-> "in progress"]
  <1>f. /\ StatusInv /\ LatestInv /\ LifecycleInv
        /\ count \in Nat /\ clock \in Nat /\ count \in 0..MaxOps
        /\ cluster \in {"absent", "running", "suspended", "gone"}
    BY IInvFacts
  <1>s. /\ count' = count + 1 /\ count < MaxOps /\ pending' = kind /\ pending = "none"
        /\ cluster' = cluster /\ kind \in Allowed /\ tied' \in BOOLEAN
        /\ clock' = IF tied' THEN clock ELSE clock + 1
        /\ tied' => count > 0
    BY DEF Start
  <1>c. clock' \in Nat /\ count' \in 0..MaxOps /\ clock' <= count' /\ clock' >= clock /\ clock' > 0
    BY <1>f, <1>s, MaxOpsAssumption DEF StatusInv
  <1>n. new \in Operation /\ new.id = count' /\ new.createdAt = clock'
    BY <1>c, MaxOpsAssumption DEF Operation, States
  <1>a. /\ kind \in {"upgradingkyma", "upgradingcluster", "update", "suspension"} => cluster = "running"
        /\ kind = "unsuspension" => cluster = "suspended"
        /\ kind = "provisioning" => count = 0
    BY <1>f, <1>s DEF Allowed, Kinds
  <1> HIDE DEF new
  <1>m. ASSUME NEW k \in Kinds, NEW op \in status'[k]
        PROVE  op \in status[k] \/ (k = kind /\ op = new)
    BY <1>f, StartedStatus DEF new
  <1>k. new \in status'[kind]
    BY <1>f, StartedStatus DEF new
  <1>o. ASSUME NEW k \in Kinds, NEW op \in status[k]
        PROVE  /\ op \in Operation /\ op.id <= count /\ op.id < count' /\ op.id \in 1..count'
               /\ op.createdAt \in 1..clock /\ op.createdAt \in 1..clock'
    BY <1>f, <1>s, <1>c DEF StatusInv, Operation
  <1>1. StatusInv'
    <2>1. DOMAIN status' = Kinds /\ status' = [k \in Kinds |-> status'[k]]
      BY <1>f DEF Start, StatusInv
    <2>2. ASSUME NEW k \in Kinds, NEW op \in status'[k]
          PROVE  op \in Operation /\ op.id \in 1..count' /\ op.createdAt \in 1..clock'
      BY <1>m, <1>o, <1>n, <1>c
    <2>3. status' \in [Kinds -> SUBSET Operation]
      BY <2>1, <2>2
    <2> QED
      BY <1>c, <1>s, <1>f, <2>2, <2>3 DEF StatusInv
  <1>2. TypeOK'
    <2>1. operations' \subseteq [state : Kinds, time : 1..MaxOps, succeeded : BOOLEAN]
      <3>1. ASSUME NEW k \in Kinds, NEW op \in status'[k]
            PROVE  newSimpleOperation(k, op) \in [state : Kinds, time : 1..MaxOps, succeeded : BOOLEAN]
        <4>1. op.createdAt \in 1..MaxOps
          BY <1>1, <1>c, MaxOpsAssumption DEF StatusInv
        <4> QED
          BY <4>1 DEF newSimpleOperation, operationSucceeded
      <3> QED
        BY <3>1 DEF operations
    <2> QED
      BY <1>s, <1>c, <1>f, <2>1, MaxOpsAssumption DEF TypeOK
  <1>3. LatestInv'
    <2>1. ASSUME NEW k \in Kinds, NEW op \in status'[k]
          PROVE  /\ ~ tied' /\ op.createdAt = clock' => op.id = count'
                 /\ op.id = count' =>
                       /\ op.createdAt = clock'
                       /\ k = kind /\ op.state = "in progress"
                       /\ Bills(newSimpleOperation(k, op)) => cluster = "running"
      <3>1. CASE op \in status[k]
        <4>1. op.id < count' /\ op.id \in Nat /\ op.createdAt \in 1..clock
          BY <1>o, <3>1, <1>c
        <4>2. op.id # count'
          BY <4>1, <1>s, <1>f
        <4>3. ~ tied' => clock' = clock + 1
          BY <1>s
        <4>4. ~ tied' => op.createdAt # clock'
          BY <4>1, <4>3, <1>f
        <4> QED
          BY <4>2, <4>4
      <3>2. CASE k = kind /\ op = new
        <4>1. op.state = "in progress"
          BY <3>2 DEF new
        <4>2. Bills(newSimpleOperation(k, op)) => cluster = "running"
          BY <1>a, <3>2, <4>1, BillsOf DEF Kinds
        <4> QED
          BY <1>n, <3>2, <4>1, <4>2
      <3> QED
        BY <1>m, <3>1, <3>2
    <2>2. \E k \in Kinds : \E op \in status'[k] : op.id = count' /\ op.createdAt = clock'
      BY <1>k, <1>n
    <2> QED
      BY <1>s, <2>1, <2>2 DEF LatestInv, Bills, newSimpleOperation, operationSucceeded
  <1>4. LifecycleInv'
    <2>1. Provisioned => Provisioned'
      <3> SUFFICES ASSUME NEW op \in status["provisioning"], operationSucceeded(op)
                   PROVE  Provisioned'
        BY DEF Provisioned
      <3>1. "provisioning" \in Kinds
        BY DEF Kinds
      <3>2. kind # "provisioning"
        BY <1>a, <1>o, <3>1, <1>f
      <3>3. op \in status'["provisioning"]
        BY <1>f, <3>1, <3>2, StartedStatus
      <3> QED
        BY <3>3 DEF Provisioned, operationSucceeded
    <2>2. ASSUME NEW k \in Kinds \ {"provisioning", "deprovisioning"}, status'[k] # {}
          PROVE  Provisioned
      <3>1. status[k] # {} \/ k = kind
        BY <1>m, <2>2
      <3>2. k = kind => cluster \in {"running", "suspended"}
        BY <1>a DEF Kinds
      <3> QED
        BY <1>f, <3>1, <3>2 DEF LifecycleInv
    <2> QED
      BY <1>s, <1>c, <1>f, <2>1, <2>2 DEF LifecycleInv
  <1> QED
    BY <1>1, <1>2, <1>3, <1>4 DEF IInv

(* The end of an operation keeps the invariant.                            *)
LEMMA FinishIInv ==
    ASSUME IInv, NEW state \in {"succeeded", "failed"}, Finish(state)
    PROVE  IInv'
  <1> DEFINE ended == [id |-> count, createdAt |-> clock, state |-> state]
  <1>f. /\ StatusInv /\ LatestInv /\ LifecycleInv
        /\ count \in Nat /\ clock \in Nat /\ count \in 0..MaxOps /\ tied \in BOOLEAN
        /\ cluster \in {"absent", "running", "suspended", "gone"}
        /\ pending \in Kinds \cup {"none"}
    BY IInvFacts
  <1>s. /\ pending \in Kinds /\ pending' = "none" /\ UNCHANGED <<count, clock, tied>>
        /\ cluster' = IF state = "succeeded" THEN Outcome(pending) ELSE cluster
    BY <1>f DEF Finish
  <1>c. count > 0 /\ clock > 0 /\ clock <= count
    BY <1>f, <1>s DEF LifecycleInv, StatusInv, Kinds
  <1>n. /\ ended \in Operation /\ ended.id = count /\ ended.createdAt = clock
        /\ ended.state = state
    BY <1>f DEF Operation, States
  <1> HIDE DEF ended
  <1>m. ASSUME NEW k \in Kinds, NEW op \in status'[k]
        PROVE  \/ op \in status[k] /\ op.id # count
               \/ k = pending /\ op = ended
    <2>1. \/ op \in status[k] /\ (k = pending => op.id # count)
          \/ k = pending /\ op = ended
      BY <1>f, FinishedStatus DEF ended
    <2>2. op \in status[k] /\ op.id = count => k = pending
      BY <1>f, <1>s DEF LatestInv, Kinds
    <2> QED
      BY <2>1, <2>2
  <1>k. ended \in status'[pending]
    BY <1>f, <1>s, FinishedStatus DEF ended
  <1>o. ASSUME NEW k \in Kinds, NEW op \in status[k]
        PROVE  op \in Operation /\ op.id \in 1..count /\ op.createdAt \in 1..clock
    BY <1>f DEF StatusInv
  <1>1. StatusInv'
    <2>1. status' = [k \in Kinds |-> status'[k]]
      BY <1>f DEF Finish, StatusInv
    <2>2. ASSUME NEW k \in Kinds, NEW op \in status'[k]
          PROVE  op \in Operation /\ op.id \in 1..count /\ op.createdAt \in 1..clock
      BY <1>m, <1>o, <1>n, <1>c, <1>f
    <2>3. status' \in [Kinds -> SUBSET Operation]
      BY <2>1, <2>2
    <2> QED
      BY <1>c, <1>s, <1>f, <2>2, <2>3 DEF StatusInv
  <1>2. TypeOK'
    <2>1. operations' \subseteq [state : Kinds, time : 1..MaxOps, succeeded : BOOLEAN]
      <3>1. ASSUME NEW k \in Kinds, NEW op \in status'[k]
            PROVE  newSimpleOperation(k, op) \in [state : Kinds, time : 1..MaxOps, succeeded : BOOLEAN]
        <4>1. op.createdAt \in 1..MaxOps
          BY <1>1, <1>c, <1>s, <1>f, MaxOpsAssumption DEF StatusInv
        <4> QED
          BY <4>1 DEF newSimpleOperation, operationSucceeded
      <3> QED
        BY <3>1 DEF operations
    <2>2. cluster' \in {"absent", "running", "suspended", "gone"}
      BY <1>f, <1>s DEF Outcome
    <2> QED
      BY <1>s, <1>c, <1>f, <2>1, <2>2, MaxOpsAssumption DEF TypeOK
  <1>3. LatestInv'
    <2>1. Bills(newSimpleOperation(pending, ended)) => cluster' = "running"
      <3>1. CASE state = "succeeded"
        BY <1>s, <3>1, BillsOf DEF Outcome
      <3>2. CASE state # "succeeded"
        <4>1. PICK k \in Kinds : \E op \in status[k] : op.id = count
          BY <1>f, <1>c DEF LatestInv
        <4>2. PICK op \in status[k] : op.id = count
          BY <4>1
        <4>3. k = pending /\ (Bills(newSimpleOperation(k, op)) => cluster = "running")
          BY <1>f, <1>s, <4>2 DEF LatestInv, Kinds
        <4>4. Bills(newSimpleOperation(pending, ended)) => Bills(newSimpleOperation(pending, op))
          BY <1>n, <3>2, BillsOf
        <4> QED
          BY <1>s, <3>2, <4>3, <4>4
      <3> QED
        BY <3>1, <3>2
    <2>2. ASSUME NEW k \in Kinds, NEW op \in status'[k]
          PROVE  /\ ~ tied /\ op.createdAt = clock => op.id = count
                 /\ op.id = count =>
                       /\ op.createdAt = clock
                       /\ Bills(newSimpleOperation(k, op)) => cluster' = "running"
      <3>1. CASE op \in status[k] /\ op.id # count
        BY <1>f, <3>1 DEF LatestInv
      <3>2. CASE k = pending /\ op = ended
        BY <1>n, <2>1, <3>2
      <3> QED
        BY <1>m, <3>1, <3>2
    <2>3. \E k \in Kinds : \E op \in status'[k] : op.id = count /\ op.createdAt = clock
      BY <1>k, <1>n, <1>s
    <2> QED
      BY <1>s, <2>2, <2>3 DEF LatestInv, Bills, newSimpleOperation, operationSucceeded
  <1>4. LifecycleInv'
    <2>p. "provisioning" \in Kinds
      BY DEF Kinds
    <2>1. Provisioned => Provisioned'
      <3> SUFFICES ASSUME NEW op \in status["provisioning"], operationSucceeded(op)
                   PROVE  Provisioned'
        BY DEF Provisioned
      <3>1. op.id = count => op.state = "in progress"
        BY <1>f, <1>s, <2>p DEF LatestInv, Kinds
      <3>2. op.id # count
        BY <3>1 DEF operationSucceeded
      <3>3. op \in status'["provisioning"]
        BY <1>f, <2>p, <3>2, FinishedStatus
      <3> QED
        BY <3>3 DEF Provisioned, operationSucceeded
    <2>2. pending = "provisioning" /\ state = "succeeded" => Provisioned'
      BY <1>k, <1>n DEF Provisioned, operationSucceeded
    <2>3. pending \notin {"provisioning", "deprovisioning"} => Provisioned
      <3>1. PICK k \in Kinds : \E op \in status[k] : op.id = count
        BY <1>f, <1>c DEF LatestInv
      <3>2. k = pending /\ status[k] # {}
        BY <1>f, <1>s, <3>1 DEF LatestInv, Kinds
      <3> QED
        BY <1>f, <3>2 DEF LifecycleInv
    <2>4. cluster' \in {"running", "suspended"} => Provisioned'
      <3>1. CASE state = "succeeded"
        BY <1>s, <2>1, <2>2, <2>3, <3>1 DEF Outcome
      <3> QED
        BY <1>s, <1>f, <2>1, <3>1 DEF LifecycleInv
    <2>5. ASSUME NEW k \in Kinds \ {"provisioning", "deprovisioning"}, status'[k] # {}
          PROVE  Provisioned'
      <3>1. status[k] # {} \/ k = pending
        BY <1>m, <2>5
      <3> QED
        BY <1>f, <2>1, <2>3, <3>1 DEF LifecycleInv
    <2> QED
      BY <1>s, <2>4, <2>5 DEF LifecycleInv
  <1> QED
    BY <1>1, <1>2, <1>3, <1>4 DEF IInv

(* Every step of KEB keeps the invariant.                                  *)
LEMMA NextIInv == IInv /\ [Next]_vars => IInv'
  <1> SUFFICES ASSUME IInv, [Next]_vars PROVE IInv'
    OBVIOUS
  <1>1. CASE Next
    BY <1>1, StartIInv, FinishIInv DEF Next
  <1>2. CASE UNCHANGED vars
    <2>1. UNCHANGED <<cluster, status, count, clock, tied, pending>>
      BY <1>2 DEF vars
    <2>2. TypeOK'
      BY <2>1 DEF IInv, TypeOK, operations, newSimpleOperation, operationSucceeded
    <2>3. StatusInv' /\ LifecycleInv'
      BY <2>1 DEF IInv, StatusInv, LifecycleInv, Provisioned, operationSucceeded
    <2>4. LatestInv'
      BY <2>1 DEF IInv, LatestInv, Bills, newSimpleOperation, operationSucceeded
    <2> QED
      BY <2>2, <2>3, <2>4 DEF IInv
  <1> QED
    BY <1>1, <1>2
-----------------------------------------------------------------------------
(* The inductive invariant holds in every state of every behaviour.        *)
THEOREM Invariance == Spec => []IInv
  BY InitIInv, NextIInv, PTL DEF Spec

(* sortOperations always returns operations of its result type.            *)
THEOREM TypeCorrect == Spec => []TypeOK
  <1>1. IInv => TypeOK
    BY DEF IInv
  <1> QED
    BY <1>1, Invariance, PTL

(* The operations that can come last are those of the latest time.         *)
LastIsAtClock ==
    \A kind \in Kinds : \A op \in status[kind] :
        IsLast(newSimpleOperation(kind, op)) <=> op.createdAt = clock

(* The invariant bounds the creation times by the clock.                   *)
LEMMA LastOperations == IInv => LastIsAtClock
  <1> SUFFICES ASSUME IInv, NEW kind \in Kinds, NEW op \in status[kind]
               PROVE  IsLast(newSimpleOperation(kind, op)) <=> op.createdAt = clock
    BY DEF LastIsAtClock
  <1>f. StatusInv /\ LatestInv /\ clock \in Nat /\ count \in Nat
    BY IInvFacts
  <1>1. op.createdAt \in 1..clock /\ count > 0
    BY <1>f DEF StatusInv
  <1>2. PICK k \in Kinds : \E p \in status[k] : p.createdAt = clock
    BY <1>f, <1>1 DEF LatestInv
  <1>3. PICK p \in status[k] : p.createdAt = clock
    BY <1>2
  <1>4. newSimpleOperation(kind, op) \in operations /\ newSimpleOperation(k, p) \in operations
    BY Collected
  <1>5. /\ newSimpleOperation(kind, op).time = op.createdAt
        /\ newSimpleOperation(k, p).time = clock
    BY <1>3 DEF newSimpleOperation
  <1>6. ASSUME NEW o \in operations
        PROVE  o.time <= clock
    <2>1. PICK j \in Kinds : \E q \in status[j] : o = newSimpleOperation(j, q)
      BY Collected
    <2>2. PICK q \in status[j] : o = newSimpleOperation(j, q)
      BY <2>1
    <2>3. o.time = q.createdAt
      BY <2>2 DEF newSimpleOperation
    <2> QED
      BY <1>f, <2>3 DEF StatusInv
  <1>7. op.createdAt = clock => IsLast(newSimpleOperation(kind, op))
    BY <1>4, <1>5, <1>6 DEF IsLast
  <1>8. IsLast(newSimpleOperation(kind, op)) => clock <= op.createdAt
    BY <1>4, <1>5 DEF IsLast
  <1> QED
    BY <1>f, <1>1, <1>7, <1>8

(* No cluster that does not run is billed, except for a tie.               *)
THEOREM BilledRuns == Spec => []OnlyRunningIsTracked
  <1>1. IInv => OnlyRunningIsTracked
    <2> SUFFICES ASSUME IInv, MayBeTrackable
                 PROVE  cluster = "running" \/ (tied /\ Provisioned)
      BY DEF OnlyRunningIsTracked
    <2>1. PICK kind \in Kinds : \E op \in status[kind] :
             IsLast(newSimpleOperation(kind, op)) /\ Bills(newSimpleOperation(kind, op))
      BY Collected DEF MayBeTrackable
    <2>2. PICK op \in status[kind] :
             IsLast(newSimpleOperation(kind, op)) /\ Bills(newSimpleOperation(kind, op))
      BY <2>1
    <2>3. op.createdAt = clock
      BY <2>2, LastOperations DEF LastIsAtClock
    <2>4. CASE ~ tied
      BY <2>2, <2>3, <2>4, IInvFacts DEF LatestInv
    <2>5. CASE tied
      <3>1. kind # "deprovisioning" /\ (kind = "provisioning" => op.state = "succeeded")
        BY <2>2, BillsOf
      <3>2. Provisioned
        BY <3>1, IInvFacts DEF LifecycleInv, Provisioned, operationSucceeded
      <3> QED
        BY <2>5, <3>2
    <2> QED
      BY <2>4, <2>5, IInvFacts
  <1> QED
    BY <1>1, Invariance, PTL

(* When isRuntimeTrackable may refuse, without sorting.                    *)
RefusedAtClock ==
    \/ count = 0
    \/ \E kind \in Kinds : \E op \in status[kind] :
          op.createdAt = clock /\ ~ Bills(newSimpleOperation(kind, op))

(* The verdict can be read off the operations of the latest time.          *)
LEMMA Refused == IInv => (MayBeUntrackable <=> RefusedAtClock)
  <1> SUFFICES ASSUME IInv PROVE MayBeUntrackable <=> RefusedAtClock
    OBVIOUS
  <1>f. StatusInv /\ LatestInv /\ LastIsAtClock
    BY IInvFacts, LastOperations
  <1>1. operations = {} <=> count = 0
    <2>1. ASSUME NEW o \in operations PROVE count # 0
      BY <1>f, Collected, IInvFacts DEF StatusInv
    <2>2. ASSUME count # 0 PROVE operations # {}
      <3>1. count > 0
        BY <2>2, IInvFacts
      <3>2. PICK kind \in Kinds : \E op \in status[kind] : op.id = count
        BY <1>f, <3>1 DEF LatestInv
      <3> QED
        BY <3>2, Collected
    <2> QED
      BY <2>1, <2>2
  <1>2. (\E o \in operations : IsLast(o) /\ ~ Bills(o)) <=>
           \E kind \in Kinds : \E op \in status[kind] :
              IsLast(newSimpleOperation(kind, op)) /\ ~ Bills(newSimpleOperation(kind, op))
    BY Collected
  <1> QED
    BY <1>f, <1>1, <1>2 DEF MayBeUntrackable, RefusedAtClock, LastIsAtClock

(* Only KEB's intent to suspend or deprovision a cluster ends its billing. *)
THEOREM StopsByIntent == Spec => BillingStopsByIntent
  <1>1. IInv' => (MayBeUntrackable' <=> RefusedAtClock')
    BY Refused, PTL
  <1>2. ASSUME IInv, Next, ~ RefusedAtClock, RefusedAtClock'
        PROVE  pending' \in {"suspension", "deprovisioning"}
    <2>f. StatusInv /\ LatestInv /\ count \in Nat /\ clock \in Nat
      BY <1>2, IInvFacts
    <2>1. ASSUME NEW kind \in Kinds, NEW op \in status[kind], op.createdAt = clock
          PROVE  Bills(newSimpleOperation(kind, op))
      BY <1>2, <2>1 DEF RefusedAtClock
    <2>c. count > 0
      BY <1>2, <2>f DEF RefusedAtClock
    <2>2. PICK last \in Kinds : \E op \in status[last] : op.id = count /\ op.createdAt = clock
      BY <2>f, <2>c DEF LatestInv
    <2>3. PICK op1 \in status[last] : op1.id = count /\ op1.createdAt = clock
      BY <2>2
    <2>4. /\ Bills(newSimpleOperation(last, op1)) /\ cluster = "running"
          /\ pending # "none" => last = pending /\ op1.state = "in progress"
      BY <2>f, <2>1, <2>3 DEF LatestInv
    <2>5. count' # 0
      <3>1. count' = count + 1 \/ count' = count
        BY <1>2 DEF Next, Start, Finish
      <3> QED
        BY <2>f, <2>c, <3>1
    <2>6. PICK k \in Kinds : \E op \in status'[k] :
             op.createdAt = clock' /\ ~ Bills(newSimpleOperation(k, op))
      BY <1>2, <2>5 DEF RefusedAtClock, Bills, newSimpleOperation, operationSucceeded
    <2>7. PICK op2 \in status'[k] :
             op2.createdAt = clock' /\ ~ Bills(newSimpleOperation(k, op2))
      BY <2>6
    <2>8. ASSUME NEW kind \in Kinds, Start(kind)
          PROVE  kind \in {"suspension", "deprovisioning"}
      <3>1. clock' >= clock
        <4>1. clock' = clock \/ clock' = clock + 1
          BY <2>8 DEF Start
        <4> QED
          BY <2>f, <4>1
      <3>2. op2 \notin status[k]
        <4>1. ASSUME op2 \in status[k] PROVE FALSE
          <5>1. op2.createdAt = clock
            BY <2>f, <2>7, <3>1, <4>1 DEF StatusInv
          <5> QED
            BY <2>1, <2>7, <4>1, <5>1
        <4> QED
          BY <4>1
      <3>3. k = kind
        BY <2>f, <2>7, <2>8, <3>2, StartedStatus
      <3>4. kind \notin {"provisioning", "unsuspension"}
        BY <2>4, <2>8 DEF Start, Allowed
      <3> QED
        BY <2>7, <3>3, <3>4, BillsOf
    <2>9. ASSUME NEW state \in {"succeeded", "failed"}, Finish(state)
          PROVE  FALSE
      <3>1. clock' = clock /\ pending # "none"
        BY <2>9 DEF Finish
      <3>2. op2 \notin status[k]
        BY <2>1, <2>7, <3>1
      <3>3. k = pending
        BY <2>f, <2>7, <2>9, <3>2, FinishedStatus
      <3>4. k \notin {"suspension", "deprovisioning", "provisioning", "unsuspension"}
        BY <2>4, <3>1, <3>3, BillsOf
      <3> QED
        BY <2>7, <3>4, BillsOf
    <2> QED
      BY <1>2, <2>8, <2>9 DEF Next, Start
  <1>3. ASSUME UNCHANGED vars
        PROVE  RefusedAtClock' <=> RefusedAtClock
    BY <1>3 DEF vars, RefusedAtClock, Bills, newSimpleOperation, operationSucceeded
  <1>4. ASSUME IInv, IInv', [Next]_vars
        PROVE  ~ MayBeUntrackable /\ MayBeUntrackable' =>
                  pending' \in {"suspension", "deprovisioning"}
    BY <1>1, <1>2, <1>3, <1>4, Refused
  <1> QED
    BY <1>4, Invariance, PTL DEF Spec, BillingStopsByIntent
=============================================================================
