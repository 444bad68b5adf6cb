--------------------------- MODULE SubAccountSpec ---------------------------
(***************************************************************************)
(* What KMC promises for the subaccounts, whatever the poller and the      *)
(* workers do in between: one visit at a time, a visit for everyone who is *)
(* due, nobody with a record who is not due, and a record that changes     *)
(* only because KEB said so or because a visit writes back the cluster it  *)
(* was for.  KmcProcess implements this with a cache, a queue, a poller    *)
(* and a pool of workers.                                                  *)
(***************************************************************************)
CONSTANTS SubAccounts, Runtimes, SubAccountOf, None

VARIABLES
    record,     \* the cluster each subaccount is billed for, None if none
    due,        \* the subaccounts that are to be visited, or visited again
    visited,    \* the subaccounts that are being visited
    copies      \* the clusters the visits are for, as <<subaccount, cluster>>

vars == <<record, due, visited, copies>>

Init ==
    /\ record = [k \in SubAccounts |-> None]
    /\ due = {}
    /\ visited = {}
    /\ copies = {}

(* KEB lists a billable cluster of a subaccount that has no record.        *)
Track(k) ==
    /\ record[k] = None
    /\ \E r \in Runtimes :
          SubAccountOf[r] = k /\ record' = [record EXCEPT ![k] = r]
    /\ due' = due \cup {k}
    /\ UNCHANGED <<visited, copies>>

(* KEB lists another cluster of the subaccount.                            *)
Replace(k) ==
    /\ record[k] # None
    /\ \E r \in Runtimes :
          SubAccountOf[r] = k /\ record' = [record EXCEPT ![k] = r]
    /\ UNCHANGED <<due, visited, copies>>

(* KEB lists none, or one that is not billable.                            *)
Untrack(k) ==
    /\ record' = [record EXCEPT ![k] = None]
    /\ UNCHANGED <<due, visited, copies>>

Start(k) ==
    /\ k \in due
    /\ k \notin visited
    /\ visited' = visited \cup {k}
    /\ UNCHANGED <<record, due, copies>>

Copied(k) == \E r \in Runtimes : <<k, r>> \in copies

Read(k) ==
    /\ k \in visited
    /\ ~ Copied(k)
    /\ record[k] # None
    /\ copies' = copies \cup {<<k, record[k]>>}
    /\ UNCHANGED <<record, due, visited>>

(* A visit that finds no record is the last one.                           *)
Forget(k) ==
    /\ k \in visited
    /\ ~ Copied(k)
    /\ record[k] = None
    /\ due' = due \ {k}
    /\ UNCHANGED <<record, visited, copies>>

WriteBack(k) ==
    /\ \E r \in Runtimes :
          /\ <<k, r>> \in copies
          /\ record' = [record EXCEPT ![k] = r]
          /\ copies' = copies \ {<<k, r>>}
    /\ UNCHANGED <<due, visited>>

GiveUp(k) ==
    /\ \E r \in Runtimes :
          <<k, r>> \in copies /\ copies' = copies \ {<<k, r>>}
    /\ UNCHANGED <<record, due, visited>>

Finish(k) ==
    /\ k \in visited
    /\ ~ Copied(k)
    /\ visited' = visited \ {k}
    /\ UNCHANGED <<record, due, copies>>

(* The process is restarted.                                               *)
Restart ==
    /\ record' = [k \in SubAccounts |-> None]
    /\ due' = {}
    /\ visited' = {}
    /\ copies' = {}

Next ==
    \/ \E k \in SubAccounts :
          \/ Track(k) \/ Replace(k) \/ Untrack(k)
          \/ Start(k) \/ Read(k) \/ Forget(k)
          \/ WriteBack(k) \/ GiveUp(k) \/ Finish(k)
    \/ Restart

Spec == Init /\ [][Next]_vars

(* Who is due is visited, as long as there is a worker that is not stuck.  *)
FairSpec == Spec /\ \A k \in SubAccounts : WF_vars(Start(k))
=============================================================================
