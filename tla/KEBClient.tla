------------------------------ MODULE KEBClient ------------------------------
(***************************************************************************)
(* pkg/keb: GetAllRuntimes reads the list of runtimes from the Kyma        *)
(* Environment Broker (KEB) page by page, with retries, while KEB keeps    *)
(* adding runtimes to the list and taking runtimes out of it.              *)
(*                                                                         *)
(* KEB is external.  It is modelled as a list without duplicates that is   *)
(* cut into pages anew for every request; the client sees of an answer     *)
(* what GetAllRuntimes uses: Data, Count and TotalCount.                   *)
(***************************************************************************)
EXTENDS Naturals, Sequences

CONSTANTS
    Runtimes,
    PageSize,       \* KEB's page size: the client does not ask for one
    RetryCount      \* Config.RetryCount

ASSUME PageSizeAssumption == PageSize \in Nat \ {0}

ASSUME RetryCountAssumption == RetryCount \in Nat

VARIABLES
    table,          \* KEB's list
    pc,             \* where GetAllRuntimes is
    pageNum,
    recordsSeen,
    data,           \* finalRuntimesPage.Data
    tries,          \* the requests made for this page that failed
    start,          \* history: the list when the call began
    change          \* history: what happened to the list since

clientVars == <<pc, pageNum, recordsSeen, data, tries>>
vars == <<table, clientVars, start, change>>

InList(r, list) == \E i \in DOMAIN list : list[i] = r

(* Every variable has the type of the state it models, and no page is      *)
(* requested more than RetryCount times, if RetryCount is not 0.           *)
TypeOK ==
    /\ table \in Seq(Runtimes)
    /\ pc \in {"idle", "fetch", "done", "failed"}
    /\ pageNum \in Nat
    /\ recordsSeen \in Nat
    /\ data \in Seq(Runtimes)
    /\ tries \in Nat
    /\ RetryCount > 0 => tries <= RetryCount
    /\ start \in Seq(Runtimes)
    /\ change \in {"none", "added", "removed"}

Init ==
    /\ table = <<>>
    /\ pc = "idle"
    /\ pageNum = 1
    /\ recordsSeen = 0
    /\ data = <<>>
    /\ tries = 0
    /\ start = <<>>
    /\ change = "none"
-----------------------------------------------------------------------------
(* KEB.                                                                    *)

(* A runtime is added, at any place of KEB's order.                        *)
KebAdd(r) ==
    /\ ~ InList(r, table)
    /\ \E i \in 1..(Len(table) + 1) :
          table' = [j \in 1..(Len(table) + 1) |->
                       IF j < i THEN table[j] ELSE IF j = i THEN r ELSE table[j - 1]]
    /\ change' = IF pc # "idle" /\ change = "none" THEN "added" ELSE change
    /\ UNCHANGED <<clientVars, start>>

KebRemove ==
    /\ \E i \in DOMAIN table :
          table' = [j \in 1..(Len(table) - 1) |-> IF j < i THEN table[j] ELSE table[j + 1]]
    /\ change' = IF pc # "idle" THEN "removed" ELSE change
    /\ UNCHANGED <<clientVars, start>>

(* The list entries of page n.                                             *)
PageOf(n) ==
    LET skipped == (n - 1) * PageSize
        count == IF Len(table) <= skipped THEN 0
                 ELSE IF Len(table) - skipped < PageSize THEN Len(table) - skipped
                 ELSE PageSize
    IN  [j \in 1..count |-> table[skipped + j]]
-----------------------------------------------------------------------------
(* The client.                                                             *)

GetAllRuntimes ==
    /\ pc = "idle"
    /\ pc' = "fetch"
    /\ pageNum' = 1
    /\ recordsSeen' = 0
    /\ data' = <<>>
    /\ tries' = 0
    /\ start' = table
    /\ change' = "none"
    /\ UNCHANGED table

(* Faulty variant: the list is taken to be complete one record too early.  *)
PageArrivesStopEarly ==
    /\ pc = "fetch"
    /\ data' = data \o PageOf(pageNum)
    /\ recordsSeen' = recordsSeen + Len(PageOf(pageNum))
    /\ IF recordsSeen' + 1 >= Len(table)
       THEN pc' = "done" /\ UNCHANGED <<pageNum, tries>>
       ELSE pageNum' = pageNum + 1 /\ tries' = 0 /\ UNCHANGED pc
    /\ UNCHANGED <<table, start, change>>

(* A page arrives.  It is the last one when as many records have been seen *)
(* as KEB now has.                                                         *)
PageArrives ==
    /\ pc = "fetch"
    /\ data' = data \o PageOf(pageNum)
    /\ recordsSeen' = recordsSeen + Len(PageOf(pageNum))
    /\ IF recordsSeen' >= Len(table)
       THEN pc' = "done" /\ UNCHANGED <<pageNum, tries>>
       ELSE pageNum' = pageNum + 1 /\ tries' = 0 /\ UNCHANGED pc
    /\ UNCHANGED <<table, start, change>>

(* Faulty variant: what was read so far is returned without an error.      *)
PageFailsPartial ==
    /\ pc = "fetch"
    /\ tries' = tries + 1
    /\ IF tries' = RetryCount THEN pc' = "done" ELSE UNCHANGED pc
    /\ UNCHANGED <<table, pageNum, recordsSeen, data, start, change>>

(* Faulty variant: one request too many.                                   *)
PageFailsOnceMore ==
    /\ pc = "fetch"
    /\ tries' = tries + 1
    /\ IF tries = RetryCount THEN pc' = "failed" ELSE UNCHANGED pc
    /\ UNCHANGED <<table, pageNum, recordsSeen, data, start, change>>

(* Faulty variant: after the last request the count starts anew.           *)
PageFailsForever ==
    /\ pc = "fetch"
    /\ tries' = (tries + 1) % RetryCount
    /\ UNCHANGED <<table, pc, pageNum, recordsSeen, data, start, change>>

(* A request fails: transport error, timeout, a status that is not 200, or *)
(* a body that cannot be read or parsed.  retry-go gives up after          *)
(* RetryCount requests, never if that is 0, and the whole call then fails. *)
PageFails ==
    /\ pc = "fetch"
    /\ tries' = tries + 1
    /\ IF tries' = RetryCount THEN pc' = "failed" ELSE UNCHANGED pc
    /\ UNCHANGED <<table, pageNum, recordsSeen, data, start, change>>

(* The poller has used the list, or logged the error, and sleeps: nothing  *)
(* of the call is left.                                                    *)
Return ==
    /\ pc \in {"done", "failed"}
    /\ pc' = "idle"
    /\ pageNum' = 1
    /\ recordsSeen' = 0
    /\ data' = <<>>
    /\ tries' = 0
    /\ start' = <<>>
    /\ change' = "none"
    /\ UNCHANGED table

Client == GetAllRuntimes \/ PageArrives \/ PageFails \/ Return

Next ==
    \/ Client
    \/ \E r \in Runtimes : KebAdd(r)
    \/ KebRemove

Spec == Init /\ [][Next]_vars

(* The poller is scheduled and every request ends, by its timeout at last. *)
FairSpec == Spec /\ WF_vars(Client)
-----------------------------------------------------------------------------
(* Properties.                                                             *)

(* A list is returned only if no runtime that was there from the start is  *)
(* missing from it, however many runtimes KEB adds while it is being read. *)
(* populateCacheAndQueue drops every subaccount that is not on the list.   *)
(* (When KEB removes a runtime meanwhile, later ones move up a page and    *)
(* can be missed.)                                                         *)
NothingMissed ==
    pc = "done" /\ change # "removed" =>
        \A r \in Runtimes : InList(r, start) => InList(r, data)

(* If KEB's list does not change, it is returned as it is: no runtime is   *)
(* left out and none comes twice, for any page size, retries included.     *)
ExactIfUnchanged == pc = "done" /\ change = "none" => data = table

(* GetAllRuntimes returns, whatever KEB does with its list meanwhile, as   *)
(* long as RetryCount is not 0.                                            *)
FetchReturns == pc = "fetch" ~> pc # "fetch"
-----------------------------------------------------------------------------
(* The inductive invariant behind the safety properties.                   *)

(* All pages before the next one were full.                                *)
PagesInv ==
    pc = "fetch" =>
        /\ pageNum >= 1
        /\ recordsSeen = (pageNum - 1) * PageSize
        /\ tries # RetryCount \/ RetryCount = 0

(* As long as nothing is removed, a runtime that is not read yet is still  *)
(* to come.                                                                *)
AheadInv ==
    pc = "fetch" /\ change # "removed" =>
        \A r \in Runtimes : InList(r, start) =>
            \/ InList(r, data)
            \/ \E i \in DOMAIN table : i > recordsSeen /\ table[i] = r

(* As long as nothing changes, what was read is a prefix of the list.      *)
PrefixInv ==
    pc = "fetch" /\ change = "none" =>
        /\ Len(data) = recordsSeen
        /\ recordsSeen <= Len(table)
        /\ \A i \in 1..Len(data) : data[i] = table[i]

IInv ==
    /\ TypeOK
    /\ PagesInv
    /\ AheadInv
    /\ PrefixInv
    /\ NothingMissed
    /\ ExactIfUnchanged
=============================================================================
