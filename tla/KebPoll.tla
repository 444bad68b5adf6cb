------------------------------ MODULE KebPoll ------------------------------
(***************************************************************************)
(* One poll from end to end: GetAllRuntimes (KEBClient) reads KEB's list   *)
(* page by page, while KEB adds, removes and changes runtimes, and         *)
(* populateCacheAndQueue (pkg/process) turns what was read into records.   *)
(* An entry is a copy of the runtime as it was when its page was read, so  *)
(* a list may hold a runtime twice, with different contents, or hold       *)
(* runtimes that never were on KEB's list together.                        *)
(*                                                                         *)
(* The workers share the cache: a step makes at most one call on it, as in *)
(* KmcProcess, where the answer of KEB is a set of runtimes and which has  *)
(* the queue and the metrics of the workers as well.                       *)
(***************************************************************************)
EXTENDS KEBClient, FiniteSetsExt

CONSTANTS
    SubAccounts,
    SubAccountOf,   \* the subaccount of each runtime; None if KEB names none
    Filtered,       \* the runtimes whose global account is in the filter file
    MaxMoves,       \* bound: what KEB does during one call
    None

ASSUME SubAccountOfAssumption == SubAccountOf \in [Runtimes -> SubAccounts \cup {None}]

VARIABLES
    billable,       \* the runtimes that isRuntimeTrackable accepts as they are now
    entries,        \* finalRuntimesPage.Data, with the contents read
    ppc,            \* where populateCacheAndQueue is
    place,          \* the entry it is at
    found,          \* the record it read from the cache for that entry
    items,          \* the subaccounts its cleanup loop still has to delete
    cache,
    copy,           \* the record of each subaccount as its worker has read it
    steady,         \* history: listed and billable since the call began
    ever,           \* history: listed and billable at some time since
    late,           \* history: subaccounts a worker stored after the poller's
                    \* last look at them, or write to them, in this poll
    moves           \* history: how often KEB changed something since

loopVars == <<ppc, place, found, items>>
history == <<steady, ever>>
pollVars == <<vars, billable, entries, loopVars, cache, copy, history, late, moves>>

Entry == [rt : Runtimes, billable : BOOLEAN]

(* A record of the cache; scans: some are kept from an earlier run.        *)
Record == [rt : Runtimes, scans : BOOLEAN]

ASSUME NoneAssumption == None \notin Record /\ None \notin SubAccounts

ListedNow == {r \in Runtimes : InList(r, table)}

NoRecords == [k \in SubAccounts |-> None]

PollInit ==
    /\ Init
    /\ billable = {}
    /\ entries = <<>>
    /\ ppc = "visit"
    /\ place = 1
    /\ found = None
    /\ items = {}
    /\ cache = NoRecords
    /\ copy = NoRecords
    /\ steady = {}
    /\ ever = {}
    /\ late = {}
    /\ moves = 0
-----------------------------------------------------------------------------
(* KEB.                                                                    *)

(* KEB moves at any time, MaxMoves times during a call.  What it does      *)
(* after the last page is seen by the next call only: the model has it     *)
(* happen when the poll is over.                                           *)
Move ==
    /\ pc # "done"
    /\ IF pc = "idle" THEN UNCHANGED moves ELSE moves < MaxMoves /\ moves' = moves + 1
    /\ UNCHANGED <<entries, loopVars, cache, copy, late>>

Listing(r) ==
    /\ KebAdd(r)
    /\ Move
    /\ ever' = ever \cup ({r} \cap billable)
    /\ UNCHANGED <<billable, steady>>

Unlisting ==
    /\ KebRemove
    /\ Move
    /\ steady' = steady \cap ListedNow'
    /\ UNCHANGED <<billable, ever>>

(* An operation of the runtime ends or is started.  (Of a filtered runtime *)
(* nobody asks for the verdict: it stays as it is.)                        *)
Change(r) ==
    /\ Move
    /\ billable' = IF r \in billable THEN billable \ {r} ELSE billable \cup {r}
    /\ steady' = steady \ {r}
    /\ ever' = ever \cup (ListedNow \cap billable')
    /\ UNCHANGED vars
-----------------------------------------------------------------------------
(* The workers: one at most for a subaccount (OneWorkerPerSubAccount of    *)
(* KmcProcess), at any time.                                               *)

(* processSubAccountID finds the record and goes to collect.               *)
TakeRecord(k) ==
    /\ cache[k] # None
    /\ copy[k] = None
    /\ copy' = [copy EXCEPT ![k] = cache[k]]
    /\ UNCHANGED <<vars, billable, entries, loopVars, cache, history, late, moves>>

(* The copy is written back, with scans, whatever the cache holds by now.  *)
StoreRecord(k) ==
    /\ copy[k] # None
    /\ cache' = [cache EXCEPT ![k] = [copy[k] EXCEPT !.scans = TRUE]]
    /\ copy' = [copy EXCEPT ![k] = None]
    /\ late' = IF pc = "done" THEN late \cup {k} ELSE late
    /\ UNCHANGED <<vars, billable, entries, loopVars, history, moves>>

(* handleError: nothing is written.                                        *)
LeaveRecord(k) ==
    /\ copy[k] # None
    /\ copy' = [copy EXCEPT ![k] = None]
    /\ UNCHANGED <<vars, billable, entries, loopVars, cache, history, late, moves>>

Worker(k) == TakeRecord(k) \/ StoreRecord(k) \/ LeaveRecord(k)
-----------------------------------------------------------------------------
(* The poller reads the list.  Every step that reads a page is the step of *)
(* KEBClient, so what is proved of the client holds for the lists that     *)
(* polls use.                                                              *)

Fetch ==
    /\ GetAllRuntimes
    /\ steady' = ListedNow \cap billable
    /\ ever' = ListedNow \cap billable
    /\ UNCHANGED <<billable, entries, loopVars, cache, copy, late, moves>>

ReadPage ==
    /\ PageArrives
    /\ entries' = entries \o [j \in DOMAIN PageOf(pageNum) |->
                                 [rt |-> PageOf(pageNum)[j],
                                  billable |-> PageOf(pageNum)[j] \in billable]]
    /\ UNCHANGED <<billable, loopVars, cache, copy, history, late, moves>>

FailPage ==
    /\ PageFails
    /\ UNCHANGED <<billable, entries, loopVars, cache, copy, history, late, moves>>

(* The poll is over: nothing of it is left but the cache.                  *)
Sleep ==
    /\ Return
    /\ entries' = <<>>
    /\ ppc' = "visit"
    /\ place' = 1
    /\ found' = None
    /\ items' = {}
    /\ steady' = {}
    /\ ever' = {}
    /\ late' = {}
    /\ moves' = 0
    /\ UNCHANGED <<billable, cache, copy>>

(* The call failed: the poller keeps what it has and sleeps.               *)
GiveUp ==
    /\ pc = "failed"
    /\ Sleep
-----------------------------------------------------------------------------
(* populateCacheAndQueue.                                                  *)

(* The entries the loop passes over: no subaccount, or skipRuntime.        *)
Skipped(e) == SubAccountOf[e.rt] = None \/ e.rt \in Filtered

SkipEntry ==
    /\ pc = "done"
    /\ ppc = "visit"
    /\ place <= Len(entries)
    /\ Skipped(entries[place])
    /\ place' = place + 1
    /\ UNCHANGED <<vars, billable, entries, ppc, found, items, cache, copy,
                   history, late, moves>>

NewRecord(r) == [rt |-> r, scans |-> FALSE]

(* Faulty variant: a listed runtime always gets a new record.              *)
SettledNever(e, record) == ~ e.billable /\ record = None

(* Faulty variant: a record of another cluster is left alone.              *)
SettledByAny(e, record) == IF e.billable THEN record # None ELSE record = None

(* Nothing to write: the record found is of this cluster, or the cluster   *)
(* is not billable and has none.                                           *)
Settled(e, record) ==
    IF e.billable THEN record # None /\ record.rt = e.rt ELSE record = None

(* Cache.Get for the entry's subaccount, and the branch it leads to.       *)
VisitEntry ==
    /\ pc = "done"
    /\ ppc = "visit"
    /\ place <= Len(entries)
    /\ LET e == entries[place]
           k == SubAccountOf[e.rt]
       IN  /\ ~ Skipped(e)
           /\ late' = late \ {k}
           /\ IF Settled(e, cache[k])
              THEN place' = place + 1 /\ UNCHANGED <<ppc, found>>
              ELSE ppc' = "write" /\ found' = cache[k] /\ UNCHANGED place
    /\ UNCHANGED <<vars, billable, entries, items, cache, copy, history, moves>>

(* Cache.Add of a new record, which fails if a worker has stored one since *)
(* Cache.Get; Cache.Set of a new record over that of another cluster; or   *)
(* Cache.Delete.                                                           *)
WriteEntry ==
    /\ pc = "done"
    /\ ppc = "write"
    /\ LET e == entries[place]
           k == SubAccountOf[e.rt]
       IN  IF e.billable /\ found = None /\ cache[k] # None
           THEN UNCHANGED <<cache, late>>
           ELSE /\ cache' = [cache EXCEPT ![k] = IF e.billable THEN NewRecord(e.rt) ELSE None]
                /\ late' = late \ {k}
    /\ ppc' = "visit"
    /\ place' = place + 1
    /\ found' = None
    /\ UNCHANGED <<vars, billable, entries, items, copy, history, moves>>

(* Faulty variant: every subaccount counts as listed.                      *)
validSubAccountsAll == SubAccounts

validSubAccounts == {SubAccountOf[entries[i].rt] : i \in DOMAIN entries} \ {None}

(* Cache.Items(): the cleanup loop ranges over a copy of the cache.        *)
StartCleanup ==
    /\ pc = "done"
    /\ ppc = "visit"
    /\ place > Len(entries)
    /\ ppc' = "cleanup"
    /\ items' = {k \in SubAccounts : cache[k] # None} \ validSubAccounts
    /\ late' = late \cap validSubAccounts
    /\ UNCHANGED <<vars, billable, entries, place, found, cache, copy, history, moves>>

Cleanup(k) ==
    /\ pc = "done"
    /\ ppc = "cleanup"
    /\ k \in items
    /\ cache' = [cache EXCEPT ![k] = None]
    /\ items' = items \ {k}
    /\ late' = late \ {k}
    /\ UNCHANGED <<vars, billable, entries, ppc, place, found, copy, history, moves>>

EndPoll ==
    /\ pc = "done"
    /\ ppc = "cleanup"
    /\ items = {}
    /\ Sleep

populateCacheAndQueue ==
    \/ SkipEntry
    \/ VisitEntry
    \/ WriteEntry
    \/ StartCleanup
    \/ \E k \in SubAccounts : Cleanup(k)
    \/ EndPoll

pollKEBForRuntimes == Fetch \/ ReadPage \/ FailPage \/ GiveUp \/ populateCacheAndQueue

PollNext ==
    \/ pollKEBForRuntimes
    \/ \E r \in Runtimes : Listing(r)
    \/ \E r \in Runtimes \ Filtered : Change(r)
    \/ Unlisting
    \/ \E k \in SubAccounts : Worker(k)

PollSpec == PollInit /\ [][PollNext]_pollVars

(* The poller is scheduled and every request ends, by its timeout at last. *)
PollFairSpec == PollSpec /\ WF_pollVars(pollKEBForRuntimes)
-----------------------------------------------------------------------------
(* Properties.                                                             *)

(* The places of the entries of subaccount k that are not skipped.         *)
EntriesOf(k) ==
    {i \in DOMAIN entries : SubAccountOf[entries[i].rt] = k /\ ~ Skipped(entries[i])}

(* The list names k, but only with runtimes that are skipped: its record   *)
(* is not looked at, and not cleaned up either.                            *)
OnlySkipped(k) ==
    EntriesOf(k) = {} /\ \E i \in DOMAIN entries : SubAccountOf[entries[i].rt] = k

IsOf(record, r) == record # None /\ record.rt = r

(* The runtimes that KEB listed as billable during the whole call, while   *)
(* it took none off its list, and that have a subaccount to themselves.    *)
SteadyAlone ==
    {r \in steady \ Filtered :
        /\ change # "removed"
        /\ SubAccountOf[r] # None
        /\ \A i \in EntriesOf(SubAccountOf[r]) : entries[i].rt = r}

(* A poll never costs a customer's cluster its record, or the scans kept   *)
(* in it for the next failure, if the cluster was billable and listed all  *)
(* the time and KEB took nothing off its list meanwhile: not if runtimes   *)
(* are added in front of it, and not if it is listed on two pages.  Its    *)
(* own steps leave the record alone, but for one that a worker has stored  *)
(* since the look-up, which may lose its scans to a new one; and when the  *)
(* poll is over the cluster has a record, unless a worker stored that of   *)
(* another cluster too late for the poller to see.                         *)
SteadyKeepsRecord ==
    [][populateCacheAndQueue =>
          \A r \in SteadyAlone :
              LET k == SubAccountOf[r]
              IN  /\ IsOf(cache[k], r) =>
                        IF k \in late THEN IsOf(cache'[k], r) ELSE cache'[k] = cache[k]
                  /\ EndPoll /\ k \notin late => IsOf(cache[k], r)]_pollVars

(* After a poll nothing is billed that was not billable, and on KEB's      *)
(* list, at some time during the call, whatever was cached before, with    *)
(* two exceptions: a record that a worker stored after the poller's last   *)
(* look at the subaccount or write to it, and the record of a subaccount   *)
(* that the list names with filtered runtimes only.                        *)
NothingElseIsBilled ==
    [][EndPoll =>
          \A k \in SubAccounts \ late :
              cache[k] # None => cache[k].rt \in ever \/ OnlySkipped(k)]_pollVars

(* If a list has several entries for one subaccount, two clusters of it or *)
(* one cluster at two times, the last one that is not skipped decides      *)
(* alone, whatever the cache held before and whatever the workers stored   *)
(* before the poller's last look or write.                                 *)
LastEntryDecides ==
    [][EndPoll =>
          \A k \in SubAccounts \ late :
              \/ OnlySkipped(k)
              \/ IF EntriesOf(k) = {} \/ ~ entries[Max(EntriesOf(k))].billable
                 THEN cache[k] = None
                 ELSE IsOf(cache[k], entries[Max(EntriesOf(k))].rt)]_pollVars
=============================================================================
