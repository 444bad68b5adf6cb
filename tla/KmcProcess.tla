----------------------------- MODULE KmcProcess -----------------------------
(***************************************************************************)
(* pkg/process: the goroutine that polls the Kyma Environment Broker (KEB) *)
(* and keeps the record cache and the work queue up to date, and the pool  *)
(* of workers that take subaccounts off the queue, collect the resources   *)
(* of their cluster and send them to the Event Data Platform (EDP).        *)
(*                                                                         *)
(* The goroutines share the cache (go-cache, one lock per call), the queue *)
(* (module DelayingQueue) and the Prometheus metric vectors.  A step of    *)
(* this module makes at most one call on the cache or the queue, so every  *)
(* order in which the calls of the goroutines can be interleaved is a      *)
(* behaviour.                                                              *)
(***************************************************************************)
EXTENDS DelayingQueue

CONSTANTS
    Runtimes,       \* the clusters: shoot name, runtime ID and instance ID
    Workers,        \* the goroutines running execute
    SubAccountOf,   \* the subaccount of every runtime
    Answers,        \* what KEB may say of each runtime in an instance
    Silent,         \* the clusters whose API server may never answer
    None            \* nil, and "not in the cache"

(* A Record of pkg/runtime/kubeconfigprovider/record.go: the cluster it    *)
(* describes and the cluster its ScanMap was scanned from.                 *)
Record == [rt : Runtimes, scans : Runtimes \cup {None}]

(* What a KEB answer says of a runtime: not listed (or listed without a    *)
(* subaccount ID), in a filtered global account, or the verdict of         *)
(* isRuntimeTrackable on it.                                               *)
Status == {"absent", "filtered", "trackable", "untrackable"}

Replies == {reply \in [Runtimes -> Status] : \A r \in Runtimes : reply[r] \in Answers[r]}

ASSUME SilentAssumption == Silent \subseteq Runtimes

ASSUME SubAccountOfAssumption == SubAccountOf \in [Runtimes -> SubAccounts]

ASSUME NoneAssumption ==
    /\ None \notin Runtimes
    /\ None \notin SubAccounts
    /\ None \notin Record

VARIABLES
    cache,      \* the record of each subaccount, None if it has none
    series,     \* the runtimes that have metric series; None stands for the
                \* series recorded with no cluster labels
    reply,      \* the last complete answer of KEB
    ppc,        \* where the poller is
    todo,       \* the runtimes of reply that the poller still has to visit
    cur,        \* the runtime it is visiting
    found,      \* the record it read from the cache for it
    items,      \* the snapshot of the cache the cleanup loop ranges over
    wpc,        \* where each worker is
    wkey,       \* the subaccount it took from the queue
    wrec        \* its copy of the subaccount's record

pollerVars == <<reply, ppc, todo, cur, found, items>>
workerVars == <<wpc, wkey, wrec>>
vars == <<queueVars, cache, series, pollerVars, workerVars>>

PollerPcs == {"sleep", "visit", "add", "enqueue", "reset", "drop", "purge",
              "sweep", "sweepPurge"}
WorkerPcs == {"idle", "lookup", "collect", "error", "record", "store",
              "done", "doneRequeue", "requeue"}

CacheTypeOK ==
    /\ cache \in [SubAccounts -> Record \cup {None}]
    /\ series \subseteq Runtimes \cup {None}

PollerTypeOK ==
    /\ reply \in [Runtimes -> Status]
    /\ ppc \in PollerPcs
    /\ todo \subseteq Runtimes
    /\ cur \in Runtimes \cup {None}
    /\ found \in Record \cup {None}
    /\ items \in [SubAccounts -> Record \cup {None}]

WorkerTypeOK ==
    /\ wpc \in [Workers -> WorkerPcs]
    /\ wkey \in [Workers -> SubAccounts \cup {None}]
    /\ wrec \in [Workers -> Record \cup {None}]

(* Every variable has the type of the state it models: in particular, the  *)
(* cache only ever holds values that the workers can cast to a Record.     *)
TypeOK ==
    /\ QueueTypeOK
    /\ CacheTypeOK
    /\ PollerTypeOK
    /\ WorkerTypeOK

NoItems == [k \in SubAccounts |-> None]

(* New and Start.                                                          *)
Init ==
    /\ QueueInit
    /\ cache = NoItems
    /\ series = {}
    /\ reply = [r \in Runtimes |-> "absent"]
    /\ ppc = "sleep"
    /\ todo = {}
    /\ cur = None
    /\ found = None
    /\ items = NoItems
    /\ wpc = [w \in Workers |-> "idle"]
    /\ wkey = [w \in Workers |-> None]
    /\ wrec = [w \in Workers |-> None]
-----------------------------------------------------------------------------
(* The poller.                                                             *)

(* Faulty variant: the shoot name is not filled in.                        *)
NewRecordWithoutShoot(r) == [rt |-> None, scans |-> None]

NewRecord(r) == [rt |-> r, scans |-> None]

Listed(answer) == {r \in Runtimes : answer[r] # "absent"}

(* GetAllRuntimes succeeds: the answer is any list of runtimes, in any     *)
(* order.  A poll that fails changes nothing and is a stuttering step.     *)
PollFetch ==
    /\ ppc = "sleep"
    /\ \E answer \in Replies :
          /\ reply' = answer
          /\ todo' = Listed(answer)
    /\ ppc' = "visit"
    /\ UNCHANGED <<queueVars, cache, series, cur, found, items, workerVars>>

(* The loop body up to the first write: the cache is read for the          *)
(* runtime's subaccount and the branch is chosen from what was read.       *)
Visit(r, branch, record) ==
    /\ ppc = "visit"
    /\ r \in todo
    /\ todo' = todo \ {r}
    /\ ppc' = branch
    /\ cur' = IF branch = "visit" THEN None ELSE r
    /\ found' = record
    /\ UNCHANGED <<queueVars, cache, series, reply, items, workerVars>>

Cached(r) == cache[SubAccountOf[r]]

(* The runtime is filtered, or is trackable and known under this shoot     *)
(* name, or is neither trackable nor known.                                *)
PollSkip(r) ==
    /\ \/ reply[r] = "filtered"
       \/ reply[r] = "trackable" /\ Cached(r) # None /\ Cached(r).rt = r
       \/ reply[r] = "untrackable" /\ Cached(r) = None
    /\ Visit(r, "visit", None)

PollNew(r) ==
    /\ reply[r] = "trackable"
    /\ Cached(r) = None
    /\ Visit(r, "add", None)

PollChanged(r) ==
    /\ reply[r] = "trackable"
    /\ Cached(r) # None
    /\ Cached(r).rt # r
    /\ Visit(r, "reset", Cached(r))

PollUntrackable(r) ==
    /\ reply[r] = "untrackable"
    /\ Cached(r) # None
    /\ Visit(r, "drop", Cached(r))

(* Cache.Add fails when a worker has stored a record for the subaccount    *)
(* since the poller looked: the runtime is then not queued.                *)
PollAdd ==
    /\ ppc = "add"
    /\ IF Cached(cur) = None
       THEN /\ cache' = [cache EXCEPT ![SubAccountOf[cur]] = NewRecord(cur)]
            /\ ppc' = "enqueue"
            /\ UNCHANGED cur
       ELSE /\ ppc' = "visit"
            /\ cur' = None
            /\ UNCHANGED cache
    /\ UNCHANGED <<queueVars, series, reply, todo, found, items, workerVars>>

PollEnqueue ==
    /\ ppc = "enqueue"
    /\ Add(SubAccountOf[cur])
    /\ ppc' = "visit"
    /\ cur' = None
    /\ UNCHANGED <<cache, series, reply, todo, found, items, workerVars>>

(* Faulty variant: the new record inherits the scans of the old shoot.     *)
PollResetKeepingScans ==
    /\ ppc = "reset"
    /\ cache' = [cache EXCEPT ![SubAccountOf[cur]] = [rt |-> cur, scans |-> found.scans]]
    /\ ppc' = "purge"
    /\ UNCHANGED <<queueVars, series, reply, todo, cur, found, items, workerVars>>

(* Faulty variant: the record that was read is written instead of the new. *)
PollResetToFound ==
    /\ ppc = "reset"
    /\ cache' = [cache EXCEPT ![SubAccountOf[cur]] = found]
    /\ ppc' = "purge"
    /\ UNCHANGED <<queueVars, series, reply, todo, cur, found, items, workerVars>>

(* The shoot name has changed: the record is replaced, nothing is queued.  *)
PollReset ==
    /\ ppc = "reset"
    /\ cache' = [cache EXCEPT ![SubAccountOf[cur]] = NewRecord(cur)]
    /\ ppc' = "purge"
    /\ UNCHANGED <<queueVars, series, reply, todo, cur, found, items, workerVars>>

PollDrop ==
    /\ ppc = "drop"
    /\ cache' = [cache EXCEPT ![SubAccountOf[cur]] = None]
    /\ ppc' = "purge"
    /\ UNCHANGED <<queueVars, series, reply, todo, cur, found, items, workerVars>>

(* deleteMetrics for the record that was read, not the one now cached.     *)
DeleteMetrics(record) == series' = series \ {record.rt}

PollPurge ==
    /\ ppc = "purge"
    /\ DeleteMetrics(found)
    /\ ppc' = "visit"
    /\ cur' = None
    /\ found' = None
    /\ UNCHANGED <<queueVars, cache, reply, todo, items, workerVars>>

(* Faulty variant: the cleanup loop spares every subaccount.               *)
ValidSubAccountsAll == SubAccounts

ValidSubAccounts == {SubAccountOf[r] : r \in Listed(reply)}

(* Cache.Items(): the cleanup loop ranges over a copy of the cache.        *)
PollSweep ==
    /\ ppc = "visit"
    /\ todo = {}
    /\ items' = [k \in SubAccounts |->
                    IF k \in ValidSubAccounts THEN None ELSE cache[k]]
    /\ ppc' = "sweep"
    /\ UNCHANGED <<queueVars, cache, series, reply, todo, cur, found, workerVars>>

PollSweepDrop(k) ==
    /\ ppc = "sweep"
    /\ items[k] # None
    /\ cache' = [cache EXCEPT ![k] = None]
    /\ found' = items[k]
    /\ items' = [items EXCEPT ![k] = None]
    /\ ppc' = "sweepPurge"
    /\ UNCHANGED <<queueVars, series, reply, todo, cur, workerVars>>

PollSweepPurge ==
    /\ ppc = "sweepPurge"
    /\ DeleteMetrics(found)
    /\ found' = None
    /\ ppc' = "sweep"
    /\ UNCHANGED <<queueVars, cache, reply, todo, cur, items, workerVars>>

PollEnd ==
    /\ ppc = "sweep"
    /\ items = NoItems
    /\ ppc' = "sleep"
    /\ UNCHANGED <<queueVars, cache, series, reply, todo, cur, found, items, workerVars>>

Poller ==
    \/ PollFetch
    \/ \E r \in Runtimes :
          PollSkip(r) \/ PollNew(r) \/ PollChanged(r) \/ PollUntrackable(r)
    \/ PollAdd
    \/ PollEnqueue
    \/ PollReset
    \/ PollDrop
    \/ PollPurge
    \/ PollSweep
    \/ \E k \in SubAccounts : PollSweepDrop(k)
    \/ PollSweepPurge
    \/ PollEnd
-----------------------------------------------------------------------------
(* The workers.                                                            *)

Goto(w, from, to) ==
    /\ wpc[w] = from
    /\ wpc' = [wpc EXCEPT ![w] = to]

(* Faulty variant: Done is called as soon as the key is taken.             *)
WorkerGetDoneFirst(w) ==
    /\ Goto(w, "idle", "lookup")
    /\ queue # <<>>
    /\ queue' = Tail(queue)
    /\ dirty' = dirty \ {Head(queue)}
    /\ wkey' = [wkey EXCEPT ![w] = Head(queue)]
    /\ UNCHANGED <<processing, waiting, cache, series, pollerVars, wrec>>

(* Faulty variant: Start runs execute once only.                           *)
WorkerGetOnlyFirst(w) ==
    /\ w = CHOOSE v \in Workers : TRUE
    /\ Goto(w, "idle", "lookup")
    /\ \E k \in SubAccounts :
          /\ Get(k)
          /\ wkey' = [wkey EXCEPT ![w] = k]
    /\ UNCHANGED <<cache, series, pollerVars, wrec>>

WorkerGet(w) ==
    /\ Goto(w, "idle", "lookup")
    /\ \E k \in SubAccounts :
          /\ Get(k)
          /\ wkey' = [wkey EXCEPT ![w] = k]
    /\ UNCHANGED <<cache, series, pollerVars, wrec>>

(* No record: the subaccount is not tracked any more and is not requeued.  *)
WorkerMiss(w) ==
    /\ Goto(w, "lookup", "done")
    /\ cache[wkey[w]] = None
    /\ series' = series \cup {None}
    /\ UNCHANGED <<queueVars, cache, pollerVars, wkey, wrec>>

WorkerHit(w) ==
    /\ Goto(w, "lookup", "collect")
    /\ cache[wkey[w]] # None
    /\ wrec' = [wrec EXCEPT ![w] = cache[wkey[w]]]
    /\ UNCHANGED <<queueVars, cache, series, pollerVars, wkey>>

(* The kubeconfig, the REST config or the clients cannot be had.           *)
WorkerUnreachable(w) ==
    /\ Goto(w, "collect", "error")
    /\ UNCHANGED <<queueVars, cache, series, pollerVars, wkey, wrec>>

(* CollectAndSend fails, having sent a payload or not.                     *)
WorkerCollectFails(w) ==
    /\ Goto(w, "collect", "error")
    /\ series' = series \cup {wrec[w].rt}
    /\ UNCHANGED <<queueVars, cache, pollerVars, wkey, wrec>>

(* CollectAndSend succeeds: the new scans are all of this runtime.         *)
WorkerCollect(w) ==
    /\ Goto(w, "collect", "record")
    /\ series' = series \cup {wrec[w].rt}
    /\ wrec' = [wrec EXCEPT ![w].scans = wrec[w].rt]
    /\ UNCHANGED <<queueVars, cache, pollerVars, wkey>>

WorkerRecord(w) ==
    /\ Goto(w, "record", "store")
    /\ series' = series \cup {wrec[w].rt}
    /\ UNCHANGED <<queueVars, cache, pollerVars, wkey, wrec>>

(* The record read at the start is written back, whatever the cache holds. *)
WorkerStore(w) ==
    /\ Goto(w, "store", "doneRequeue")
    /\ cache' = [cache EXCEPT ![SubAccountOf[wrec[w].rt]] = wrec[w]]
    /\ wrec' = [wrec EXCEPT ![w] = None]
    /\ UNCHANGED <<queueVars, series, pollerVars, wkey>>

(* Faulty variant: an error is recorded but the key is not requeued.       *)
WorkerErrorNoRequeue(w) ==
    /\ Goto(w, "error", "done")
    /\ series' = series \cup {wrec[w].rt}
    /\ wrec' = [wrec EXCEPT ![w] = None]
    /\ UNCHANGED <<queueVars, cache, pollerVars, wkey>>

(* handleError.                                                            *)
WorkerError(w) ==
    /\ Goto(w, "error", "done")
    /\ AddAfter(wkey[w])
    /\ series' = series \cup {wrec[w].rt}
    /\ wrec' = [wrec EXCEPT ![w] = None]
    /\ UNCHANGED <<cache, pollerVars, wkey>>

WorkerDone(w) ==
    /\ Goto(w, "done", "idle")
    /\ Done(wkey[w])
    /\ wkey' = [wkey EXCEPT ![w] = None]
    /\ UNCHANGED <<cache, series, pollerVars, wrec>>

WorkerDoneRequeue(w) ==
    /\ Goto(w, "doneRequeue", "requeue")
    /\ Done(wkey[w])
    /\ UNCHANGED <<cache, series, pollerVars, wkey, wrec>>

(* Faulty variant: Done is called once more when the key is requeued.      *)
WorkerRequeueDoneAgain(w) ==
    /\ Goto(w, "requeue", "idle")
    /\ queue' = IF wkey[w] \in dirty THEN Append(queue, wkey[w]) ELSE queue
    /\ processing' = processing \ {wkey[w]}
    /\ waiting' = waiting \cup {wkey[w]}
    /\ wkey' = [wkey EXCEPT ![w] = None]
    /\ UNCHANGED <<dirty, cache, series, pollerVars, wrec>>

WorkerRequeue(w) ==
    /\ Goto(w, "requeue", "idle")
    /\ AddAfter(wkey[w])
    /\ wkey' = [wkey EXCEPT ![w] = None]
    /\ UNCHANGED <<cache, series, pollerVars, wrec>>

Worker(w) ==
    \/ WorkerGet(w)
    \/ WorkerMiss(w)
    \/ WorkerHit(w)
    \/ WorkerUnreachable(w)
    \/ WorkerCollectFails(w)
    \/ WorkerCollect(w)
    \/ WorkerRecord(w)
    \/ WorkerStore(w)
    \/ WorkerError(w)
    \/ WorkerDone(w)
    \/ WorkerDoneRequeue(w)
    \/ WorkerRequeue(w)

(* A requeue delay of the queue runs out.                                  *)
Timer(k) ==
    /\ Expire(k)
    /\ UNCHANGED <<cache, series, pollerVars, workerVars>>

Step ==
    \/ Poller
    \/ \E w \in Workers : Worker(w)
    \/ \E k \in SubAccounts : Timer(k)

(* The process ends at any point (a panic, a fatal error, a signal, an     *)
(* eviction of the pod) and is started again: nothing is persisted.        *)
Restart ==
    /\ queue' = <<>>
    /\ dirty' = {}
    /\ processing' = {}
    /\ waiting' = {}
    /\ cache' = NoItems
    /\ series' = {}
    /\ reply' = [r \in Runtimes |-> "absent"]
    /\ ppc' = "sleep"
    /\ todo' = {}
    /\ cur' = None
    /\ found' = None
    /\ items' = NoItems
    /\ wpc' = [w \in Workers |-> "idle"]
    /\ wkey' = [w \in Workers |-> None]
    /\ wrec' = [w \in Workers |-> None]

Next == Step \/ Restart

Spec == Init /\ [][Next]_vars

(* The calls to a silent cluster have no timeout and may never return.     *)
Stuck(w) == wpc[w] = "collect" /\ wrec[w].rt \in Silent

(* Goroutines are scheduled, the calls they make return unless they are    *)
(* stuck, KEB answers some poll in the end and timers run out.             *)
Fairness ==
    /\ WF_vars(Poller)
    /\ \A w \in Workers : WF_vars(~ Stuck(w) /\ Worker(w))
    /\ \A k \in SubAccounts : WF_vars(Timer(k))

FairSpec == Spec /\ Fairness
-----------------------------------------------------------------------------
(* Properties.                                                             *)

(* Worker w has taken k from the queue and will still put it back: by a    *)
(* requeue delay, or by the Done of a key that became dirty meanwhile.     *)
WillRequeue(w, k) ==
    /\ wkey[w] = k
    /\ wpc[w] = "done" => k \in dirty

(* No tracked subaccount is forgotten: as long as it has a record, it is   *)
(* queued, or its requeue delay is running, or a worker is on it and will  *)
(* requeue it, or the poller has just added it and is about to queue it.   *)
(* This is what the comment of populateCacheAndQueue relies on when it     *)
(* does not queue a subaccount whose shoot name changed ("already exists   *)
(* in queue").                                                             *)
NoSubAccountLost ==
    \A k \in SubAccounts : cache[k] # None =>
        \/ k \in Queued \cup waiting
        \/ \E w \in Workers : WillRequeue(w, k)
        \/ ppc = "enqueue" /\ SubAccountOf[cur] = k

(* Worker w is between the Get and the Done of its subaccount.             *)
Busy(w) == wpc[w] \notin {"idle", "requeue"}

(* Two workers are never inside processSubAccountID for one subaccount:    *)
(* the queue hands a key out again only after Done, although the poller    *)
(* and the requeue delays keep adding it.                                  *)
OneWorkerPerSubAccount ==
    \A v, w \in Workers : Busy(v) /\ Busy(w) /\ wkey[v] = wkey[w] => v = w

(* CollectAndSend falls back on the ScanMap it is given for every scan     *)
(* that fails and sends the result under the record's shoot.  That ScanMap *)
(* is always of this very shoot, or nil, although workers write records    *)
(* back that the poller has replaced meanwhile.                            *)
FallbackIsOwnScans ==
    \A w \in Workers :
        wpc[w] = "collect" => wrec[w].scans \in {None, wrec[w].rt}

(* A subaccount that stays in the cache is visited over and over, also if  *)
(* fewer clusters than there are workers never answer: the queue does not  *)
(* hand a subaccount out again before Done, so a silent cluster holds one  *)
(* worker and no more, however often the poller drops and adds it.         *)
CollectedForever ==
    \A k \in SubAccounts :
        []<>(cache[k] = None \/ \E w \in Workers : wkey[w] = k /\ wpc[w] = "collect")

Gone(k) ==
    \A r \in Runtimes :
        SubAccountOf[r] = k => reply[r] \in {"absent", "untrackable"}

(* A subaccount with no billable runtime left is taken out of the cache,   *)
(* again after each time a late worker writes it back.                     *)
GoneIsDropped ==
    \A k \in SubAccounts : <>[]Gone(k) => []<>(cache[k] = None)

SoleRuntime(r) ==
    /\ reply[r] = "trackable"
    /\ \A s \in Runtimes \ {r} : SubAccountOf[s] = SubAccountOf[r] => reply[s] = "absent"

(* When a subaccount's one runtime stays billable, its record is brought   *)
(* to that runtime, whatever shoot it had before.                          *)
RecordFollowsKEB ==
    \A r \in Runtimes :
        <>[]SoleRuntime(r) => []<>(Cached(r) # None /\ Cached(r).rt = r)

(* What the contributor documentation promises: a cluster that is not      *)
(* billable is skipped.  Once a poll that found it not billable is over,   *)
(* no worker starts to collect it.                                         *)
NonBillableIsSkipped ==
    [][\A w \in Workers :
          wpc[w] = "lookup" /\ wpc'[w] = "collect" /\ ppc = "sleep"
             => reply[wrec'[w].rt] \notin {"absent", "untrackable"}]_vars

(* What the tests of populateCacheAndQueue expect: a cluster that KEB does *)
(* not return any more has no metrics left.  Stated for the moments when   *)
(* no poll and no processing is under way.                                 *)
MetricsAreRemoved ==
    ppc = "sleep" /\ (\A w \in Workers : wpc[w] = "idle")
        => \A r \in Runtimes : reply[r] = "absent" => r \notin series
-----------------------------------------------------------------------------
(* The process implements the promise of SubAccountSpec.                   *)

(* Somebody will still process k.                                          *)
Pending(k) ==
    \/ k \in dirty \cup waiting
    \/ \E w \in Workers : wkey[w] = k /\ wpc[w] # "done"
    \/ ppc = "enqueue" /\ SubAccountOf[cur] = k

Due == {k \in SubAccounts : Pending(k)}

(* Worker w works on a copy of a record.                                   *)
HasRecord(w) == wpc[w] \in {"collect", "error", "record", "store"}

BilledCluster == [k \in SubAccounts |-> IF cache[k] = None THEN None ELSE cache[k].rt]

Copies == {<<wkey[w], wrec[w].rt>> : w \in {v \in Workers : HasRecord(v)}}

SubAccount == INSTANCE SubAccountSpec WITH
    record <- BilledCluster,
    due <- Due,
    visited <- processing,
    copies <- Copies

(* The steps of poller, workers and timers are, subaccount by subaccount,  *)
(* those of SubAccountSpec: only a visit under way brings a dropped record *)
(* back, and only the record of the cluster it was for; only a visit that  *)
(* finds no record takes a subaccount out of the cycle.                    *)
ImplementsSubAccountSpec == SubAccount!Spec

(* The same with the visits that SubAccountSpec promises to who is due.    *)
ImplementsFairSubAccountSpec == SubAccount!FairSpec
-----------------------------------------------------------------------------
(* The inductive invariant behind the safety properties.                   *)

OwnScans(record) == record.scans \in {None, record.rt}

(* A worker between Get and Done has a key that the queue is guarding for  *)
(* it, and the record it works on is one of that key.                      *)
WorkerInv ==
    \A w \in Workers :
        /\ wpc[w] = "idle" <=> wkey[w] = None
        /\ Busy(w) => wkey[w] \in processing
        /\ HasRecord(w) =>
              /\ wrec[w] \in Record
              /\ SubAccountOf[wrec[w].rt] = wkey[w]
              /\ OwnScans(wrec[w])

(* The queue considers no key in processing that no worker has.            *)
ProcessingIsHeld ==
    \A k \in processing : \E w \in Workers : Busy(w) /\ wkey[w] = k

(* Every record is filed under its own subaccount.                         *)
CacheInv ==
    \A k \in SubAccounts : cache[k] # None =>
        SubAccountOf[cache[k].rt] = k /\ OwnScans(cache[k])

(* What the poller knows of the cache: the record it is about to replace   *)
(* is still there, because nobody else removes records.                    *)
PollerInv ==
    /\ ppc \in {"add", "enqueue", "reset", "drop", "purge"} => cur \in Runtimes
    /\ ppc = "reset" => Cached(cur) # None

PendingInv == \A k \in SubAccounts : cache[k] # None => Pending(k)

IInv ==
    /\ TypeOK
    /\ QueueInv
    /\ WorkerInv
    /\ ProcessingIsHeld
    /\ OneWorkerPerSubAccount
    /\ CacheInv
    /\ PollerInv
    /\ PendingInv
=============================================================================
