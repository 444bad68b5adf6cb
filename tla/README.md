# Kyma Metrics Collector: TLA+ specifications

The Kyma Metrics Collector (KMC) asks the Kyma Environment Broker (KEB) which
clusters (SAP BTP, Kyma runtimes, "SKRs") exist, visits each billable one
regularly, scans its billable resources and posts one event per visit to the
Event Data Platform (EDP).  What it gets wrong ends up on a bill, or is missing
from one.

This directory holds TLA+ modules of the parts of KMC that decide what is
collected, when, and what is sent, TLC configurations that check them on small
instances, and TLAPS proofs of the main safety properties for instances of any
size.  Paths below are relative to the root of the repository.
`PROJECT.json` lists components, runs, hazards and findings, and maps every
definition to the lines it models.

## The system

| Part | Source | Module |
|------|--------|--------|
| Poller: one goroutine that keeps the record cache and the queue in line with KEB | `pkg/process/keb_processing.go` | `KmcProcess`, `KebPoll` |
| Workers: a pool of goroutines that take a subaccount off the queue, collect, store the scans and requeue | `pkg/process/process.go`, `queue_processing.go` | `KmcProcess` |
| Queue: client-go's delaying work queue | `pkg/queue/queue.go`, library | `DelayingQueue` |
| Record cache: go-cache without expiration | `pkg/runtime/kubeconfigprovider/record.go`, library | `KmcProcess` |
| What the process promises for a subaccount | `pkg/process` | `SubAccountSpec` |
| Metric series per cluster; scan counters | `pkg/process/metrics.go`, `pkg/collector/metrics.go` | `KmcProcess`; `EDPCollector` |
| Billable or not: the verdict on a runtime's operations | `pkg/process/cluster_tracking.go` | `ClusterTracking` |
| Collector: scan, convert, fall back, send | `pkg/collector/edp/collector.go`, `payload.go` | `EDPCollector`, `ScanMapSpec` |
| EDP client with retries | `pkg/collector/edp/client.go` | `EDPCollector` |
| KEB client: pages and retries | `pkg/keb/client.go` | `KEBClient`, composed with the poller in `KebPoll` |
| Kubeconfig cache with a jittered TTL | `pkg/runtime/kubeconfigprovider/kubeconfig.go` | `KubeconfigProvider` |
| Scanners and conversions for nodes, volumes, snapshots, Redis | `pkg/resource` | `Measurement` |
| Public cloud specs (machine and Redis tables) | `pkg/config` | constants of `Measurement`; loading in `KmcService` |
| Filter file of global accounts | `pkg/process/filter_clusters.go` | `KmcService`; given (`"filtered"`, `Filtered`) in `KmcProcess` and `KebPoll` |
| Startup, HTTP servers, signals, the end of the process | `cmd`, `options`, `pkg/service`, `pkg/otel` | `KmcService` |
| SKR clients, logging | `pkg/runtime`, `pkg/logger` | not modelled |
| Unified metering collector | `pkg/collector/unifiedmetering` | not modelled: not wired up, and sending is empty |

They interact like this.  The poller calls the KEB client for a list, asks
`isRuntimeTrackable` about each runtime and edits the cache, the queue and the
metrics.  A worker takes a subaccount from the queue, copies its record from the
cache, gets a kubeconfig, calls `CollectAndSend` with the ScanMap of the record,
writes the record with the new ScanMap back to the cache and puts the subaccount
into the queue again with a delay.  Poller and workers run concurrently and hold
no lock across two calls on the cache or the queue: that is where most of what
can go wrong lies.

## The modules

**`DelayingQueue`** is client-go's queue as the process uses it: the FIFO
`queue`, the sets `dirty` and `processing`, and `waiting`, the keys with a
running delay.  `Add`, `Get`, `Done`, `AddAfter` and `Expire` are its
operations.  The handover of `AddAfter` to the library's waiting loop is part of
`waiting`.  It is never shut down.

**`KmcProcess`** composes poller, workers, cache, queue and metrics.  An action
makes at most one call on the cache or the queue, so the interleavings are those
of the code.  The poller's program counter `ppc` walks through one poll:
`PollFetch`; for each runtime of the answer the look-up and branch (`PollSkip`,
`PollNew`, `PollChanged`, `PollUntrackable`), then the writes of the branch
(`PollAdd`, `PollEnqueue`, `PollReset`, `PollDrop`, `PollPurge`); then the
cleanup loop over a copy of the cache (`PollSweep`, `PollSweepDrop`,
`PollSweepPurge`, `PollEnd`).  A worker's `wpc` walks through `execute`,
`processSubAccountID` and `handleError`.

* A record is the cluster it names and the cluster its ScanMap was scanned from.
  That a ScanMap can be treated as one value is what `ScanMapSpec` says.
* KEB's answer to a poll is any function from the runtimes to `Answers`.
  `"absent"` also stands for runtimes listed without a subaccount ID.  That a
  list may have a runtime twice is left to `KebPoll`.  A poll that fails changes
  nothing and is a stuttering step.
* The code's branches for a cache item that is not a `Record` are left out;
  theorem `TypeCorrect` shows that they are dead.  (One of them would dereference
  a nil record in `handleError`.)
* `Restart` is the end of the process at any point and its new start: nothing is
  persisted, so it leads back to the initial state.
* `Silent` clusters may accept a connection and never answer; a worker that
  collects from one may be `Stuck` there.
* `series` records whether a cluster has metric series, not their values.

**`SubAccountSpec`** says what all of this amounts to for a subaccount: it is
visited by one worker at a time; who has a record is due for a visit; the record
changes only when KEB says so or when a visit writes back the cluster it was for;
a visit that finds no record is the last one.  `KmcProcess` implements it with
`Due`, `BilledCluster` and `Copies` as the refinement mapping, and
`FairSpec`, where who is due is visited, as well.

**`EDPCollector`** is `CollectAndSend` run after run for one subaccount.  A scan
is the run that took it and whether it converts; any scan, conversion, payload or
request may fail, and EDP may accept an event although the client sees an error.
`Reset` is the poller replacing or dropping the record at any time.  `scanned`
and `converted` are what the run has added to `scans_total` and
`scans_converted_total`, as the values of the success label.
**`ScanMapSpec`** is the promise: the stored ScanMap is empty or holds one scan
of every scanner, all of the same run.

**`KEBClient`** is `GetAllRuntimes` against a list that KEB changes between the
requests.  **`KebPoll`** extends it to whole polls, every step of the
client being a step of `KEBClient`: the entries read are copies
of the runtimes as they were when their page was read, KEB also changes whether a
runtime is billable, and `populateCacheAndQueue` walks through the entries with one
call on the cache per step: it passes over entries without a subaccount or of a
filtered account (`SkipEntry`), looks the subaccount up (`VisitEntry`), adds, replaces
or deletes the record (`WriteEntry`; `Cache.Add` fails if there is a record by then),
copies the cache (`StartCleanup`) and deletes what the list does not name (`Cleanup`).
Meanwhile a worker may read a record (`TakeRecord`) and later write its copy back
(`StoreRecord`) or give up (`LeaveRecord`).  The queue and the metrics are in
`KmcProcess`; here a worker may turn up at any time.  `late` is the set of subaccounts
that a worker has stored after the poller's last look at them or write to them: about
these the poll's list does not have the last word, and the properties say so.

**`KubeconfigProvider`** is `Get` with its loader and `getJitterTTL` for one
runtime, with a clock in steps and a secret that is rotated or lost.

**`ClusterTracking`** is `isRuntimeTrackable` over every history of operations
that the cluster lifecycle of `docs/contributor/README.md` allows.  Operations
may have the same creation time; `sort.Slice` is not stable, so the module has
`MayBeTrackable` and `MayBeUntrackable`, which exclude each other unless there
is a tie.

**`KmcService`** is the process from outside: `main` as a sequence of ten steps
any of which may be fatal, among them the specs file and the filter file; then
the poller, the main server and, if there is a debug port, the debug server in
their goroutines; signals, which the Go runtime hands to whoever has registered,
or which kill the process if nobody has; the graceful shutdown and the deferred
flush of the traces, which may fail; a listener that fails before or while it serves;
and restarts with another configuration.

**`Measurement`** is what a run sees of a cluster and what it makes of it: the
scanners list their resources one after the other while the cluster changes, the
scans are converted (`NodeEDP`, `PvcEDP`, `RedisEDP`, `VscEDP`) and summed up.
A resource has the states its conversion tells apart; sizes are in units of
256 MiB.  The three lists of the Redis scanner are one list: a cluster has one provider,
and a kind of resource that the cluster does not know is an empty list.  The runs of this module start without a ScanMap, as after a restart:
what fails is left out, and `EDPCollector` is about falling back.  The expected
values (`Ones`, `Gb`) are stated without the conversions.

`MCKmcProcess`, `MCKebPoll` and `MCMeasurement` add symmetry sets and the functions
that are values of constants.  Operators with
the comment "Faulty variant" are not part of any specification: each is a
plausible mistake in the definition that follows, and is used to make sure that
the properties would notice it.

## What is checked

| Run | Instance | Shows |
|-----|----------|-------|
| `convergence` | 1 subaccount, 2 clusters, 1 worker, all answers, restarts, fair | `TypeOK`; `NoSubAccountLost`: a cached subaccount is always queued, delayed or held by somebody who will queue it; `FallbackIsOwnScans`: scans of a replaced cluster are never sent for the new one; `ImplementsSubAccountSpec` (refinement); `GoneIsDropped`, `RecordFollowsKEB`: the cache comes to agree with a steady KEB although workers write old records back |
| `silent_cluster` | 2 subaccounts, 2 workers, one silent cluster, restarts, fair | `QueueInv`: the process keeps the queue's books in step; `OneWorkerPerSubAccount`; `CollectedForever`: nobody is starved, although a worker may be lost to the silent cluster; `ImplementsFairSubAccountSpec` |
| `edp_runs` | 3 scanners, 3 runs, 2 attempts, fair | `TypeOK`, `RetriesRepeatThePayload`, `PayloadCoversAllScanners`, `FailuresAreCounted`: when a run sends, its counters show a failure exactly if it has met an error so far (its scans are then not kept; they are not kept either if sending fails), `StoredOnlyIfAccepted`, `ImplementsScanMap` (refinement of `ScanMapSpec`), `ScannedRunReturns`: after its scans a run returns |
| `keb_poll` | 3 runtimes of 1 subaccount, one of them filtered, a worker, pages of 1, 2 attempts, 2 changes per call, fair | `TypeOK`, `NothingMissed`, `ExactIfUnchanged`, `FetchReturns` of the client; `SteadyKeepsRecord`: the poller leaves the record and the scans of a cluster that is billable all the time alone, although runtimes are added in front of it and it is read twice; `NothingElseIsBilled`: nothing is billed that was not billable during the poll; `LastEntryDecides`: the last entry of a subaccount that is not skipped decides alone; the last two but for what a worker stores after the poller's last look |
| `kubeconfig_stale` | TTLs of 2, 3, 7 and 10 minutes, 20 minutes of time, 2 contents | `TypeOK` (no unusable secret is cached), `ReplacedInTime` |
| `tracking_lifecycle` | all histories of up to 5 operations, with ties | `TypeOK`, `OnlyRunningIsTracked`, `BillingStopsByIntent` |
| `measurement` | 2 nodes, a plain and an NFS volume, a snapshot, a Redis instance, 3 of them at a time, 1 change during a run | `TypeOK`; `CountedOnce`: a resource there all the time counts once, a kind with one that is not understood is left out as a whole; `StorageOfTheRun`; `RoundingIsBounded`; `MachinesExplainCompute` |
| `service` | 2 accounts, one malformed; 2 tables; fair | `TypeOK`; `RunsOnlyConfigured`: nothing polls or serves half configured; `GracefulEnd`: returning from main means that a signal told the main server to stop and that it no longer serves; `SignalEnds`; `ComesUp`: it serves and polls or it ends |

Four runs state what a document, comment or test says and find that the code does
otherwise; the `findings` of `PROJECT.json` quote both.

| Run | Property | What happens |
|-----|----------|--------------|
| `non_billable` | `NonBillableIsSkipped` | A worker that is busy while the poller drops its cluster writes the record back and the cluster is collected again. `GoneIsDropped` shows that the record is dropped again at a later poll. |
| `metrics_removed` | `MetricsAreRemoved` | A worker that is busy while the poller removes the metrics of its cluster, and then fails, records them again for good. |
| `edp_results_dropped` | `ProcessedResultsAreStored` | One failing scanner keeps the results of all others out of the ScanMap although EDP has accepted them. |
| `kubeconfig_panic` | `LoaderDoesNotPanic` | A TTL of at least 3m and less than 3m20s makes `getJitterTTL` panic. |

The default TTL of 30 minutes is not affected by `kubeconfig_panic`.  `getJitterTTL`
also cuts the seconds off a TTL of three minutes or more, so with such a TTL an
entry can live a little shorter than the TTL says.

`isRuntimeTrackable` does not ask whether a suspension or deprovisioning succeeded:
a cluster that survives a failed one is not billed until KEB starts another
operation on it.  The tests expect that verdict, so `ClusterTracking` does not
count it as a disagreement.

With the debug server on, a signal that comes after its `signal.Notify` and before
that of the main server only stops the debug server; `SignalEnds` and `GracefulEnd`
are stated accordingly.  Nothing is promised about the last spans: `Fatal` skips the
deferred flush, and an error of the flush is only logged.

`docs/contributor/metrics.md` and the help text in `pkg/process/metrics.go` say of the
fetched-clusters gauge "All clusters fetched from KEB, including trackable and not
trackable."  `populateCacheAndQueue` counts neither runtimes of filtered accounts nor
runtimes without a subaccount.  The gauge is not modelled, so no run shows this.

When two operations on a
runtime have one creation time, the verdict can be either one's, so
`OnlyRunningIsTracked` allows a suspended or deprovisioned cluster to be billed in
that case, and never one that was not provisioned.

### Bounds

`KmcProcess` has no bound but its constants: TLC explores all behaviours of the
instance.  Two clusters of one subaccount are what `PollReset` needs; different
subaccounts meet only in the queue, for which two are enough, and two workers are
what a race between a requeue and a new `Add` needs, and one silent cluster to be
fewer than the workers.  For the safety properties and the refinement the proofs
remove the question.  `MaxRuns` = 3 gives `EDPCollector` a run that succeeds, one
that falls back on it and one after that.  Three runtimes on pages of one give
`KebPoll` a list of two to which a third is added in front between two requests, so
that a runtime is read twice, and a removal that makes one be missed; one of the three
is filtered, and all are of one subaccount, so that two clusters of a subaccount
meet and a filtered one between them.  Two moves of KEB (`MaxMoves`) during one call
are enough to add a runtime in front and change a verdict between two copies, or to add
and remove.  Between calls KEB moves freely; while the loop runs over the list, which
is local to the poller, it does not move, because only the next call would see it.
Several subaccounts and runtimes without one are left to the proofs.
`MaxTime` = 1200 s is twice the largest TTL of
`kubeconfig_stale`; the TTLs lie below and at the threshold for jitter and above
it with a buffer of two and of three minutes (420 s: a fraction is cut off the
buffer).  A call to the API server is assumed to take less than a `Step`.  Five
operations (`MaxOps`) are enough for a suspension, an unsuspension that fails and
a deprovisioning, or an update and a tie at any place; the proofs are for any
number.  `KmcService` has no bound: two accounts are one of each sort, and two
tables are a complete and several incomplete files. For `Measurement`, three
resources are enough for any two kinds, or two nodes, to meet a third, and one
change is enough for it to fall between two scans; the sizes are below one GB, at
a multiple of the rounding factor after the fraction is cut off, and (NFS label)
between two multiples. `tracking_lifecycle` does not check for deadlock because a
deprovisioned cluster gets no further operations.

### Fairness

`KmcProcess!Fairness` is weak fairness of the poller, of each worker that is not
`Stuck`, and of each requeue delay.  The Go scheduler runs goroutines that can
run; timers fire; the requests to KEB and EDP have timeouts and bounded retries
(`ScannedRunReturns`, `FetchReturns`).  The calls to a cluster have no timeout of
their own, and nothing is assumed of them for silent clusters.  Two assumptions
go beyond the code: KEB answers some poll in the end, and a cluster that is not
silent answers or fails.  `KmcService` assumes that each goroutine is scheduled and
that the flush of the traces ends.  There is no fairness for signals, restarts, a
listener that fails while it serves, and what KEB does.  `EDPCollector` assumes weak
fairness of a run after its scans: the requests to EDP end, by the timeout of the EDP
client, but a scan may hang for ever, so `ScannedRunReturns` is about runs whose scans
are over.  `KebPoll` assumes weak fairness of the poller, whose requests end by the
timeout of the KEB client.  The retry counts are positive in the runs: with 0, retry-go
never gives up, and a worker stays in `Send` for as long as EDP is down.

## What is proved

TLAPS checks the proofs, for every value of the constants (any sets of
subaccounts, clusters, workers, scanners and runtimes, any page size, retry count,
TTL and number of operations).  The assumptions are the named `ASSUME`s of the
modules: `None` is not one of the proper values, each runtime has at most one
subaccount, a cluster has finitely many resources and each is of one kind, sizes are
naturals.

Induction over data is done without an operator parameter: a lemma says that a *set*
that contains 0 and with n also n + 1 contains all naturals (`NatSetInduction`), or that
a set of finite sets closed under adding an element contains all of them
(`SetInduction`); both follow from the library's well-founded orders.  What a recursive
function computes is then proved by taking for the set the inputs it is right for.

* **`KmcProcessProofs`**: first the queue: each operation of `DelayingQueue` preserves
  its types and `QueueInv` (the FIFO has no duplicates and holds exactly the dirty
  keys that are not being processed).  Then `TypeCorrect`, `NothingLost`, `Exclusive`,
  `OwnScansOnly`, `QueueUsedRightly`, from the inductive invariant `IInv`.
  `NoSubAccountLost` is not inductive.  That a worker about to call `Done` may
  forget its key needs to know that nobody else has it, hence `WorkerInv` and
  `ProcessingIsHeld`, which tie the workers to the queue's `processing` set.
  That replacing a record without queueing it is safe (`PollReset`) needs
  `PollerInv`: the record read is still there, because only the poller removes
  records.  `PendingInv` restates the property with `dirty` in the place of the
  FIFO, which is the form the steps preserve.  `FallbackIsOwnScans` needs that
  every record in the cache or in a worker's hands is filed under its own
  subaccount and has its own scans (`CacheInv`).
* **`KmcRefinementProofs`**: `Refinement` (`KmcProcess` implements
  `SubAccountSpec`).  Lemmas say how each component of the refinement mapping
  changes with the cache, the queue and the workers; then every step of the
  poller, of a worker and of the timers is matched with a step of `SubAccountSpec`
  or with none.  It rests on `IInv` of `KmcProcess`: that a subaccount with a record
  is due (`PendingInv`) makes `PollReset` a `Replace`, and that one worker at a
  time holds a subaccount makes its copy the only one.
* **`EDPCollectorProofs`**: `TypeCorrect`, `SamePayload`, `CompletePayload`,
  `MetricsTell`, `StoredIfAccepted` and `Refinement` (`EDPCollector` implements
  `ScanMapSpec` with `TakenAt` as the refinement mapping).  The invariant says
  that a run without errors so far has only scans of its own (`CleanInv`), that a
  ScanMap is of one run (`OneRun`), that a fallback never leaves a gap
  (`FallbackInv`) that the events of a run carry its measurements (`EventsInv`),
  and what each step has counted so far (`RecordedInv`).  `RunsAreBounded`: every step
  of a run leaves fewer steps to it (`StepsLeft`), so it ends after at most
  `EventRetry` requests and three other steps.
* **`KebPollProofs`**: of the client `TypeCorrect`, `CompleteList`, `ExactList`.  The
  pages before the next one were all full (`PagesInv`); a runtime not read yet is
  still ahead unless one was removed (`AheadInv`); what was read of an unchanged
  list is a prefix of it (`PrefixInv`).  `PollsUseTheClient` carries this over to
  polls: `PollSpec` implies the client's `Spec`.  Of a poll: `SteadyAlwaysKeepsRecord`,
  `OnlyListedIsBilled`, `LastEntryAlwaysDecides`, for all interleavings of the loop with
  the workers.  `PollInv` has two parts.  `ListInv` says that KEB's list has no
  duplicates, that the entries are copies of what the client read, and how they relate
  to the histories `steady` and `ever`.  `LoopInv` is about the loop: the last of the
  entries passed so far decides the record of every subaccount that no worker has stored
  since (`Decided`), and what was found at the look-up is still what the branch was
  chosen for, unless a worker has stored (`Writing`).  It holds at every place of the
  loop by induction over its steps, so the properties at the end follow.  Here the
  subaccounts and the filter are any, runtimes without a subaccount included, which the
  run does not have.  `RequestsAreBounded`: with finitely many
  runtimes the requests of a call are bounded although KEB adds and removes runtimes
  meanwhile, because every page but the last was full and KEB's list is never longer
  than there are runtimes (`ListIsBounded`).
* **`MeasurementProofs`**: `TypeCorrect`, `MachinesStayExplained`, `RoundingStaysBounded`,
  `CountingIsOnce`, `StorageIsOfTheRun`.  The first part proves what a sum over a finite
  set is (`SumFunction` of the community modules is a fold over subsets): sums of
  equal, smaller, added and disjoint terms, and sums by class.  The second says of each
  conversion what it measures: a sum over the resources listed by that scan, each once.
  The invariant `IInv` is small: what a scan has listed was seen, in that state,
  between the begin of the run and now.  The properties follow: a resource that never
  changed is listed in its one state, and a sum of states that were seen lies between
  the least and the most.
* **`KubeconfigProviderProofs`**: `TypeCorrect`, `AgeIsBounded`.  An entry expires
  at most 1.3 TTLs from now and from the end of its content (`ExpiryInv`), which
  rests on the bound of the jitter (`JitterIsBounded`) and on what is loaded
  being current when the loader has read it (`EndedInv`, `LoadingInv`).
* **`ClusterTrackingProofs`**: `TypeCorrect`, `BilledRuns`, `StopsByIntent`.  Each
  operation has its own number and the latest has the latest time (`StatusInv`,
  `LatestInv`), so without a tie it is the one that decides; `LifecycleInv` relates
  it to what the cluster really is.
* **`KmcServiceProofs`**: `TypeCorrect`, `Configured`, `Graceful`.  The invariant
  says what the steps of `main` that are done have established (`ConfiguredInv`)
  and how far a server, its listener and its channel can be apart (`ServersInv`).
  `NoSignalIsLost`: a signal sent to the main server stays in its channel until it
  stops the server.

Only model-checked: all liveness properties, `ImplementsFairSubAccountSpec`
included (they rest on fairness and on steps being enabled; for `ScannedRunReturns`,
`FetchReturns` and `SignalEnds` the bound or the invariant behind them is proved, as said
above), and the four disagreements.

## What is not modelled

* Integer overflow in the conversions: sizes near 2^63 bytes do not occur.
* Fractions of CPUs and memory: the sums of `Measurement` are over naturals.
* Latencies and time stamps in the metrics, the metrics of the queue and of the
  kubeconfig cache, and the gauges of fetched clusters and of items in the record
  cache: no decision of the program reads them.
* The SKR clients (`pkg/runtime`): constructors of Kubernetes clients; that one
  fails is `WorkerUnreachable`.
* The unified metering collector: it is not wired in `cmd/main.go` and `sendRecord`
  is empty.  `UM()` of the scans returns nothing.
* The global account and the provider of a record as values of their own: the code
  compares shoot names only, and the records of the model are told apart likewise.
* An orderly stop of the poller and the workers: the code has none; they run until
  the process ends (`Restart`).
* `Measurement` with a ScanMap to fall back on: falling back does not depend on what
  a scan holds, and `EDPCollector` has it for any scan.
* More silent clusters than workers: then nothing is collected, and the code does
  not promise otherwise.
* The texts of URLs, headers, logs and traces.

## Running

    tlc -workers 2 -config KmcConvergence.cfg MCKmcProcess
    tlapm KmcProcessProofs.tla

Each run of `PROJECT.json` names its module and configuration.  The longest,
`silent_cluster`, takes about two minutes.  The proofs of `MeasurementProofs` take about
eight minutes, those of the other modules one to four.
