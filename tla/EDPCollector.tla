---------------------------- MODULE EDPCollector ----------------------------
(***************************************************************************)
(* pkg/collector/edp: CollectAndSend as the workers call it, run after run *)
(* for one subaccount.  A run scans the cluster with every scanner,        *)
(* converts the scans to EDP measurements, falls back on the ScanMap of    *)
(* the record for what fails, and posts one payload, with retries.         *)
(*                                                                         *)
(* A scan is the run that took it and whether scan.EDP() converts it: the  *)
(* conversion only reads the scan and the static machine specifications,   *)
(* so it gives the same result every time.                                 *)
(***************************************************************************)
EXTENDS Naturals, Sequences

CONSTANTS
    Scanners,
    EventRetry,     \* Config.EventRetry
    MaxRuns,        \* bound: the number of runs
    None

Scan == [at : Nat, edp : BOOLEAN]

ASSUME EventRetryAssumption == EventRetry \in Nat

ASSUME MaxRunsAssumption == MaxRuns \in Nat

ASSUME NoScanAssumption == None \notin Scan

ScanMaps == [Scanners -> Scan \cup {None}]

NoScans == [s \in Scanners |-> None]

(* The values of the metrics' success label.                               *)
Labels == {"true", "false"}

FormatBool(b) == IF b THEN "true" ELSE "false"

Unrecorded == [s \in Scanners |-> <<>>]

VARIABLES
    run,        \* the number of the latest run
    pc,         \* where it is
    stored,     \* the ScanMap of the record in the cache
    previous,   \* the ScanMap of the worker's copy of the record
    current,    \* what executeScans returned
    measured,   \* convertableScans: one measurement of each is in the payload
    failed,     \* an error has been appended to errs
    attempts,   \* the number of requests Send has made
    scanned,    \* the labels counted in scans_total, of this run
    converted,  \* the labels counted in scans_converted_total, of this run
    events      \* what EDP has accepted

metricVars == <<scanned, converted>>
runVars == <<previous, current, measured, failed, attempts, metricVars>>
vars == <<run, pc, stored, runVars, events>>

RunTypeOK ==
    /\ run \in Nat
    /\ pc \in {"idle", "scan", "convert", "send", "return"}
    /\ stored \in ScanMaps
    /\ previous \in ScanMaps
    /\ current \in ScanMaps
    /\ measured \in ScanMaps
    /\ failed \in BOOLEAN
    /\ attempts \in Nat
    /\ EventRetry > 0 => attempts <= EventRetry
    /\ \A e \in events : e.run \in Nat /\ e.body \in ScanMaps

MetricsTypeOK ==
    /\ scanned \in [Scanners -> Seq(Labels)]
    /\ converted \in [Scanners -> Seq(Labels)]

(* Every variable has the type of the state it models, and Send makes no   *)
(* more than EventRetry requests, if EventRetry is not 0.                  *)
TypeOK == RunTypeOK /\ MetricsTypeOK

Init ==
    /\ run = 0
    /\ pc = "idle"
    /\ stored = NoScans
    /\ previous = NoScans
    /\ current = NoScans
    /\ measured = NoScans
    /\ failed = FALSE
    /\ attempts = 0
    /\ scanned = Unrecorded
    /\ converted = Unrecorded
    /\ events = {}

(* A worker reads the record and calls CollectAndSend with its ScanMap.    *)
Begin ==
    /\ pc = "idle"
    /\ run < MaxRuns
    /\ run' = run + 1
    /\ pc' = "scan"
    /\ previous' = stored
    /\ current' = NoScans
    /\ measured' = NoScans
    /\ failed' = FALSE
    /\ attempts' = 0
    /\ scanned' = Unrecorded
    /\ converted' = Unrecorded
    /\ UNCHANGED <<stored, events>>

(* Meanwhile or between runs the poller replaces or drops the record.      *)
Reset ==
    /\ stored' = NoScans
    /\ UNCHANGED <<run, pc, runVars, events>>

(* Every scanner fails, or takes a scan that will convert or will not.     *)
(* Without a scan to fall back on, the conversion is recorded as failed.   *)
executeScans ==
    /\ pc = "scan"
    /\ \E scan \in [Scanners -> {"fails", "converts", "unconvertible"}] :
          /\ current' = [s \in Scanners |->
                IF scan[s] = "fails"
                THEN previous[s]
                ELSE [at |-> run, edp |-> scan[s] = "converts"]]
          /\ failed' = \E s \in Scanners : scan[s] = "fails"
          /\ scanned' = [s \in Scanners |-> Append(scanned[s], FormatBool(scan[s] # "fails"))]
    /\ converted' = [s \in Scanners |->
          IF current'[s] = None THEN Append(converted[s], "false") ELSE converted[s]]
    /\ pc' = "convert"
    /\ UNCHANGED <<run, stored, previous, measured, attempts, events>>

Converts(scan) == scan # None /\ scan.edp

(* Faulty variant: a scan that does not convert is not replaced.           *)
ConvertibleCurrent(s) == IF Converts(current[s]) THEN current[s] ELSE None

(* The scan of s that is measured: the current one, else the previous one. *)
Convertible(s) ==
    IF current[s] = None \/ Converts(current[s]) THEN current[s]
    ELSE IF Converts(previous[s]) THEN previous[s]
    ELSE None

(* Faulty variant: only the conversions that fail are recorded.            *)
RecordScanConversionFailures(s) ==
    IF current[s] = None \/ Converts(current[s]) THEN converted[s]
    ELSE Append(converted[s], "false")

(* The first conversion of a scan is recorded, that of a fallback is not.  *)
RecordScanConversion(s) ==
    IF current[s] = None THEN converted[s]
    ELSE Append(converted[s], FormatBool(Converts(current[s])))

(* With no measurement at all, CollectAndSend returns an error.            *)
convertScansToEDPMeasurements ==
    /\ pc = "convert"
    /\ measured' = [s \in Scanners |-> Convertible(s)]
    /\ converted' = [s \in Scanners |-> RecordScanConversion(s)]
    /\ IF measured' = NoScans
       THEN /\ failed' = TRUE
            /\ pc' = "return"
       ELSE /\ failed' = (failed \/ \E s \in Scanners :
                                       current[s] # None /\ ~ Converts(current[s]))
            /\ pc' = "send"
    /\ UNCHANGED <<run, stored, previous, current, attempts, scanned, events>>

(* The payload cannot be marshalled, or the request cannot be created.     *)
PayloadFails ==
    /\ pc = "send"
    /\ attempts = 0
    /\ failed' = TRUE
    /\ pc' = "return"
    /\ UNCHANGED <<run, stored, previous, current, measured, attempts, metricVars, events>>

(* Faulty variant: the request body is not rewound between two attempts.   *)
EventRewoundOnce == [run |-> run, body |-> IF attempts = 0 THEN measured ELSE NoScans]

(* What EDP gets when a request reaches it: every attempt sets req.Body.   *)
Event == [run |-> run, body |-> measured]

SendCreated ==
    /\ pc = "send"
    /\ attempts' = attempts + 1
    /\ events' = events \cup {Event}
    /\ pc' = "return"
    /\ UNCHANGED <<run, stored, previous, current, measured, failed, metricVars>>

(* Faulty variant: giving up is not reported as an error.                  *)
SendFailsSilently ==
    /\ pc = "send"
    /\ attempts' = attempts + 1
    /\ events' \in {events, events \cup {Event}}
    /\ pc' = IF attempts' = EventRetry THEN "return" ELSE "send"
    /\ UNCHANGED <<run, stored, previous, current, measured, failed, metricVars>>

(* Faulty variant: one attempt too many.                                   *)
SendFailsOnceMore ==
    /\ pc = "send"
    /\ attempts' = attempts + 1
    /\ events' \in {events, events \cup {Event}}
    /\ IF attempts = EventRetry
       THEN pc' = "return" /\ failed' = TRUE
       ELSE UNCHANGED <<pc, failed>>
    /\ UNCHANGED <<run, stored, previous, current, measured, metricVars>>

(* Faulty variant: after the last attempt the count starts anew.           *)
SendFailsForever ==
    /\ pc = "send"
    /\ attempts' = (attempts + 1) % EventRetry
    /\ events' \in {events, events \cup {Event}}
    /\ UNCHANGED <<run, pc, stored, previous, current, measured, failed, metricVars>>

(* A transport error, a timeout or a status other than 201: EDP may have   *)
(* accepted the event all the same.  retry-go gives up after the attempt   *)
(* number EventRetry, and never when EventRetry is 0.                      *)
SendFails ==
    /\ pc = "send"
    /\ attempts' = attempts + 1
    /\ events' \in {events, events \cup {Event}}
    /\ IF attempts' = EventRetry
       THEN pc' = "return" /\ failed' = TRUE
       ELSE UNCHANGED <<pc, failed>>
    /\ UNCHANGED <<run, stored, previous, current, measured, metricVars>>

(* Faulty variant: the scans are stored although an error was returned.    *)
StoreScansAnyway ==
    /\ pc = "return"
    /\ stored' = measured
    /\ pc' = "idle"
    /\ UNCHANGED <<run, runVars, events>>

(* The worker writes the scans to the cache, unless there was an error.    *)
StoreScans ==
    /\ pc = "return"
    /\ stored' = IF failed THEN stored ELSE measured
    /\ pc' = "idle"
    /\ UNCHANGED <<run, runVars, events>>

(* What is left of CollectAndSend once the scans are over.                 *)
ConvertAndSend ==
    \/ convertScansToEDPMeasurements
    \/ PayloadFails
    \/ SendCreated
    \/ SendFails
    \/ StoreScans

CollectAndSend == Begin \/ executeScans \/ ConvertAndSend

Next == CollectAndSend \/ Reset

Spec == Init /\ [][Next]_vars

(* The worker is scheduled and every request to EDP ends, by the timeout   *)
(* of the EDP client at last.  Nothing is promised about the scans: the    *)
(* List calls to a cluster have no timeout and may never return.           *)
FairSpec == Spec /\ WF_vars(ConvertAndSend)
-----------------------------------------------------------------------------
(* Properties.                                                             *)

(* However often a payload is posted, because an answer got lost or was    *)
(* not a 201, EDP sees one and the same measurement of the run, and never  *)
(* an empty one: Send renews the body of the request for each attempt.     *)
RetriesRepeatThePayload ==
    \A e, f \in events :
        /\ e.run = f.run => e.body = f.body
        /\ e.body # NoScans

(* From the first run that succeeds until the record is reset, no resource *)
(* is missing from a payload, whichever scans and conversions fail: the    *)
(* ScanMap has a convertible scan for each to fall back on.                *)
PayloadCoversAllScanners ==
    pc = "send" /\ previous # NoScans => \A s \in Scanners : measured[s] # None

(* The scans of a run reach the cache only if EDP accepted its event: Send *)
(* takes no answer but 201 for a success.                                  *)
StoredOnlyIfAccepted ==
    [][stored' \notin {stored, NoScans} => \E e \in events : e.run = run]_vars

(* The metrics tell what happened in a run.  Every scanner is counted once *)
(* in scans_total and once in scans_converted_total, whatever fails and    *)
(* whatever its scan falls back on; a conversion counted as successful is  *)
(* in the payload; and there is a failure among the labels if and only if  *)
(* the run has met an error before it sends, so that its scans will not be *)
(* kept.                                                                   *)
FailuresAreCounted ==
    /\ pc \in {"send", "return"} => \A s \in Scanners :
          /\ scanned[s] \in {<<"true">>, <<"false">>}
          /\ converted[s] \in {<<"true">>, <<"false">>}
          /\ converted[s] = <<"true">> => measured[s] # None
    /\ pc = "send" =>
          (failed <=> \E s \in Scanners : <<"false">> \in {scanned[s], converted[s]})

(* Once its scans are over, CollectAndSend returns and the worker goes on, *)
(* whatever is converted and however EDP answers, with an EventRetry that  *)
(* is not 0: Send does not count its attempts anew.                        *)
ScannedRunReturns == pc \in {"convert", "send", "return"} ~> pc = "idle"

(* The run each stored scan was taken by.                                  *)
TakenAt == [s \in Scanners |-> IF stored[s] = None THEN 0 ELSE stored[s].at]

ScanMap == INSTANCE ScanMapSpec WITH scans <- TakenAt

(* CollectAndSend keeps the promise of ScanMapSpec: the ScanMap a worker   *)
(* stores is complete and of one run, although scans, conversions and the  *)
(* request may fail one by one and the poller resets records meanwhile.    *)
ImplementsScanMap == ScanMap!Spec

(* What docs/contributor/arch/01-collector-structure.md says: the results  *)
(* that were processed are stored for the next run of the collector.       *)
(* Stated for the runs whose event EDP has accepted.                       *)
ProcessedResultsAreStored ==
    [][pc = "return" /\ pc' = "idle" /\ (\E e \in events : e.run = run) =>
          \A s \in Scanners : measured[s] # None => stored'[s] = measured[s]]_vars
-----------------------------------------------------------------------------
(* The inductive invariant behind the safety properties and the refinement. *)

(* The scans of a run in which nothing failed.                             *)
AllOf(n) == [s \in Scanners |-> [at |-> n, edp |-> TRUE]]

(* A stored ScanMap is empty or comes from one run without errors.         *)
OneRun(m) == m = NoScans \/ \E n \in 0..run : m = AllOf(n)

(* A run that has met no error so far has nothing but scans of its own.    *)
CleanInv ==
    /\ pc = "convert" /\ ~ failed =>
          \A s \in Scanners : current[s] # None /\ current[s].at = run
    /\ pc \in {"send", "return"} /\ ~ failed => measured = AllOf(run)

(* Where there is a scan to fall back on, no scanner is left without one.  *)
FallbackInv ==
    previous # NoScans =>
        /\ pc = "convert" => \A s \in Scanners : current[s] # None
        /\ pc = "send" => \A s \in Scanners : measured[s] # None

(* All events of the latest run carry its measurements.                    *)
EventsInv ==
    /\ \A e \in events :
          /\ e.run <= run
          /\ e.run = run => pc \notin {"scan", "convert"} /\ e.body = measured
    /\ pc = "send" => measured # NoScans
    /\ pc = "return" /\ ~ failed => \E e \in events : e.run = run

CoreInv ==
    /\ RunTypeOK
    /\ OneRun(stored)
    /\ OneRun(previous)
    /\ CleanInv
    /\ FallbackInv
    /\ EventsInv
    /\ RetriesRepeatThePayload
    /\ pc \in {"scan", "convert"} => attempts = 0
    /\ pc = "send" => attempts # EventRetry \/ EventRetry = 0

(* What is recorded of a run so far.                                       *)
RecordedInv ==
    /\ pc = "scan" => scanned = Unrecorded /\ converted = Unrecorded
    /\ pc = "convert" =>
          /\ \A s \in Scanners :
                /\ scanned[s] \in {<<"true">>, <<"false">>}
                /\ converted[s] = IF current[s] = None THEN <<"false">> ELSE <<>>
                /\ current[s] = None => scanned[s] = <<"false">>
          /\ failed <=> \E s \in Scanners : scanned[s] = <<"false">>

IInv == CoreInv /\ MetricsTypeOK /\ RecordedInv /\ FailuresAreCounted
=============================================================================
