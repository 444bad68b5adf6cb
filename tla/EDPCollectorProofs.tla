------------------------- MODULE EDPCollectorProofs -------------------------
(* Proofs about EDPCollector, for any scanners and any EventRetry.         *)
EXTENDS EDPCollector, TLAPS

(* Before the first run nothing is stored and nothing has been sent.       *)
LEMMA InitCoreInv == Init => CoreInv
  <1> SUFFICES ASSUME Init PROVE CoreInv
    OBVIOUS
  <1>1. NoScans \in ScanMaps
    BY DEF NoScans, ScanMaps
  <1>2. RunTypeOK
    <2>1. failed \in BOOLEAN
      BY Zenon DEF Init
    <2>2. EventRetry > 0 => attempts <= EventRetry
      BY EventRetryAssumption DEF Init
    <2> QED
      BY <1>1, <2>1, <2>2, Zenon DEF Init, RunTypeOK
  <1>3. OneRun(stored) /\ OneRun(previous)
    BY DEF Init, OneRun
  <1>4. CleanInv /\ FallbackInv /\ EventsInv /\ RetriesRepeatThePayload
    BY DEF Init, CleanInv, FallbackInv, EventsInv, RetriesRepeatThePayload
  <1> QED
    BY <1>2, <1>3, <1>4 DEF Init, CoreInv

(* A scan is told apart from a missing one.                                *)
LEMMA ScanIsNotNone ==
    ASSUME NEW n \in Nat, NEW b \in BOOLEAN
    PROVE  [at |-> n, edp |-> b] \in Scan /\ [at |-> n, edp |-> b] # None
  <1>1. [at |-> n, edp |-> b] \in Scan
    BY Zenon DEF Scan
  <1> QED
    BY <1>1, NoScanAssumption, Zenon

(* A map of one run stays one when the run number grows.                   *)
LEMMA OneRunGrows ==
    ASSUME NEW m, run \in Nat, run' \in Nat, run' >= run, OneRun(m)
    PROVE  m = NoScans \/ \E n \in 0..run' : m = AllOf(n)
  <1>1. CASE m = NoScans
    BY <1>1
  <1>2. ASSUME NEW n \in 0..run, m = AllOf(n)
        PROVE  \E i \in 0..run' : m = AllOf(i)
    <2>1. n \in 0..run'
      OBVIOUS
    <2> QED
      BY <1>2, <2>1
  <1> QED
    BY <1>1, <1>2 DEF OneRun

(* The maps of one run convert as a whole or not at all.                   *)
LEMMA OneRunConverts ==
    ASSUME NEW m, OneRun(m), m # NoScans, NEW s \in Scanners
    PROVE  Converts(m[s])
  <1>1. PICK n \in 0..run : m = AllOf(n)
    BY DEF OneRun
  <1>2. m[s] = [at |-> n, edp |-> TRUE]
    BY <1>1 DEF AllOf
  <1>3. n \in Nat
    OBVIOUS
  <1>4. m[s] # None
    BY <1>2, <1>3, ScanIsNotNone, Zenon
  <1> QED
    BY <1>2, <1>4 DEF Converts

(* A new run starts from a ScanMap of one run, with no event of its own.   *)
LEMMA BeginCoreInv == ASSUME CoreInv, Begin PROVE CoreInv'
  <1>1. NoScans \in ScanMaps
    BY DEF NoScans, ScanMaps
  <1>2. RunTypeOK /\ RunTypeOK'
    <2>1. failed' \in BOOLEAN
      BY Zenon DEF Begin
    <2>2. EventRetry > 0 => attempts' <= EventRetry
      BY EventRetryAssumption DEF Begin
    <2> QED
      BY <1>1, <2>1, <2>2 DEF CoreInv, RunTypeOK, Begin
  <1>3. OneRun(stored)' /\ OneRun(previous)'
    <2>1. run' \in Nat /\ run' >= run /\ run \in Nat
      BY <1>2 DEF RunTypeOK, Begin
    <2>2. OneRun(stored)
      BY DEF CoreInv
    <2>3. stored = NoScans \/ \E n \in 0..run' : stored = AllOf(n)
      BY <2>1, <2>2, OneRunGrows
    <2>4. stored' = stored /\ previous' = stored
      BY DEF Begin
    <2> QED
      BY <2>3, <2>4, Zenon DEF OneRun, NoScans, AllOf
  <1>4. CleanInv' /\ FallbackInv'
    BY DEF Begin, CleanInv, FallbackInv
  <1>5. EventsInv'
    <2>1. \A e \in events : e.run \in Nat /\ e.run <= run
      BY <1>2 DEF CoreInv, EventsInv, RunTypeOK
    <2>2. run \in Nat /\ run' = run + 1 /\ events' = events /\ pc' = "scan"
      BY <1>2 DEF RunTypeOK, Begin
    <2> QED
      BY <2>1, <2>2 DEF EventsInv
  <1>6. RetriesRepeatThePayload'
    BY DEF CoreInv, RetriesRepeatThePayload, Begin, NoScans
  <1> QED
    BY <1>2, <1>3, <1>4, <1>5, <1>6 DEF CoreInv, Begin

(* An empty ScanMap is as good as one of a run.                            *)
LEMMA ResetCoreInv == ASSUME CoreInv, Reset PROVE CoreInv'
  <1>1. UNCHANGED <<run, pc, previous, current, measured, failed, attempts, events>>
    BY DEF Reset, runVars
  <1>2. stored' = NoScans /\ NoScans \in ScanMaps
    BY DEF Reset, NoScans, ScanMaps
  <1>3. RunTypeOK'
    BY <1>1, <1>2, Zenon DEF CoreInv, RunTypeOK
  <1>4. OneRun(stored)' /\ OneRun(previous)'
    BY <1>1, <1>2, Zenon DEF CoreInv, OneRun, NoScans, AllOf
  <1>5. CleanInv' /\ FallbackInv' /\ EventsInv' /\ RetriesRepeatThePayload'
    BY <1>1, Zenon DEF CoreInv, CleanInv, FallbackInv, EventsInv,
                       RetriesRepeatThePayload, NoScans, AllOf
  <1> QED
    BY <1>1, <1>3, <1>4, <1>5, Zenon DEF CoreInv

(* A failed scan is replaced by a scan that exists if any exists.          *)
LEMMA executeScansCoreInv == ASSUME CoreInv, executeScans PROVE CoreInv'
  <1>1. PICK scan \in [Scanners -> {"fails", "converts", "unconvertible"}] :
          /\ current' = [s \in Scanners |->
                IF scan[s] = "fails"
                THEN previous[s]
                ELSE [at |-> run, edp |-> scan[s] = "converts"]]
          /\ failed' = \E s \in Scanners : scan[s] = "fails"
    BY Zenon DEF executeScans
  <1>2. /\ pc' = "convert" /\ pc = "scan"
        /\ UNCHANGED <<run, stored, previous, measured, attempts, events>>
    BY DEF executeScans
  <1>3. RunTypeOK /\ OneRun(stored) /\ OneRun(previous) /\ EventsInv
    BY DEF CoreInv
  <1>4. ASSUME NEW s \in Scanners
        PROVE  /\ current'[s] \in Scan \cup {None}
               /\ scan[s] # "fails" => current'[s] # None /\ current'[s].at = run
               /\ scan[s] = "fails" => current'[s] = previous[s]
    <2>1. CASE scan[s] = "fails"
      <3>1. current'[s] = previous[s]
        BY <1>1, <2>1, Zenon
      <3>2. previous[s] \in Scan \cup {None}
        BY <1>3 DEF RunTypeOK, ScanMaps
      <3> QED
        BY <2>1, <3>1, <3>2
    <2>2. CASE scan[s] # "fails"
      <3>1. current'[s] = [at |-> run, edp |-> scan[s] = "converts"]
        BY <1>1, <2>2, Zenon
      <3>2. run \in Nat /\ (scan[s] = "converts") \in BOOLEAN
        BY <1>3, Zenon DEF RunTypeOK
      <3>3. current'[s] \in Scan /\ current'[s] # None
        BY <3>1, <3>2, ScanIsNotNone, Zenon
      <3>4. current'[s].at = run
        BY <3>1
      <3> QED
        BY <2>2, <3>3, <3>4, Zenon
    <2> QED
      BY <2>1, <2>2
  <1>5. RunTypeOK'
    <2>1. current' \in ScanMaps
      BY <1>1, <1>4 DEF ScanMaps
    <2>2. failed' \in BOOLEAN
      BY <1>1, Zenon
    <2> QED
      BY <1>2, <1>3, <2>1, <2>2, Zenon DEF RunTypeOK
  <1>6. OneRun(stored)' /\ OneRun(previous)'
    BY <1>2, <1>3, Zenon DEF OneRun, NoScans, AllOf
  <1>7. CleanInv'
    BY <1>1, <1>2, <1>4, Zenon DEF CleanInv
  <1>8. FallbackInv'
    <2>1. ASSUME previous # NoScans, NEW s \in Scanners PROVE current'[s] # None
      <3>1. Converts(previous[s])
        BY <1>3, <2>1, OneRunConverts, Zenon
      <3> QED
        BY <1>4, <3>1, Zenon DEF Converts
    <2> QED
      BY <1>2, <2>1, Zenon DEF FallbackInv, NoScans
  <1>9. EventsInv' /\ RetriesRepeatThePayload'
    <2>1. \A e \in events : e.run <= run /\ e.run # run
      BY <1>2, <1>3, Zenon DEF EventsInv
    <2> QED
      BY <1>2, <2>1, Zenon DEF CoreInv, EventsInv, RetriesRepeatThePayload, NoScans
  <1> QED
    BY <1>2, <1>5, <1>6, <1>7, <1>8, <1>9 DEF CoreInv

(* What is measured converts, and it is this run's if nothing failed.      *)
LEMMA convertScansCoreInv == ASSUME CoreInv, convertScansToEDPMeasurements PROVE CoreInv'
  <1>1. /\ pc = "convert" /\ pc' \in {"return", "send"}
        /\ measured' = [s \in Scanners |-> Convertible(s)]
        /\ UNCHANGED <<run, stored, previous, current, attempts, events>>
    BY DEF convertScansToEDPMeasurements
  <1>2. RunTypeOK /\ OneRun(stored) /\ OneRun(previous) /\ EventsInv
    BY DEF CoreInv
  <1>3. failed' \in BOOLEAN
    BY Zenon DEF convertScansToEDPMeasurements
  <1>4. ~ failed' => ~ failed /\ \A s \in Scanners : current[s] = None \/ Converts(current[s])
    BY Zenon DEF convertScansToEDPMeasurements
  <1>5. pc' = "send" => measured' # NoScans
    BY DEF convertScansToEDPMeasurements
  <1>6. pc' = "return" => failed'
    BY Zenon DEF convertScansToEDPMeasurements
  <1>7. RunTypeOK'
    <2>1. ASSUME NEW s \in Scanners PROVE Convertible(s) \in Scan \cup {None}
      <3>1. current[s] \in Scan \cup {None} /\ previous[s] \in Scan \cup {None}
        BY <1>2 DEF RunTypeOK, ScanMaps
      <3> QED
        BY <3>1, Zenon DEF Convertible
    <2>2. measured' \in ScanMaps
      BY <1>1, <2>1 DEF ScanMaps
    <2> QED
      BY <1>1, <1>2, <1>3, <2>2, Zenon DEF RunTypeOK
  <1>8. OneRun(stored)' /\ OneRun(previous)'
    BY <1>1, <1>2, Zenon DEF OneRun, NoScans, AllOf
  <1>9. CleanInv'
    <2>1. ASSUME ~ failed', NEW s \in Scanners
          PROVE  measured'[s] = [at |-> run, edp |-> TRUE]
      <3>1. current[s] # None /\ current[s].at = run /\ Converts(current[s])
        BY <1>1, <1>4, <2>1, Zenon DEF CoreInv, CleanInv
      <3>2. measured'[s] = current[s]
        BY <1>1, <3>1, Zenon DEF Convertible
      <3>3. current[s] \in Scan /\ current[s].edp
        BY <1>2, <3>1 DEF RunTypeOK, ScanMaps, Converts
      <3>4. current[s] = [at |-> run, edp |-> TRUE]
        <4>1. current[s] = [at |-> current[s].at, edp |-> current[s].edp]
          BY <3>3, Zenon DEF Scan
        <4>2. current[s].edp = TRUE
          BY <3>3, Zenon DEF Scan
        <4> QED
          BY <3>1, <4>1, <4>2
      <3> QED
        BY <3>2, <3>4
    <2>2. ~ failed' => measured' = AllOf(run)
      <3>1. measured' = [s \in Scanners |-> measured'[s]]
        BY <1>1, Zenon
      <3> QED
        BY <2>1, <3>1 DEF AllOf
    <2> QED
      BY <1>1, <2>2, Zenon DEF CleanInv, AllOf
  <1>10. FallbackInv'
    <2>1. ASSUME previous # NoScans, NEW s \in Scanners PROVE measured'[s] # None
      <3>1. Converts(previous[s])
        BY <1>2, <2>1, OneRunConverts, Zenon
      <3>2. current[s] # None
        BY <1>1, <2>1, Zenon DEF CoreInv, FallbackInv
      <3> QED
        BY <1>1, <3>1, <3>2, Zenon DEF Convertible, Converts
    <2> QED
      BY <1>1, <2>1, Zenon DEF FallbackInv, NoScans
  <1>11. EventsInv' /\ RetriesRepeatThePayload'
    <2>1. \A e \in events : e.run <= run /\ e.run # run
      BY <1>1, <1>2, Zenon DEF EventsInv
    <2>2. NoScans' = NoScans
      BY DEF NoScans
    <2> QED
      BY <1>1, <1>5, <1>6, <2>1, <2>2, Zenon DEF CoreInv, EventsInv, RetriesRepeatThePayload
  <1>12. attempts = 0
    BY <1>1 DEF CoreInv
  <1>13. pc' = "send" => attempts' # EventRetry \/ EventRetry = 0
    BY <1>1, <1>12, EventRetryAssumption
  <1> QED
    BY <1>1, <1>7, <1>8, <1>9, <1>10, <1>11, <1>13 DEF CoreInv

(* The steps of Send: nothing but events, attempts, failed and pc changes, *)
(* and what reaches EDP is the payload of the run.                         *)
LEMMA SendCoreInv ==
    ASSUME CoreInv, pc = "send", pc' \in {"send", "return"},
           UNCHANGED <<run, stored, previous, current, measured>>,
           events' \in {events, events \cup {Event}},
           failed' \in BOOLEAN, failed => failed',
           attempts' \in Nat, EventRetry > 0 => attempts' <= EventRetry,
           pc' = "return" /\ ~ failed' => Event \in events',
           pc' = "send" => attempts' # EventRetry \/ EventRetry = 0
    PROVE  CoreInv'
  <1>1. RunTypeOK /\ EventsInv /\ RetriesRepeatThePayload
    BY DEF CoreInv
  <1>2. Event.run = run /\ Event.body = measured
    BY DEF Event
  <1>3. RunTypeOK'
    <2>1. run \in Nat /\ measured \in ScanMaps
      BY <1>1 DEF RunTypeOK
    <2>2. \A e \in events : e.run \in Nat /\ e.body \in ScanMaps
      BY <1>1 DEF RunTypeOK
    <2>3. \A e \in events' : e.run \in Nat /\ e.body \in ScanMaps
      BY <1>2, <2>1, <2>2, Zenon
    <2>4. pc' \in {"idle", "scan", "convert", "send", "return"}
      OBVIOUS
    <2> QED
      BY <1>1, <2>3, <2>4, Zenon DEF RunTypeOK
  <1>4. OneRun(stored)' /\ OneRun(previous)'
    BY Zenon DEF CoreInv, OneRun, NoScans, AllOf
  <1>5. CleanInv'
    BY Zenon DEF CoreInv, CleanInv, AllOf
  <1>6. FallbackInv'
    BY DEF CoreInv, FallbackInv, NoScans
  <1>7. EventsInv' /\ RetriesRepeatThePayload'
    <2>1. measured # NoScans /\ NoScans' = NoScans
      BY <1>1 DEF EventsInv, NoScans
    <2>2. run <= run
      BY <1>1 DEF RunTypeOK
    <2>3. \A e \in events' :
             e.run <= run /\ (e.run = run => e.body = measured)
      BY <1>1, <1>2, <2>2, Zenon DEF EventsInv
    <2>4. EventsInv'
      BY <1>2, <2>1, <2>3 DEF EventsInv
    <2>5. ASSUME NEW e \in events', NEW f \in events'
          PROVE  (e.run = f.run => e.body = f.body) /\ e.body # NoScans
      <3>1. \A x \in events' : x \in events \/ x = Event
        BY Zenon
      <3> QED
        BY <1>1, <1>2, <2>1, <2>3, <3>1, Zenon DEF RetriesRepeatThePayload
    <2> QED
      BY <2>1, <2>4, <2>5, Zenon DEF RetriesRepeatThePayload
  <1> QED
    BY <1>3, <1>4, <1>5, <1>6, <1>7 DEF CoreInv

(* The scans of a run without errors are stored as they are.               *)
LEMMA StoreScansCoreInv == ASSUME CoreInv, StoreScans PROVE CoreInv'
  <1>1. /\ pc = "return" /\ pc' = "idle"
        /\ stored' = IF failed THEN stored ELSE measured
        /\ UNCHANGED <<run, previous, current, measured, failed, attempts, events>>
    BY DEF StoreScans, runVars
  <1>2. RunTypeOK /\ OneRun(stored) /\ OneRun(previous)
    BY DEF CoreInv
  <1>3. RunTypeOK'
    BY <1>1, <1>2, Zenon DEF RunTypeOK
  <1>4. OneRun(stored)' /\ OneRun(previous)'
    <2>1. ~ failed => stored' = AllOf(run)
      BY <1>1, Zenon DEF CoreInv, CleanInv
    <2>2. run \in 0..run
      BY <1>2 DEF RunTypeOK
    <2>3. OneRun(stored')
      BY <1>1, <1>2, <2>1, <2>2, Zenon DEF OneRun
    <2> QED
      BY <1>1, <1>2, <2>3, Zenon DEF OneRun, NoScans, AllOf
  <1>5. CleanInv' /\ FallbackInv'
    BY <1>1 DEF CleanInv, FallbackInv
  <1>6. EventsInv' /\ RetriesRepeatThePayload'
    BY <1>1 DEF CoreInv, EventsInv, RetriesRepeatThePayload, NoScans
  <1> QED
    BY <1>1, <1>3, <1>4, <1>5, <1>6 DEF CoreInv

(* Every step of a run, and every reset, keeps the invariant.              *)
LEMMA NextCoreInv == CoreInv /\ [Next]_vars => CoreInv'
  <1> SUFFICES ASSUME CoreInv, [Next]_vars PROVE CoreInv'
    OBVIOUS
  <1>t. /\ failed \in BOOLEAN /\ attempts \in Nat
        /\ EventRetry > 0 => attempts <= EventRetry
    BY DEF CoreInv, RunTypeOK
  <1>1. CASE Begin
    BY <1>1, BeginCoreInv
  <1>2. CASE Reset
    BY <1>2, ResetCoreInv
  <1>3. CASE executeScans
    BY <1>3, executeScansCoreInv
  <1>4. CASE convertScansToEDPMeasurements
    BY <1>4, convertScansCoreInv
  <1>5. CASE PayloadFails
    <2>1. failed' = TRUE
      BY <1>5 DEF PayloadFails
    <2>2. failed' \in BOOLEAN /\ (failed => failed')
      BY <2>1, Zenon
    <2> QED
      BY <1>t, <1>5, <2>1, <2>2, SendCoreInv DEF PayloadFails
  <1>6. CASE SendCreated
    <2>1. attempts' \in Nat /\ (EventRetry > 0 => attempts' <= EventRetry)
      BY <1>t, <1>6, EventRetryAssumption DEF SendCreated, CoreInv
    <2>2. failed' \in BOOLEAN /\ (failed => failed')
      BY <1>t, <1>6, Zenon DEF SendCreated
    <2> QED
      BY <1>6, <2>1, <2>2, SendCoreInv DEF SendCreated
  <1>7. CASE SendFails
    <2>1. attempts' \in Nat /\ (EventRetry > 0 => attempts' <= EventRetry)
      BY <1>t, <1>7, EventRetryAssumption DEF SendFails, CoreInv
    <2>2. failed' \in BOOLEAN /\ (failed => failed') /\ (pc' = "return" => failed')
      BY <1>t, <1>7 DEF SendFails
    <2>3. pc' \in {"send", "return"} /\ (pc' = "send" => attempts' # EventRetry)
      BY <1>7 DEF SendFails
    <2> QED
      BY <1>7, <2>1, <2>2, <2>3, SendCoreInv DEF SendFails
  <1>8. CASE StoreScans
    BY <1>8, StoreScansCoreInv
  <1>9. CASE UNCHANGED vars
    BY <1>9 DEF vars, runVars, CoreInv, RunTypeOK, OneRun, CleanInv, FallbackInv, EventsInv,
                RetriesRepeatThePayload, NoScans, AllOf
  <1> QED
    BY <1>1, <1>2, <1>3, <1>4, <1>5, <1>6, <1>7, <1>8, <1>9
    DEF Next, CollectAndSend, ConvertAndSend
-----------------------------------------------------------------------------
(* What the metrics count.                                                 *)

(* The label of a success is told apart from that of a failure.            *)
LEMMA LabelTellsSuccess ==
    ASSUME NEW b \in BOOLEAN
    PROVE  /\ FormatBool(b) \in Labels
           /\ Append(<<>>, FormatBool(b)) \in {<<"true">>, <<"false">>}
           /\ Append(<<>>, FormatBool(b)) = <<"false">> <=> ~ b
  BY DEF FormatBool, Labels

(* Lists of at most one label.                                             *)
LEMMA LabelLists ==
    /\ Append(<<>>, "false") = <<"false">>
    /\ <<>> \in Seq(Labels) /\ <<"true">> \in Seq(Labels) /\ <<"false">> \in Seq(Labels)
  BY DEF Labels

(* Before the first run nothing is counted.                                *)
LEMMA InitMetrics == Init => MetricsTypeOK /\ RecordedInv /\ FailuresAreCounted
  BY DEF Init, MetricsTypeOK, RecordedInv, FailuresAreCounted, Unrecorded

(* Every scan is counted, and the conversions that have no scan.           *)
LEMMA executeScansMetrics ==
    ASSUME IInv, executeScans
    PROVE  MetricsTypeOK' /\ RecordedInv' /\ FailuresAreCounted'
  <1>1. PICK scan \in [Scanners -> {"fails", "converts", "unconvertible"}] :
          /\ current' = [s \in Scanners |->
                IF scan[s] = "fails"
                THEN previous[s]
                ELSE [at |-> run, edp |-> scan[s] = "converts"]]
          /\ failed' = \E s \in Scanners : scan[s] = "fails"
          /\ scanned' = [s \in Scanners |->
                Append(scanned[s], FormatBool(scan[s] # "fails"))]
    BY Zenon DEF executeScans
  <1>2. /\ pc' = "convert" /\ pc = "scan"
        /\ converted' = [s \in Scanners |->
              IF current'[s] = None THEN Append(converted[s], "false") ELSE converted[s]]
    BY DEF executeScans
  <1>3. \A s \in Scanners : scanned[s] = <<>> /\ converted[s] = <<>>
    BY <1>2 DEF IInv, RecordedInv, Unrecorded
  <1>4. ASSUME NEW s \in Scanners
        PROVE  /\ scanned'[s] \in {<<"true">>, <<"false">>}
               /\ scanned'[s] = <<"false">> <=> scan[s] = "fails"
    <2>1. scanned'[s] = Append(<<>>, FormatBool(scan[s] # "fails"))
      BY <1>1, <1>3
    <2>2. (scan[s] # "fails") \in BOOLEAN
      BY Zenon
    <2> QED
      BY <2>1, <2>2, LabelTellsSuccess, Zenon
  <1>5. ASSUME NEW s \in Scanners
        PROVE  converted'[s] = IF current'[s] = None THEN <<"false">> ELSE <<>>
    BY <1>2, <1>3, LabelLists, Zenon
  <1>6. ASSUME NEW s \in Scanners, current'[s] = None
        PROVE  scan[s] = "fails"
    <2>1. SUFFICES ASSUME scan[s] # "fails" PROVE FALSE
      OBVIOUS
    <2>2. current'[s] = [at |-> run, edp |-> scan[s] = "converts"]
      BY <1>1, <2>1, Zenon
    <2>3. run \in Nat /\ (scan[s] = "converts") \in BOOLEAN
      BY Zenon DEF IInv, CoreInv, RunTypeOK
    <2> QED
      BY <1>6, <2>2, <2>3, ScanIsNotNone, Zenon
  <1>7. MetricsTypeOK'
    <2>1. \A s \in Scanners : scanned'[s] \in Seq(Labels) /\ converted'[s] \in Seq(Labels)
      BY <1>4, <1>5, LabelLists, Zenon
    <2>2. /\ scanned' = [s \in Scanners |-> scanned'[s]]
          /\ converted' = [s \in Scanners |-> converted'[s]]
      BY <1>1, <1>2, Zenon
    <2> QED
      BY <2>1, <2>2, Zenon DEF MetricsTypeOK, Labels
  <1>8. failed' <=> \E s \in Scanners : scanned'[s] = <<"false">>
    BY <1>1, <1>4, Zenon
  <1>9. RecordedInv'
    BY <1>2, <1>4, <1>5, <1>6, <1>8, Zenon DEF RecordedInv
  <1> QED
    BY <1>2, <1>7, <1>9 DEF FailuresAreCounted

(* Every scan that there is, fallback or not, is counted once more, and a  *)
(* failure to convert it goes into errs.                                   *)
LEMMA convertScansMetrics ==
    ASSUME IInv, convertScansToEDPMeasurements
    PROVE  MetricsTypeOK' /\ RecordedInv' /\ FailuresAreCounted'
  <1>1. /\ pc = "convert" /\ pc' \in {"return", "send"}
        /\ measured' = [s \in Scanners |-> Convertible(s)]
        /\ converted' = [s \in Scanners |-> RecordScanConversion(s)]
        /\ scanned' = scanned
    BY DEF convertScansToEDPMeasurements
  <1>2. /\ \A s \in Scanners :
              /\ scanned[s] \in {<<"true">>, <<"false">>}
              /\ converted[s] = IF current[s] = None THEN <<"false">> ELSE <<>>
              /\ current[s] = None => scanned[s] = <<"false">>
        /\ failed <=> \E s \in Scanners : scanned[s] = <<"false">>
    BY <1>1, Zenon DEF IInv, RecordedInv
  <1>3. ASSUME NEW s \in Scanners
        PROVE  /\ converted'[s] \in {<<"true">>, <<"false">>}
               /\ converted'[s] = <<"false">> <=> ~ Converts(current[s])
    <2>1. CASE current[s] = None
      <3>1. converted'[s] = <<"false">>
        BY <1>1, <1>2, <2>1 DEF RecordScanConversion
      <3>2. ~ Converts(current[s])
        BY <2>1, Zenon DEF Converts
      <3> QED
        BY <3>1, <3>2
    <2>2. CASE current[s] # None
      <3>1. converted'[s] = Append(<<>>, FormatBool(Converts(current[s])))
        BY <1>1, <1>2, <2>2, Zenon DEF RecordScanConversion
      <3>2. Converts(current[s]) \in BOOLEAN
        BY Zenon DEF Converts
      <3> QED
        BY <3>1, <3>2, LabelTellsSuccess, Zenon
    <2> QED
      BY <2>1, <2>2
  <1>4. ASSUME NEW s \in Scanners, converted'[s] = <<"true">>
        PROVE  measured'[s] # None
    <2>1. Converts(current[s])
      BY <1>3, <1>4
    <2>2. measured'[s] = current[s]
      BY <1>1, <2>1, Zenon DEF Convertible
    <2> QED
      BY <2>1, <2>2, Zenon DEF Converts
  <1>5. MetricsTypeOK'
    <2>1. \A s \in Scanners : converted'[s] \in Seq(Labels)
      BY <1>3, LabelLists, Zenon
    <2>2. converted' = [s \in Scanners |-> converted'[s]]
      BY <1>1, Zenon
    <2> QED
      BY <1>1, <2>1, <2>2, Zenon DEF IInv, MetricsTypeOK, Labels
  <1>6. pc' = "send" =>
          (failed' <=> \E s \in Scanners : <<"false">> \in {scanned'[s], converted'[s]})
    <2> SUFFICES ASSUME pc' = "send"
                 PROVE  failed' <=> \E s \in Scanners :
                                       <<"false">> \in {scanned'[s], converted'[s]}
      OBVIOUS
    <2>1. failed' <=> failed \/ \E s \in Scanners : current[s] # None /\ ~ Converts(current[s])
      BY Zenon DEF convertScansToEDPMeasurements
    <2>2. \A s \in Scanners : <<"false">> \in {scanned'[s], converted'[s]} <=>
             scanned[s] = <<"false">> \/ ~ Converts(current[s])
      BY <1>1, <1>3, Zenon
    <2>3. \A s \in Scanners :
             scanned[s] = <<"false">> \/ ~ Converts(current[s]) <=>
             scanned[s] = <<"false">> \/ (current[s] # None /\ ~ Converts(current[s]))
      BY <1>2, Zenon DEF Converts
    <2> QED
      BY <1>2, <2>1, <2>2, <2>3, Zenon
  <1>7. FailuresAreCounted'
    BY <1>1, <1>2, <1>3, <1>4, <1>6, Zenon DEF FailuresAreCounted
  <1> QED
    BY <1>1, <1>5, <1>7 DEF RecordedInv

(* Sending and storing count no scans, and an error in sending ends a run. *)
LEMMA OtherStepsMetrics ==
    ASSUME IInv,
           \/ Begin \/ Reset \/ PayloadFails \/ SendCreated \/ SendFails \/ StoreScans
           \/ UNCHANGED vars
    PROVE  MetricsTypeOK' /\ RecordedInv' /\ FailuresAreCounted'
  <1>1. MetricsTypeOK /\ RecordedInv /\ FailuresAreCounted
    BY DEF IInv
  <1>2. CASE Begin
    BY <1>2 DEF Begin, MetricsTypeOK, RecordedInv, FailuresAreCounted, Unrecorded
  <1>3. CASE Reset \/ UNCHANGED vars
    <2>1. UNCHANGED <<pc, current, measured, failed, scanned, converted>>
      BY <1>3 DEF Reset, vars, runVars, metricVars
    <2> QED
      BY <1>1, <2>1, Zenon DEF MetricsTypeOK, RecordedInv, FailuresAreCounted, Unrecorded
  <1>4. CASE PayloadFails \/ SendCreated \/ SendFails
    <2>1. /\ pc = "send" /\ pc' \in {"send", "return"}
          /\ UNCHANGED <<measured, scanned, converted>>
          /\ pc' = "send" => failed' = failed
      BY <1>4 DEF PayloadFails, SendCreated, SendFails, metricVars
    <2> QED
      BY <1>1, <2>1 DEF MetricsTypeOK, RecordedInv, FailuresAreCounted
  <1>5. CASE StoreScans
    BY <1>1, <1>5 DEF StoreScans, runVars, metricVars, MetricsTypeOK, RecordedInv,
                      FailuresAreCounted
  <1> QED
    BY <1>2, <1>3, <1>4, <1>5

(* Every step keeps the whole invariant.                                   *)
LEMMA NextIInv == IInv /\ [Next]_vars => IInv'
  <1> SUFFICES ASSUME IInv, [Next]_vars PROVE IInv'
    OBVIOUS
  <1>1. CoreInv'
    BY NextCoreInv DEF IInv
  <1>2. MetricsTypeOK' /\ RecordedInv' /\ FailuresAreCounted'
    BY executeScansMetrics, convertScansMetrics, OtherStepsMetrics
    DEF Next, CollectAndSend, ConvertAndSend
  <1> QED
    BY <1>1, <1>2 DEF IInv
-----------------------------------------------------------------------------
(* The inductive invariant holds in every reachable state.                 *)
THEOREM Invariance == Spec => []IInv
  <1>1. Init => IInv
    BY InitCoreInv, InitMetrics DEF IInv
  <1> QED
    BY <1>1, NextIInv, PTL DEF Spec

(* Type correctness of the collector, with the bound on the requests.      *)
THEOREM TypeCorrect == Spec => []TypeOK
  <1>1. IInv => TypeOK
    BY DEF IInv, CoreInv, TypeOK
  <1> QED
    BY <1>1, Invariance, PTL

(* The attempts of one run carry one and the same payload.                 *)
THEOREM SamePayload == Spec => []RetriesRepeatThePayload
  <1>1. IInv => RetriesRepeatThePayload
    BY DEF IInv, CoreInv
  <1> QED
    BY <1>1, Invariance, PTL

(* No resource is missing from the payload of a run with a ScanMap to fall *)
(* back on.                                                                *)
THEOREM CompletePayload == Spec => []PayloadCoversAllScanners
  <1>1. IInv => PayloadCoversAllScanners
    BY DEF IInv, CoreInv, FallbackInv, PayloadCoversAllScanners
  <1> QED
    BY <1>1, Invariance, PTL

(* The metrics count every scanner once per run, and a failure among them  *)
(* exactly if the run has met one.                                         *)
THEOREM MetricsTell == Spec => []FailuresAreCounted
  <1>1. IInv => FailuresAreCounted
    BY DEF IInv
  <1> QED
    BY <1>1, Invariance, PTL

(* Scans reach the cache only when EDP has accepted an event of their run. *)
THEOREM StoredIfAccepted == Spec => StoredOnlyIfAccepted
  <1>1. ASSUME IInv, [Next]_vars, stored' \notin {stored, NoScans}
        PROVE  \E e \in events : e.run = run
    <2>1. StoreScans
      BY <1>1 DEF Next, CollectAndSend, ConvertAndSend, vars, Begin, Reset, executeScans,
                  convertScansToEDPMeasurements, PayloadFails, SendCreated, SendFails
    <2>2. pc = "return" /\ ~ failed
      BY <1>1, <2>1 DEF StoreScans
    <2> QED
      BY <1>1, <2>2 DEF IInv, CoreInv, EventsInv
  <1>2. IInv /\ [Next]_vars =>
          [stored' \notin {stored, NoScans} => \E e \in events : e.run = run]_vars
    BY <1>1
  <1> QED
    BY <1>2, Invariance, PTL DEF Spec, StoredOnlyIfAccepted

(* CollectAndSend implements ScanMapSpec: every step of it begins a run,   *)
(* stores the scans of the latest run, clears the map, or leaves the map   *)
(* and the run number alone.                                               *)
THEOREM Refinement == Spec => ImplementsScanMap
  <1>1. Init => ScanMap!Init
    BY DEF Init, ScanMap!Init, ScanMap!AllOf, TakenAt, NoScans
  <1>2. ASSUME IInv, [Next]_vars PROVE [ScanMap!Next]_ScanMap!vars
    <2>1. run \in Nat
      BY <1>2 DEF IInv, CoreInv, RunTypeOK
    <2>2. CASE Begin
      BY <2>2 DEF Begin, TakenAt, ScanMap!Next, ScanMap!Begin
    <2>3. CASE Reset
      <3>1. TakenAt' = ScanMap!AllOf(0)
        BY <2>3 DEF Reset, TakenAt, NoScans, ScanMap!AllOf
      <3> QED
        BY <2>3, <3>1 DEF Reset, ScanMap!Next, ScanMap!Clear
    <2>4. CASE StoreScans
      <3>1. run' = run /\ stored' = IF failed THEN stored ELSE measured
        BY <2>4 DEF StoreScans
      <3>2. CASE failed
        BY <3>1, <3>2 DEF TakenAt, ScanMap!vars
      <3>3. CASE ~ failed
        <4>1. stored' = AllOf(run)
          BY <1>2, <2>4, <3>1, <3>3 DEF IInv, CoreInv, CleanInv, StoreScans
        <4>2. ASSUME NEW s \in Scanners
              PROVE  stored'[s] # None /\ stored'[s].at = run
          <5>1. stored'[s] = [at |-> run, edp |-> TRUE]
            BY <4>1 DEF AllOf
          <5>2. stored'[s] # None
            BY <2>1, <5>1, ScanIsNotNone, Zenon
          <5>3. stored'[s].at = run
            BY <5>1
          <5> QED
            BY <5>2, <5>3
        <4>3. TakenAt' = ScanMap!AllOf(run)
          BY <4>2 DEF TakenAt, ScanMap!AllOf
        <4> QED
          BY <3>1, <4>3 DEF ScanMap!Next, ScanMap!Store
      <3> QED
        BY <3>2, <3>3
    <2>5. CASE UNCHANGED <<run, stored>>
      BY <2>5 DEF TakenAt, ScanMap!vars
    <2> QED
      BY <1>2, <2>2, <2>3, <2>4, <2>5
      DEF Next, CollectAndSend, ConvertAndSend, vars, executeScans, convertScansToEDPMeasurements,
          PayloadFails, SendCreated, SendFails
  <1> QED
    BY <1>1, <1>2, Invariance, PTL DEF Spec, ImplementsScanMap, ScanMap!Spec

(* What a run can still do: the steps that are left to it, each request    *)
(* counted as one.                                                         *)
StepsLeft ==
    CASE pc = "idle"    -> 0
      [] pc = "return"  -> 1
      [] pc = "send"    -> 1 + (EventRetry - attempts)
      [] pc = "convert" -> 2 + EventRetry
      [] pc = "scan"    -> 3 + EventRetry

(* CollectAndSend never goes back: each of its steps leaves fewer, and a   *)
(* record that the poller resets meanwhile does not hold it up.            *)
RunGetsShorter ==
    [][/\ pc # "idle" /\ CollectAndSend => StepsLeft' < StepsLeft
       /\ Reset => StepsLeft' = StepsLeft]_vars

(* A run ends after at most EventRetry requests and three other steps,     *)
(* whatever fails, if EventRetry is not 0.                                 *)
THEOREM RunsAreBounded ==
    ASSUME EventRetry > 0
    PROVE  Spec => [](StepsLeft \in 0..(EventRetry + 3)) /\ RunGetsShorter
  <1>1. IInv => StepsLeft \in 0..(EventRetry + 3)
    BY EventRetryAssumption DEF IInv, CoreInv, RunTypeOK, StepsLeft
  <1>2. ASSUME IInv, pc # "idle", CollectAndSend PROVE StepsLeft' < StepsLeft
    <2>1. /\ attempts \in Nat /\ EventRetry \in Nat
          /\ attempts <= EventRetry
          /\ pc \in {"scan", "convert"} => attempts = 0
          /\ pc = "send" => attempts # EventRetry
      BY <1>2, EventRetryAssumption DEF IInv, CoreInv, RunTypeOK
    <2>2. CASE executeScans
      BY <2>1, <2>2 DEF executeScans, StepsLeft
    <2>3. CASE convertScansToEDPMeasurements
      <3>1. pc = "convert" /\ attempts' = attempts /\ pc' \in {"send", "return"}
        BY <2>3 DEF convertScansToEDPMeasurements
      <3> QED
        BY <2>1, <3>1 DEF StepsLeft
    <2>4. CASE PayloadFails \/ SendCreated
      BY <2>1, <2>4 DEF PayloadFails, SendCreated, StepsLeft
    <2>5. CASE SendFails
      <3>1. pc = "send" /\ attempts' = attempts + 1 /\ pc' \in {"send", "return"}
        BY <2>5 DEF SendFails
      <3> QED
        BY <2>1, <3>1 DEF StepsLeft
    <2>6. CASE StoreScans
      BY <2>6 DEF StoreScans, StepsLeft
    <2> QED
      BY <1>2, <2>2, <2>3, <2>4, <2>5, <2>6 DEF CollectAndSend, ConvertAndSend, Begin
  <1>3. ASSUME Reset PROVE StepsLeft' = StepsLeft
    BY <1>3 DEF Reset, runVars, StepsLeft
  <1>4. IInv => [/\ pc # "idle" /\ CollectAndSend => StepsLeft' < StepsLeft
                 /\ Reset => StepsLeft' = StepsLeft]_vars
    BY <1>2, <1>3
  <1> QED
    BY <1>1, <1>4, Invariance, PTL DEF RunGetsShorter
=============================================================================
