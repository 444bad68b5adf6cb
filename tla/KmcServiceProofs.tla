-------------------------- MODULE KmcServiceProofs --------------------------
(* Proofs of the safety properties of KmcService, for any filter file and  *)
(* any tables.                                                             *)
EXTENDS KmcService, TLAPS

USE DEF options

(* The places of the steps that the invariant speaks of.                   *)
LEMMA StepsFacts ==
    /\ Len(Steps) = 10
    /\ \A i \in 1..10 : Steps[i] = "New" <=> i = 10
    /\ \A i \in 1..10 : Steps[i] = "LoadPublicCloudSpecs" <=> i = 4
  BY DEF Steps

(* The process starts in the invariant.                                    *)
LEMMA InitIInv == Init => IInv
  <1> SUFFICES ASSUME Init PROVE IInv
    OBVIOUS
  <1>1. TypeOK
    <2>1. stage \in 1..(Len(Steps) + 1)
      BY StepsFacts DEF Init
    <2>2. file \subseteq Accounts /\ specs \subseteq Tables
      BY DEF Init
    <2> QED
      BY <2>1, <2>2, Zenon DEF Init, TypeOK
  <1>2. ConfiguredInv /\ ServersInv
    BY StepsFacts DEF Init, ConfiguredInv, ServersInv, Servers
  <1> QED
    BY <1>1, <1>2 DEF IInv

(* A fatal error ends the process and changes nothing else.                *)
LEMMA FatalIInv == ASSUME IInv, Fatal PROVE IInv'
  BY DEF IInv, Fatal, TypeOK, ConfiguredInv, ServersInv

(* The steps of main keep the invariant.                                   *)
LEMMA MainIInv == ASSUME IInv, main PROVE IInv'
  <1>t. TypeOK /\ ConfiguredInv /\ ServersInv
    BY DEF IInv
  <1>1. CASE StepFails
    BY <1>1, FatalIInv DEF StepFails
  <1>2. CASE StepSucceeds
    <2>1. /\ stage \in 1..10 /\ stage # 4 /\ stage # 10 /\ stage' = stage + 1
          /\ UNCHANGED <<options, filterList, proc, poller, spc, listener, registered,
                         mailbox, heard, flush>>
      BY <1>t, <1>2, StepsFacts DEF StepSucceeds, StepDone, TypeOK
    <2>2. TypeOK'
      BY <1>t, <2>1, StepsFacts DEF TypeOK
    <2>3. ConfiguredInv'
      BY <1>t, <2>1, StepsFacts DEF ConfiguredInv
    <2>4. ServersInv'
      BY <1>t, <2>1 DEF ServersInv
    <2> QED
      BY <2>2, <2>3, <2>4 DEF IInv
  <1>3. CASE LoadPublicCloudSpecs
    <2>1. /\ stage = 4 /\ stage' = 5 /\ specs = Tables
          /\ UNCHANGED <<options, filterList, proc, poller, spc, listener, registered,
                         mailbox, heard, flush>>
      BY <1>t, <1>3, StepsFacts DEF LoadPublicCloudSpecs, InStep, StepDone, TypeOK
    <2>2. TypeOK'
      BY <1>t, <2>1, StepsFacts DEF TypeOK
    <2>3. ConfiguredInv'
      BY <1>t, <2>1, StepsFacts DEF ConfiguredInv
    <2>4. ServersInv'
      BY <1>t, <2>1 DEF ServersInv
    <2> QED
      BY <2>2, <2>3, <2>4 DEF IInv
  <1>4. CASE parseRuntimesToBeFiltered
    <2>1. /\ stage = 10 /\ stage' = 11 /\ filterList' = file
          /\ UNCHANGED <<options, proc, poller, spc, listener, registered, mailbox,
                         heard, flush>>
      BY <1>t, <1>4, StepsFacts DEF parseRuntimesToBeFiltered, InStep, StepDone, TypeOK
    <2>2. TypeOK'
      BY <1>t, <2>1, StepsFacts DEF TypeOK
    <2>3. ConfiguredInv'
      BY <1>t, <2>1, StepsFacts DEF ConfiguredInv
    <2>4. ServersInv'
      BY <1>t, <2>1 DEF ServersInv
    <2> QED
      BY <2>2, <2>3, <2>4 DEF IInv
  <1>5. CASE StartAll
    <2>1. /\ stage = 11 /\ poller' = "request" /\ spc["main"] = "off"
          /\ spc' \in [Servers -> {"off", "notify"}] /\ spc'["main"] = "notify"
          /\ UNCHANGED <<options, proc, stage, filterList, listener, registered, mailbox,
                         heard, flush>>
      BY <1>5, StepsFacts DEF StartAll, Servers
    <2>2. TypeOK'
      BY <1>t, <2>1, StepsFacts DEF TypeOK
    <2>3. ConfiguredInv'
      BY <1>t, <2>1, StepsFacts DEF ConfiguredInv
    <2>4. ServersInv'
      BY <1>t, <2>1 DEF ServersInv, TypeOK, Servers
    <2> QED
      BY <2>2, <2>3, <2>4 DEF IInv
  <1>6. CASE Flush \/ ReturnFromMain
    BY <1>t, <1>6 DEF Flush, ReturnFromMain, IInv, TypeOK, ConfiguredInv, ServersInv
  <1> QED
    BY <1>1, <1>2, <1>3, <1>4, <1>5, <1>6 DEF main

(* The steps of a server keep the invariant.                               *)
LEMMA ServerIInv ==
    ASSUME IInv, NEW s \in Servers, Server(s) \/ ListenAndServe(s) \/ AcceptFails(s)
    PROVE  IInv'
  <1>t. TypeOK /\ ConfiguredInv /\ ServersInv
    BY DEF IInv
  <1>1. CASE Fatal
    BY <1>1, FatalIInv
  <1>2. ASSUME ~ Fatal
        PROVE  /\ UNCHANGED <<options, proc, stage, filterList, poller, heard, flush>>
               /\ spc[s] # "off" \/ listener[s] # "off"
    BY <1>t, <1>2 DEF Server, Notify, Receive, Shutdown, ListenAndServe, AcceptFails, TypeOK
  <1>3. ASSUME ~ Fatal
        PROVE  TypeOK'
    BY <1>t, <1>2, <1>3 DEF Server, Notify, Receive, Shutdown, ListenAndServe, AcceptFails, TypeOK
  <1>4. ASSUME ~ Fatal
        PROVE  ConfiguredInv'
    <2>1. stage > Len(Steps)
      BY <1>t, <1>2, <1>4, StepsFacts DEF ConfiguredInv, ServersInv, TypeOK
    <2> QED
      BY <1>t, <1>2, <1>4, <2>1, StepsFacts DEF ConfiguredInv, TypeOK
  <1>5. ASSUME ~ Fatal
        PROVE  ServersInv'
    BY <1>t, <1>2, <1>5 DEF Server, Notify, Receive, Shutdown, ListenAndServe, AcceptFails,
       ServersInv, TypeOK, Servers
  <1> QED
    BY <1>1, <1>3, <1>4, <1>5 DEF IInv

(* Every step keeps the invariant.                                         *)
LEMMA NextIInv == IInv /\ [Next]_vars => IInv'
  <1> SUFFICES ASSUME IInv, [Next]_vars PROVE IInv'
    OBVIOUS
  <1>t. TypeOK /\ ConfiguredInv /\ ServersInv
    BY DEF IInv
  <1>1. CASE main
    BY <1>1, MainIInv
  <1>2. CASE NewRequest
    <2>1. CASE Fatal
      BY <2>1, FatalIInv
    <2> QED
      BY <1>t, <1>2, <2>1 DEF NewRequest, IInv, TypeOK, ConfiguredInv, ServersInv
  <1>3. CASE \E s \in Servers : Server(s) \/ ListenAndServe(s) \/ AcceptFails(s)
    BY <1>3, ServerIInv
  <1>4. CASE Signal
    BY <1>t, <1>4 DEF Signal, IInv, TypeOK, ConfiguredInv, ServersInv, Servers
  <1>5. CASE Restart
    <2>1. TypeOK'
      <3>1. stage' \in 1..(Len(Steps) + 1)
        BY <1>5, StepsFacts DEF Restart
      <3>2. file' \subseteq Accounts /\ specs' \subseteq Tables
        BY <1>5 DEF Restart
      <3> QED
        BY <1>5, <3>1, <3>2, Zenon DEF Restart, TypeOK
    <2>2. ConfiguredInv' /\ ServersInv'
      BY <1>5, StepsFacts DEF Restart, ConfiguredInv, ServersInv, Servers
    <2> QED
      BY <2>1, <2>2 DEF IInv
  <1>6. CASE UNCHANGED vars
    BY <1>t, <1>6 DEF vars, IInv, TypeOK, ConfiguredInv, ServersInv
  <1> QED
    BY <1>1, <1>2, <1>3, <1>4, <1>5, <1>6 DEF Next
-----------------------------------------------------------------------------
(* The inductive invariant holds in every state of every behaviour.        *)
THEOREM Invariance == Spec => []IInv
  BY InitIInv, NextIInv, PTL DEF Spec

(* The variables always have their types; in particular no signal waits in *)
(* a channel that is not registered.                                       *)
THEOREM TypeCorrect == Spec => []TypeOK
  <1>1. IInv => TypeOK
    BY DEF IInv
  <1> QED
    BY <1>1, Invariance, PTL

(* The process polls and serves only with all of its configuration, for    *)
(* every filter file and every specs file.                                 *)
THEOREM Configured == Spec => []RunsOnlyConfigured
  <1>1. IInv => RunsOnlyConfigured
    BY StepsFacts DEF IInv, TypeOK, ConfiguredInv, ServersInv, RunsOnlyConfigured
  <1> QED
    BY <1>1, Invariance, PTL

(* Whoever returns from main has been told to by a signal that the main    *)
(* server was registered for and has stopped serving, however the two      *)
(* servers, their listeners and any number of signals interleave.          *)
THEOREM Graceful == Spec => []GracefulEnd
  <1>1. IInv => GracefulEnd
    BY DEF IInv, ServersInv, GracefulEnd, Servers
  <1> QED
    BY <1>1, Invariance, PTL

(* The main server is registered when it waits or has stopped waiting.  A  *)
(* signal that it has been sent is then in its channel or has stopped it:  *)
(* it is not dropped by a full channel, taken by the debug server or       *)
(* missed between Notify and the receive.                                  *)
SignalIsKept ==
    /\ "main" \in registered => spc["main"] \in {"wait", "shutdown", "returned"}
    /\ heard => "main" \in registered /\ (spc["main"] = "wait" => "main" \in mailbox)

(* No signal to the main server is lost, however many signals come and     *)
(* whatever the debug server does.  That the server then gets on with it   *)
(* is SignalEnds, which needs fairness.                                    *)
THEOREM NoSignalIsLost == Spec => []SignalIsKept
  <1>1. Init => SignalIsKept
    BY DEF Init, SignalIsKept
  <1>2. ASSUME IInv, SignalIsKept, [Next]_vars PROVE SignalIsKept'
    <2>t. spc \in [Servers -> {"off", "notify", "wait", "shutdown", "returned"}]
      BY <1>2 DEF IInv, TypeOK
    <2>1. CASE Fatal
      BY <1>2, <2>1 DEF Fatal, SignalIsKept
    <2>2. CASE main
      BY <1>2, <2>1, <2>2
      DEF main, StepFails, StepSucceeds, LoadPublicCloudSpecs, parseRuntimesToBeFiltered,
          StepDone, StartAll, Flush, ReturnFromMain, SignalIsKept
    <2>3. CASE NewRequest
      BY <1>2, <2>1, <2>3 DEF NewRequest, SignalIsKept
    <2>4. ASSUME NEW s \in Servers, Notify(s) PROVE SignalIsKept'
      BY <1>2, <2>t, <2>4 DEF Notify, SignalIsKept, Servers
    <2>5. ASSUME NEW s \in Servers, Receive(s) PROVE SignalIsKept'
      BY <1>2, <2>t, <2>5 DEF Receive, SignalIsKept, Servers
    <2>6. ASSUME NEW s \in Servers, Shutdown(s) PROVE SignalIsKept'
      BY <1>2, <2>t, <2>1, <2>6 DEF Shutdown, SignalIsKept, Servers
    <2>7. ASSUME NEW s \in Servers, ListenAndServe(s) PROVE SignalIsKept'
      BY <1>2, <2>1, <2>7 DEF ListenAndServe, SignalIsKept
    <2>8. CASE Signal
      BY <1>2, <2>8 DEF Signal, SignalIsKept
    <2>9. CASE Restart
      BY <2>9 DEF Restart, SignalIsKept
    <2>10. CASE UNCHANGED vars
      BY <1>2, <2>10 DEF vars, SignalIsKept
    <2>11. ASSUME NEW s \in Servers, AcceptFails(s) PROVE SignalIsKept'
      BY <2>1, <2>11 DEF AcceptFails
    <2> QED
      BY <1>2, <2>2, <2>3, <2>4, <2>5, <2>6, <2>7, <2>8, <2>9, <2>10, <2>11 DEF Next, Server
  <1> QED
    BY <1>1, <1>2, Invariance, PTL DEF Spec
=============================================================================
