----------------------------- MODULE KmcService -----------------------------
(***************************************************************************)
(* cmd/main.go and pkg/service: the life of the process, from its start    *)
(* over the configuration and the HTTP servers to its end by a signal or   *)
(* by a fatal error, and its restart by Kubernetes.                        *)
(*                                                                         *)
(* main, the poller, the debug server and the two ListenAndServe calls run *)
(* concurrently.  Any of them ends the whole process by logging at level   *)
(* Fatal, which skips main's deferred shutdown of the tracing SDK.         *)
(***************************************************************************)
EXTENDS Naturals, Sequences

CONSTANTS
    Accounts,       \* global accounts a filter file can name
    Invalid,        \* those that are no UUIDs
    Tables          \* Redis and the providers of the public cloud specs

ASSUME InvalidAssumption == Invalid \subseteq Accounts

Servers == {"main", "debug"}

VARIABLES
    debugging,      \* opts.DebugPort > 0
    file,           \* the accounts named in opts.FilterRuntimeFile
    specs,          \* the tables of the specs file that are not empty
    proc,           \* how the process is or how it has ended
    stage,          \* the next step of main
    filterList,     \* Process.globalAccToBeFiltered
    poller,         \* pollKEBForRuntimes
    spc,            \* where Server.Start of each server is
    listener,       \* the goroutine with ListenAndServe of each server
    registered,     \* the servers whose channel is registered for signals
    mailbox,        \* the servers whose channel holds a signal
    heard,          \* history: a signal came when main's server was registered
    flush           \* the outcome of main's deferred otelShutdown

options == <<debugging, file, specs>>
vars == <<options, proc, stage, filterList, poller, spc, listener, registered,
          mailbox, heard, flush>>

(* The steps of main that can fail, in their order.                        *)
Steps == <<"ParseArgs", "SetupSDK", "Load env config", "LoadPublicCloudSpecs",
           "InClusterConfig", "secrets client", "KEB config", "EDP config", "EDP token",
           "New">>

(* Every variable has the type of the state it models.                     *)
TypeOK ==
    /\ debugging \in BOOLEAN
    /\ file \subseteq Accounts
    /\ specs \subseteq Tables
    /\ proc \in {"up", "exited", "fatal", "killed"}
    /\ stage \in 1..(Len(Steps) + 1)
    /\ filterList \subseteq Accounts
    /\ poller \in {"off", "request", "polling"}
    /\ spc \in [Servers -> {"off", "notify", "wait", "shutdown", "returned"}]
    /\ listener \in [Servers -> {"off", "starting", "serving", "closed"}]
    /\ registered \subseteq Servers
    /\ mailbox \subseteq registered
    /\ heard \in BOOLEAN
    /\ flush \in {"pending", "done", "failed"}

Init ==
    /\ debugging \in BOOLEAN
    /\ file \in SUBSET Accounts
    /\ specs \in SUBSET Tables
    /\ proc = "up"
    /\ stage = 1
    /\ filterList = {}
    /\ poller = "off"
    /\ spc = [s \in Servers |-> "off"]
    /\ listener = [s \in Servers |-> "off"]
    /\ registered = {}
    /\ mailbox = {}
    /\ heard = FALSE
    /\ flush = "pending"

Fatal ==
    /\ proc' = "fatal"
    /\ UNCHANGED <<options, stage, filterList, poller, spc, listener,
                   registered, mailbox, heard, flush>>
-----------------------------------------------------------------------------
(* main.                                                                   *)

InStep(name) == proc = "up" /\ stage <= Len(Steps) /\ Steps[stage] = name

(* Faulty variant: main starts over instead of giving up.                  *)
StepFailsStartsOver ==
    /\ proc = "up"
    /\ stage <= Len(Steps)
    /\ stage' = 1
    /\ UNCHANGED <<options, proc, filterList, poller, spc, listener, registered,
                   mailbox, heard, flush>>

(* Any step fails: a variable is not set, a file is missing or malformed.  *)
StepFails ==
    /\ proc = "up"
    /\ stage <= Len(Steps)
    /\ Fatal

StepDone ==
    /\ stage' = stage + 1
    /\ UNCHANGED <<options, proc, poller, spc, listener, registered, mailbox,
                   heard, flush>>

StepSucceeds ==
    /\ proc = "up"
    /\ stage <= Len(Steps)
    /\ Steps[stage] \notin {"LoadPublicCloudSpecs", "New"}
    /\ StepDone
    /\ UNCHANGED filterList

(* Specs of which a table is empty are an error (StepFails).               *)
LoadPublicCloudSpecs ==
    /\ InStep("LoadPublicCloudSpecs")
    /\ specs = Tables
    /\ StepDone
    /\ UNCHANGED filterList

(* Faulty variant: the accounts that are no UUIDs are left out.            *)
parseRuntimesSkippingInvalid ==
    /\ InStep("New")
    /\ filterList' = file \ Invalid
    /\ StepDone

(* kmcprocess.New: one account that is no UUID makes the file an error.    *)
parseRuntimesToBeFiltered ==
    /\ InStep("New")
    /\ file \cap Invalid = {}
    /\ filterList' = file
    /\ StepDone

(* go kmcProcess.Start, and the servers' Start, the debug server's in a    *)
(* goroutine of its own.                                                   *)
StartAll ==
    /\ proc = "up"
    /\ stage = Len(Steps) + 1
    /\ spc["main"] = "off"
    /\ poller' = "request"
    /\ spc' = [main |-> "notify", debug |-> IF debugging THEN "notify" ELSE "off"]
    /\ UNCHANGED <<options, proc, stage, filterList, listener, registered,
                   mailbox, heard, flush>>

(* The deferred otelShutdown hands the spans over or fails; its error is   *)
(* only logged.                                                            *)
Flush ==
    /\ proc = "up"
    /\ spc["main"] = "returned"
    /\ flush = "pending"
    /\ flush' \in {"done", "failed"}
    /\ UNCHANGED <<options, proc, stage, filterList, poller, spc, listener,
                   registered, mailbox, heard>>

(* main returns, which ends all goroutines.                                *)
ReturnFromMain ==
    /\ proc = "up"
    /\ spc["main"] = "returned"
    /\ flush # "pending"
    /\ proc' = "exited"
    /\ UNCHANGED <<options, stage, filterList, poller, spc, listener, registered,
                   mailbox, heard, flush>>

main ==
    \/ StepFails \/ StepSucceeds \/ LoadPublicCloudSpecs \/ parseRuntimesToBeFiltered
    \/ StartAll \/ Flush \/ ReturnFromMain
-----------------------------------------------------------------------------
(* The poller needs a valid URL of KEB.                                    *)
NewRequest ==
    /\ proc = "up"
    /\ poller = "request"
    /\ \/ Fatal
       \/ /\ poller' = "polling"
          /\ UNCHANGED <<options, proc, stage, filterList, spc, listener,
                         registered, mailbox, heard, flush>>
-----------------------------------------------------------------------------
(* Server.Start.                                                           *)

Notify(s) ==
    /\ proc = "up"
    /\ spc[s] = "notify"
    /\ registered' = registered \cup {s}
    /\ spc' = [spc EXCEPT ![s] = "wait"]
    /\ listener' = [listener EXCEPT ![s] = "starting"]
    /\ UNCHANGED <<options, proc, stage, filterList, poller, mailbox, heard, flush>>

(* The listener starts to serve, unless Shutdown was called before, or     *)
(* cannot use the port.                                                    *)
ListenAndServe(s) ==
    /\ proc = "up"
    /\ listener[s] = "starting"
    /\ \/ Fatal
       \/ /\ listener' = [listener EXCEPT ![s] =
                             IF spc[s] = "wait" THEN "serving" ELSE "closed"]
          /\ UNCHANGED <<options, proc, stage, filterList, poller, spc,
                         registered, mailbox, heard, flush>>

(* Accept fails later, while the server serves.                            *)
AcceptFails(s) ==
    /\ proc = "up"
    /\ listener[s] = "serving"
    /\ Fatal

(* Faulty variant: the signal is received and the server goes on.          *)
ReceiveGoesOn(s) ==
    /\ proc = "up"
    /\ spc[s] = "wait"
    /\ s \in mailbox
    /\ mailbox' = mailbox \ {s}
    /\ UNCHANGED <<options, proc, stage, filterList, poller, spc, listener,
                   registered, heard, flush>>

(* Faulty variant: the channel is unregistered instead of read.            *)
ReceiveUnregisters(s) ==
    /\ proc = "up"
    /\ spc[s] = "wait"
    /\ s \in mailbox
    /\ registered' = registered \ {s}
    /\ spc' = [spc EXCEPT ![s] = "shutdown"]
    /\ UNCHANGED <<options, proc, stage, filterList, poller, listener, mailbox,
                   heard, flush>>

(* Faulty variant: Start returns without a call of Shutdown.               *)
ReceiveLeavesListener(s) ==
    /\ proc = "up"
    /\ spc[s] = "wait"
    /\ s \in mailbox
    /\ mailbox' = mailbox \ {s}
    /\ spc' = [spc EXCEPT ![s] = "shutdown"]
    /\ UNCHANGED <<options, proc, stage, filterList, poller, listener, registered,
                   heard, flush>>

(* A signal is received and Shutdown closes the listener.                  *)
Receive(s) ==
    /\ proc = "up"
    /\ spc[s] = "wait"
    /\ s \in mailbox
    /\ mailbox' = mailbox \ {s}
    /\ spc' = [spc EXCEPT ![s] = "shutdown"]
    /\ listener' = [listener EXCEPT ![s] = IF @ = "serving" THEN "closed" ELSE @]
    /\ UNCHANGED <<options, proc, stage, filterList, poller, registered,
                   heard, flush>>

(* The open requests end in time, or serverStopTimeout passes.             *)
Shutdown(s) ==
    /\ proc = "up"
    /\ spc[s] = "shutdown"
    /\ \/ Fatal
       \/ /\ spc' = [spc EXCEPT ![s] = "returned"]
          /\ UNCHANGED <<options, proc, stage, filterList, poller, listener,
                         registered, mailbox, heard, flush>>

Server(s) == Notify(s) \/ Receive(s) \/ Shutdown(s)
-----------------------------------------------------------------------------
(* The environment.                                                        *)

(* SIGINT or SIGTERM: without a registered channel the Go runtime ends the *)
(* process; a channel that is full drops the signal.                       *)
Signal ==
    /\ proc = "up"
    /\ IF registered = {}
       THEN proc' = "killed" /\ UNCHANGED <<mailbox, heard>>
       ELSE /\ mailbox' = registered
            /\ heard' = (heard \/ "main" \in registered)
            /\ UNCHANGED proc
    /\ UNCHANGED <<options, stage, filterList, poller, spc, listener, registered,
                   flush>>

(* Kubernetes starts the process again, with the configuration of then.    *)
Restart ==
    /\ proc # "up"
    /\ debugging' \in BOOLEAN
    /\ file' \in SUBSET Accounts
    /\ specs' \in SUBSET Tables
    /\ proc' = "up"
    /\ stage' = 1
    /\ filterList' = {}
    /\ poller' = "off"
    /\ spc' = [s \in Servers |-> "off"]
    /\ listener' = [s \in Servers |-> "off"]
    /\ registered' = {}
    /\ mailbox' = {}
    /\ heard' = FALSE
    /\ flush' = "pending"

Next ==
    \/ main
    \/ NewRequest
    \/ \E s \in Servers : Server(s) \/ ListenAndServe(s) \/ AcceptFails(s)
    \/ Signal
    \/ Restart

Spec == Init /\ [][Next]_vars

(* Every goroutine that can go on is scheduled.  Nothing is promised about *)
(* signals, restarts and errors of Accept.                                 *)
Fairness ==
    /\ WF_vars(main)
    /\ WF_vars(NewRequest)
    /\ \A s \in Servers : WF_vars(Server(s)) /\ WF_vars(ListenAndServe(s))

FairSpec == Spec /\ Fairness
-----------------------------------------------------------------------------
(* Properties.                                                             *)

(* Nothing polls and nothing is served before all of the configuration is  *)
(* there: above all, no account of the operator's filter file is billed    *)
(* because another one in the file is malformed, and no provider is        *)
(* without machine types.                                                  *)
RunsOnlyConfigured ==
    (poller = "polling" \/ \E s \in Servers : listener[s] = "serving") =>
        stage > Len(Steps) /\ filterList = file /\ specs = Tables

(* A process that ends by returning from main was told to by a signal that *)
(* came when its main server was registered, and its main server accepts   *)
(* no connection any more, be it that it never came to serve.  A signal    *)
(* that only the debug server gets does not make main return.              *)
GracefulEnd ==
    proc = "exited" => heard /\ listener["main"] # "serving"

(* A signal that comes once the main server waits for one ends the         *)
(* process, whatever the other goroutines do, and so does any signal if    *)
(* there is no debug server.  (With one, a signal that comes between the   *)
(* two calls of signal.Notify only stops the debug server.)                *)
SignalEnds == heard ~> proc # "up"

(* The process does not get stuck on its way up: it serves and polls, or   *)
(* it ends.                                                                *)
ComesUp ==
    stage = 1 ~> \/ proc # "up"
                 \/ poller = "polling" /\ listener["main"] \in {"serving", "closed"}
-----------------------------------------------------------------------------
(* The inductive invariant behind the safety properties.                   *)

(* What the steps of main that are done have established.                  *)
ConfiguredInv ==
    /\ stage > 4 => specs = Tables
    /\ stage > Len(Steps) => filterList = file
    /\ stage <= Len(Steps) => poller = "off" /\ \A s \in Servers : spc[s] = "off"

(* How far each server, its listener and its channel can be apart.         *)
ServersInv ==
    /\ \A s \in Servers :
          /\ spc[s] \in {"off", "notify"} => listener[s] = "off"
          /\ spc[s] \in {"shutdown", "returned"} => listener[s] # "serving"
    /\ "main" \in mailbox \/ spc["main"] \in {"shutdown", "returned"} => heard
    /\ spc["main"] = "off" => spc["debug"] = "off"
    /\ proc = "exited" => spc["main"] = "returned"

IInv == TypeOK /\ ConfiguredInv /\ ServersInv
=============================================================================
