---------------------------- MODULE Measurement ----------------------------
(***************************************************************************)
(* pkg/resource: what the scanners see of a cluster and what their scans   *)
(* are converted to, summed up in the payload of pkg/collector/edp.        *)
(*                                                                         *)
(* The scanners list their resources one after the other while the cluster *)
(* changes, so a payload need not describe any one state of the cluster.   *)
(* The runs of this module have no ScanMap to fall back on: EDPCollector   *)
(* is about falling back.  Sizes are in units of 256 MiB.                  *)
(***************************************************************************)
EXTENDS Naturals, Sequences, FiniteSets, FiniteSetsExt

CONSTANTS
    Nodes, Pvcs, Instances, Vscs,   \* the resources that may exist
    NfsPvcs,        \* the claims that have all of nfsLabels
    Labels,         \* values of the instance type label of nodes
    ToLower,        \* strings.ToLower on Labels
    Machines,       \* PublicCloudSpecs: the machine types of the provider
    Tiers,          \* Redis tiers that occur
    RedisTiers,     \* PublicCloudSpecs: the storage of the known tiers
    Sizes,          \* the sizes of volumes and snapshots
    LabelSizes,     \* the sizes in the capacity label of NFS volumes
    MaxResources,   \* bound: the resources that exist at a time
    MaxChanges,     \* bound: the changes of the cluster during a run
    Invalid,        \* a capacity label that does not parse
    Pending,        \* the state of a volume that is not there yet
    None            \* nil, and a resource that does not exist

GiB == 4

storageRoundingFactor == 32

nfsPriceMultiplier == 3

Resources == Nodes \cup Pvcs \cup Instances \cup Vscs

ASSUME MeasurementAssumption ==
    /\ IsFiniteSet(Resources)
    /\ Nodes \cap (Pvcs \cup Instances \cup Vscs) = {}
    /\ Pvcs \cap (Instances \cup Vscs) = {} /\ Instances \cap Vscs = {}
    /\ {None, Pending} \cap (Labels \cup Tiers) = {}
    /\ NfsPvcs \subseteq Pvcs
    /\ Sizes \cup LabelSizes \subseteq Nat
    /\ MaxResources \in Nat /\ MaxChanges \in Nat
    /\ \A m \in DOMAIN Machines : Machines[m] \in [CpuCores : Nat, Memory : Nat]
    /\ \A t \in DOMAIN RedisTiers : RedisTiers[t] \in Nat

(* The order of the scanners in cmd/main.go.                               *)
scanners == <<"node", "pvc", "redis", "vsc">>

IDs == {scanners[i] : i \in DOMAIN scanners}

(* The redis scanner's lists for AWS, Azure and GCP are one: a cluster has *)
(* one provider, and a kind of resource that the cluster does not know     *)
(* (NotFound) is an empty list.                                            *)
ListedBy(id) ==
    CASE id = "node"  -> Nodes
      [] id = "pvc"   -> Pvcs
      [] id = "redis" -> Instances
      [] id = "vsc"   -> Vscs

(* The states of a resource, as far as its scan is converted by them.  A   *)
(* claim that is not bound, and a snapshot content that is not ready to    *)
(* use or has no status, are Pending.                                      *)
States(r) ==
    CASE r \in Nodes     -> Labels
      [] r \in Pvcs      -> [size : Sizes,
                             label : IF r \in NfsPvcs THEN LabelSizes \cup {Invalid, None}
                                     ELSE {None}] \cup {Pending}
      [] r \in Instances -> Tiers
      [] r \in Vscs      -> [restoreSize : Sizes \cup {None}] \cup {Pending}

VARIABLES
    cluster,    \* the state of every resource, None if it does not exist
    pc,         \* the next scanner of the run, 0 between two runs
    scans,      \* the ScanMap: what each scanner has listed
    changes,    \* the number of changes of the cluster since the run began
    seen        \* history: the states of each resource since the run began

vars == <<cluster, pc, scans, changes, seen>>

NoScans == [id \in IDs |-> None]

Unseen == [r \in Resources |-> {}]

Init ==
    /\ cluster = [r \in Resources |-> None]
    /\ pc = 0
    /\ scans = NoScans
    /\ changes = 0
    /\ seen = Unseen

Existing(list) == {r \in DOMAIN list : list[r] # None}

(* A resource is created, changed or deleted.                              *)
Change(r) ==
    /\ pc > 0 => changes < MaxChanges
    /\ \E state \in States(r) \cup {None} :
          /\ state # cluster[r]
          /\ cluster' = [cluster EXCEPT ![r] = state]
          /\ Cardinality(Existing(cluster')) <= MaxResources
          /\ seen' = IF pc = 0 THEN seen ELSE [seen EXCEPT ![r] = @ \cup {state}]
    /\ changes' = IF pc = 0 THEN 0 ELSE changes + 1
    /\ UNCHANGED <<pc, scans>>

Begin ==
    /\ pc = 0
    /\ pc' = 1
    /\ seen' = [r \in Resources |-> {cluster[r]}]
    /\ UNCHANGED <<cluster, scans, changes>>

List(id) == [r \in ListedBy(id) |-> cluster[r]]

(* Faulty variant: the missing nodes are not noticed.                      *)
ScanUnchecked ==
    /\ pc \in DOMAIN scanners
    /\ scans' = [scans EXCEPT ![scanners[pc]] = List(scanners[pc])]
    /\ pc' = pc + 1
    /\ UNCHANGED <<cluster, changes, seen>>

(* A cluster with no nodes is not a valid cluster: the node scan fails.    *)
Scan ==
    /\ pc \in DOMAIN scanners
    /\ scanners[pc] = "node" => Existing(List("node")) # {}
    /\ scans' = [scans EXCEPT ![scanners[pc]] = List(scanners[pc])]
    /\ pc' = pc + 1
    /\ UNCHANGED <<cluster, changes, seen>>

(* A list cannot be had (for the redis scanner: any of its lists) or       *)
(* decoded, or is of no nodes: there is no scan.                           *)
ScanFails ==
    /\ pc \in DOMAIN scanners
    /\ pc' = pc + 1
    /\ UNCHANGED <<cluster, scans, changes, seen>>

(* The payload (see below) is sent and the run is over.                    *)
Send ==
    /\ pc = Len(scanners) + 1
    /\ pc' = 0
    /\ scans' = NoScans
    /\ changes' = 0
    /\ seen' = Unseen
    /\ UNCHANGED cluster

Next ==
    \/ \E r \in Resources : Change(r)
    \/ Begin
    \/ Scan
    \/ ScanFails
    \/ Send

Spec == Init /\ [][Next]_vars
-----------------------------------------------------------------------------
(* The conversions: EDP() of each scan gives a measurement and an error.   *)

NoMeasurement == [vmTypes |-> {}, cpus |-> 0, ram |-> 0,
                  sizeTotal |-> 0, sizeRounded |-> 0, count |-> 0]

GetFeature(nodeType) == IF nodeType \in DOMAIN Machines THEN Machines[nodeType] ELSE None

(* Faulty variant: the machines are counted under the label as it is.      *)
NodeEDPByLabel(list) ==
    LET known == {n \in Existing(list) : GetFeature(ToLower[list[n]]) # None}
        Feature(n) == GetFeature(ToLower[list[n]])
    IN  [edp |-> [NoMeasurement EXCEPT
            !.vmTypes = {[name |-> list[n],
                          count |-> Cardinality({m \in known : list[m] = list[n]})] : n \in known},
            !.cpus = SumFunction([n \in known |-> Feature(n).CpuCores]),
            !.ram = SumFunction([n \in known |-> Feature(n).Memory])],
         ok |-> known = Existing(list)]

NodeEDP(list) ==
    LET nodeType == [n \in Existing(list) |-> ToLower[list[n]]]
        known == {n \in Existing(list) : GetFeature(nodeType[n]) # None}
    IN  [edp |-> [NoMeasurement EXCEPT
            !.vmTypes = {[name |-> nodeType[n],
                          count |-> Cardinality({m \in known : nodeType[m] = nodeType[n]})] :
                            n \in known},
            !.cpus = SumFunction([n \in known |-> GetFeature(nodeType[n]).CpuCores]),
            !.ram = SumFunction([n \in known |-> GetFeature(nodeType[n]).Memory])],
         ok |-> known = Existing(list)]

(* The part of a GiB is cut off.                                           *)
getSizeInGB(size) == size \div GiB

(* Faulty variant: a multiple of the factor is rounded up as well.         *)
getVolumeRoundedToNextFactor(size) ==
    storageRoundingFactor * (size \div storageRoundingFactor + 1)

getVolumeRoundedToFactor(size) ==
    storageRoundingFactor * ((size + storageRoundingFactor - 1) \div storageRoundingFactor)

(* The volumes in the domain of sizeGb, of that size each.                 *)
Provisioned(sizeGb) ==
    [NoMeasurement EXCEPT
        !.sizeTotal = SumFunction(sizeGb),
        !.sizeRounded = SumFunction([v \in DOMAIN sizeGb |-> getVolumeRoundedToFactor(sizeGb[v])]),
        !.count = Cardinality(DOMAIN sizeGb)]

(* Faulty variant: the capacity of the claim is used in spite of a label.  *)
nfsSizeByCapacity(pvc) == pvc.size

(* For NFS volumes the capacity label comes first, if there is a valid one.*)
nfsSize(pvc) == IF pvc.label \in LabelSizes THEN pvc.label ELSE pvc.size

PvcEDP(list) ==
    LET bound == {p \in Existing(list) : list[p] # Pending}
    IN  [edp |-> Provisioned([p \in bound |->
                    IF p \in NfsPvcs
                    THEN getSizeInGB(nfsSize(list[p])) * nfsPriceMultiplier
                    ELSE getSizeInGB(list[p].size)]),
         ok |-> TRUE]

(* Redis storage is not rounded.                                           *)
RedisEDP(list) ==
    LET known == {i \in Existing(list) : list[i] \in DOMAIN RedisTiers}
        storage == SumFunction([i \in known |-> RedisTiers[list[i]]])
    IN  [edp |-> [NoMeasurement EXCEPT !.sizeTotal = storage, !.sizeRounded = storage,
                                       !.count = Cardinality(known)],
         ok |-> known = Existing(list)]

(* Faulty variant: a snapshot without a restore size is no error.          *)
VscEDPSkipping(list) ==
    LET sized == {v \in Existing(list) : list[v] # Pending /\ list[v].restoreSize # None}
    IN  [edp |-> Provisioned([v \in sized |-> getSizeInGB(list[v].restoreSize)]), ok |-> TRUE]

VscEDP(list) ==
    LET ready == {v \in Existing(list) : list[v] # Pending}
        sized == {v \in ready : list[v].restoreSize # None}
    IN  [edp |-> Provisioned([v \in sized |-> getSizeInGB(list[v].restoreSize)]),
         ok |-> sized = ready]

EDP(id) ==
    CASE id = "node"  -> NodeEDP(scans["node"])
      [] id = "pvc"   -> PvcEDP(scans["pvc"])
      [] id = "redis" -> RedisEDP(scans["redis"])
      [] id = "vsc"   -> VscEDP(scans["vsc"])

(* The scanners whose scan was converted without an error.                 *)
convertable == {id \in IDs : scans[id] # None /\ EDP(id).ok}

(* What is sent.                                                           *)
aggregateEDPMeasurements ==
    LET edp == [id \in convertable |-> EDP(id).edp]
    IN  [vmTypes     |-> UNION {edp[id].vmTypes : id \in DOMAIN edp},
         cpus        |-> SumFunction([id \in DOMAIN edp |-> edp[id].cpus]),
         ram         |-> SumFunction([id \in DOMAIN edp |-> edp[id].ram]),
         sizeTotal   |-> SumFunction([id \in DOMAIN edp |-> edp[id].sizeTotal]),
         sizeRounded |-> SumFunction([id \in DOMAIN edp |-> edp[id].sizeRounded]),
         count       |-> SumFunction([id \in DOMAIN edp |-> edp[id].count])]
-----------------------------------------------------------------------------
(* Properties.                                                             *)

(* Every variable has the type of the state it models, and a node scan is  *)
(* never without nodes.                                                    *)
TypeOK ==
    /\ \A r \in Resources : cluster[r] \in States(r) \cup {None}
    /\ pc \in 0..(Len(scanners) + 1)
    /\ changes \in 0..MaxChanges
    /\ scans["node"] # None => Existing(scans["node"]) # {}

Sending == pc = Len(scanners) + 1

(* The CPUs and the memory of the payload are those of the machines it     *)
(* lists by type, although both are counted separately and the label of a  *)
(* node may be in any case.                                                *)
MachinesExplainCompute ==
    Sending =>
        LET edp == aggregateEDPMeasurements
        IN  /\ \A vm \in edp.vmTypes : vm.name \in DOMAIN Machines
            /\ edp.cpus = SumFunction([vm \in edp.vmTypes |->
                                         vm.count * Machines[vm.name].CpuCores])
            /\ edp.ram = SumFunction([vm \in edp.vmTypes |->
                                        vm.count * Machines[vm.name].Memory])

(* Rounding ("17 -> 32, 33 -> 64") never loses storage and adds less than  *)
(* the factor per volume, summed up over volumes of every kind.            *)
RoundingIsBounded ==
    Sending =>
        LET edp == aggregateEDPMeasurements
        IN  /\ edp.sizeTotal <= edp.sizeRounded
            /\ edp.count > 0 =>
                  edp.sizeRounded < edp.sizeTotal + storageRoundingFactor * edp.count
            /\ edp.count = 0 => edp.sizeRounded = 0

(* What a resource in a state should count for, stated without the         *)
(* conversions: a node or billable volume is one, whatever is known of it. *)
Ones(r, state) == IF state \in {None, Pending} THEN 0 ELSE 1

(* The whole GB of a size.                                                 *)
WholeGb(size) == CHOOSE n \in 0..size : n * GiB <= size /\ size < (n + 1) * GiB

(* The GB a volume should count for; 0 where that is not known.            *)
Gb(r, state) ==
    IF Ones(r, state) = 0 THEN 0
    ELSE CASE r \in Nodes     -> 0
           [] r \in Instances -> IF state \in DOMAIN RedisTiers THEN RedisTiers[state] ELSE 0
           [] r \in Vscs      -> IF state.restoreSize = None THEN 0
                                 ELSE WholeGb(state.restoreSize)
           [] r \in NfsPvcs   -> 3 * WholeGb(IF state.label \in LabelSizes THEN state.label
                                             ELSE state.size)
           [] r \in Pvcs \ NfsPvcs -> WholeGb(state.size)

(* amount is within what the resources were worth while they were scanned. *)
WithinRun(amount, resources, Worth(_, _)) ==
    LET worths(r) == {Worth(r, state) : state \in seen[r]}
    IN  /\ amount >= SumFunction([r \in resources |-> Min(worths(r))])
        /\ amount <= SumFunction([r \in resources |-> Max(worths(r))])

Converted == UNION {ListedBy(id) : id \in convertable}

(* Whatever changes in the cluster while it is scanned: in what a payload  *)
(* covers, a resource that was there all the time is counted once, and one *)
(* that was never there is not.  A kind of resource with one that is not   *)
(* understood is left out as a whole and never counted in part.            *)
CountedOnce ==
    Sending =>
        LET edp == aggregateEDPMeasurements
        IN  /\ WithinRun(edp.count, Converted \ Nodes, Ones)
            /\ WithinRun(SumFunction([vm \in edp.vmTypes |-> vm.count]),
                         Converted \cap Nodes, Ones)

(* The storage that is sent is between the least and the most the volumes  *)
(* of the payload were worth during the run.                               *)
StorageOfTheRun ==
    Sending => WithinRun(aggregateEDPMeasurements.sizeTotal, Converted, Gb)
=============================================================================
