--------------------------- MODULE MCMeasurement ---------------------------
(* A small instance of Measurement: the label of a node is in lower or in  *)
(* upper case, or of an unknown machine type.                              *)
EXTENDS Measurement, TLC

MCToLower == [l \in Labels |-> IF l = "M5" THEN "m5" ELSE l]

MCMachines == [m \in {"m5"} |-> [CpuCores |-> 2, Memory |-> 8]]

MCRedisTiers == [t \in {"S1"} |-> 7]

(* Nodes are interchangeable.                                              *)
NodeSymmetry == Permutations(Nodes)
=============================================================================
