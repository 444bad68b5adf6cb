CONSTANTS
  Nodes = {n1, n2}
  Pvcs = {p1, p2}
  Instances = {i1}
  Vscs = {v1}
  NfsPvcs = {p2}
  Labels = {"m5", "M5", "x1"}
  Tiers = {"S1", "S9"}
  Sizes = {3, 130}
  LabelSizes = {10}
  Pending = Pending
  MaxResources = 3
  MaxChanges = 1
  Invalid = Invalid
  None = None
  ToLower <- MCToLower
  Machines <- MCMachines
  RedisTiers <- MCRedisTiers
SPECIFICATION Spec
SYMMETRY NodeSymmetry
INVARIANT TypeOK
INVARIANT MachinesExplainCompute
INVARIANT RoundingIsBounded
INVARIANT CountedOnce
INVARIANT StorageOfTheRun
