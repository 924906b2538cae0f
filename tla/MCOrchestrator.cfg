\* One manager, one seed node that runs an instance, and two more that wait and do
\* not both fit on it.
SPECIFICATION FairSpec
CONSTANTS
  Manager = {m1}
  Name = {1, 2, 3}
  Seed = {1}
  Running = {"a"}
  Inst = {"a", "b", "c"}
  Capacity <- MCCapacity
  Limit <- MCLimit
  SQLStore = FALSE
  HasNodeSyncer = TRUE
  HasInstanceSyncer = TRUE
  HasBootstrap = TRUE
  MaxFaults = 2
  MaxChanges = 1
INVARIANTS  InstancesOnRows
PROPERTIES ScaleOutJustified OvercommitOnlyMirrored CapacityKept InstancesStay 
