\* Nothing fails; one instance, which LXD runs and which is deleted there.
SPECIFICATION Spec
CONSTANTS
  Manager = {m1}
  Name = {1, 2}
  Seed = {1}
  Running = {"a"}
  Inst = {"a"}
  Capacity <- MCCapacity
  Limit <- MCLimit
  SQLStore = FALSE
  HasNodeSyncer = TRUE
  HasInstanceSyncer = TRUE
  HasBootstrap = TRUE
  MaxFaults = 0
  MaxChanges = 1
PROPERTY UnknownNotScheduled
