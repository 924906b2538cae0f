\* Nothing fails: what a scale-out yields.
SPECIFICATION FairSpec
CONSTANTS
  Manager = {m1}
  Name = {1, 2, 3}
  Seed = {1}
  Running = {}
  Inst = {"b", "c"}
  Capacity <- MCCapacity
  Limit <- MCLimit
  SQLStore = FALSE
  HasNodeSyncer = TRUE
  HasInstanceSyncer = FALSE
  HasBootstrap = TRUE
  MaxFaults = 0
  MaxChanges = 0
PROPERTY ScaleOutAddsCapacity
