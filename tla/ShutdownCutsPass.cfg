\* One client; nothing fails and the process is told to stop.
SPECIFICATION FairSpec
CONSTANTS
  Client = {c1}
  ID = {1, 2}
  ClusterName = {"a", "b"}
  Body <- MCBody
  SQLStore = TRUE
  MaxFaults = 0
  Unused = Unused
  Removed = Removed
PROPERTY PassCompletes
