\* Two managers, or one of them, on the in-memory store; one fault and one change of LXD.
SPECIFICATION FairSpec
CONSTANTS
  Manager = {m1, m2}
  Name = {1}
  Inst = {"a", "b"}
  SQLStore = FALSE
  MaxFaults = 1
  MaxChanges = 1
INVARIANT InstancesView
PROPERTIES EventuallyShown LimitsKept
