\* One manager on the in-memory store; each pass starts from an arbitrary
\* outcome of the syncs.
SPECIFICATION Spec
CONSTANTS
  Manager = {m1}
  Name = {1, 2, 3}
  Inst = {"a", "b", "c"}
  Capacity <- MCCapacity
  Limit <- MCLimit
  SQLStore = FALSE
  MaxFaults = 1
  MaxChanges = 1
INVARIANTS ScaleOutRequiredIsReal 
PROPERTIES PlacementFits PlacedOnFullest
\* The bound on resyncs ends the behaviour.
CHECK_DEADLOCK FALSE
