\* Two syncers of one cluster on the SQL store, or one of them alone.
SPECIFICATION FairSpec
CONSTANTS
  Manager = {m1, m2}
  Name = {1, 2}
  SQLStore = TRUE
  MaxFaults = 1
  MaxChanges = 1
INVARIANT SyncedView
PROPERTY EventuallyMirrored
