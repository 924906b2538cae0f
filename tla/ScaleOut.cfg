\* Two reconcilers scale the same cluster out, with failing calls and crashes.
SPECIFICATION FairSpec
CONSTANTS
  Manager = {m1, m2}
  Name = {1, 2, 3, 4}
  SQLStore = FALSE
  HasBootstrap = TRUE
  MaxFaults = 2
  MaxChanges = 0
INVARIANTS ProvisioningBounded OnlineIsMember ServersAccounted
 
