\* Three managers start together, two of them with the bootstrap flag.
SPECIFICATION FairSpec
CONSTANTS
  Manager = {m1, m2, m3}
  Enabled = {m1, m2}
  MaxFaults = 3
  NoManager = NoManager
  Ghost = Ghost
INVARIANTS TypeOK MutualExclusion SingleInitialCluster BootstrapNotForgotten
PROPERTY StartupEnds
\* When all managers are up nothing more has to happen.
CHECK_DEADLOCK FALSE
