\* Three runs on one seed, two of them for the same joiner; the client of one
\* reports ErrClusterAlreadyBootstrapped.
SPECIFICATION Spec
CONSTANTS
  n2 = n2
  n3 = n3
  r3 = r3
  Runner = {r1, r2, r3}
  Node = {n1, n2, n3}
  Seed = n1
  Joiner <- MCJoiner
  Tells = {r1}
  MaxFaults = 2
  NoNode = NoNode
  NoRunner = NoRunner
  Orphan = Orphan
INVARIANTS TypeOK ReadyIsMember 
PROPERTY ImplementsMembership
