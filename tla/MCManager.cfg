\* Two clients and one manager on the PostgreSQL store, which is started again when
\* it ends; one fault.
SPECIFICATION FairSpec
CONSTANTS
  Client = {c1, c2}
  ID = {1, 2}
  ClusterName = {"a", "b"}
  Body <- MCBody
  SQLStore = TRUE
  MaxFaults = 1
  Unused = Unused
  Removed = Removed
INVARIANTS TypeOK OneServerAfterDelete
PROPERTIES ImplementsRegistry AbsentFieldsKept RequestsAnswered ShutdownEnds
