\* Three migrate processes; a down is never run beside another command.
SPECIFICATION FairSpec
CONSTANTS
  Runner = {r1, r2, r3}
  LastVersion = 3
  Additive = {2}
  Reversible = {1, 2, 3}
  DownAlone = TRUE
  MaxCommands = 5
  MaxFaults = 2
INVARIANTS TypeOK RecordMatchesSchema
PROPERTIES ImplementsSchemaVersion UpIsComplete CommandsEnd
\* After the last command nothing more has to happen.
CHECK_DEADLOCK FALSE
