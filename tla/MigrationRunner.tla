--------------------------- MODULE MigrationRunner ---------------------------
(***************************************************************************)
(* migration.Runner: processes of cmd/migrate apply and roll back versions  *)
(* on one PostgreSQL database.  The list of versions is read outside any    *)
(* transaction; each file then runs in a transaction of its own together    *)
(* with the insertion or deletion of its row in schema_migrations.          *)
(*                                                                         *)
(* The content of an up file either creates objects, and fails when they    *)
(* exist (CREATE TABLE), or adds rows and succeeds as often as it is run;   *)
(* that of a down file takes back what is there and succeeds also when      *)
(* nothing is (DROP TABLE IF EXISTS), as in db/migrations.                  *)
(***************************************************************************)
EXTENDS Integers, FiniteSets

CONSTANTS
  Runner,       \* migrate processes
  LastVersion,  \* number of up files
  Additive,     \* those whose content may run again and locks nothing
  Reversible,   \* those with a down file
  DownAlone,    \* TRUE: operators run no other command beside a down
  MaxCommands,  \* bound on commands started
  MaxFaults     \* bound on failing calls and crashes

ASSUME RunnerAssumption  == IsFiniteSet(Runner)
ASSUME VersionAssumption == LastVersion \in Nat

Version == 1 .. LastVersion  \* in the order of their zero-padded names

ASSUME FilesAssumption   == Additive \subseteq Version /\ Reversible \subseteq Version
ASSUME AloneAssumption   == DownAlone \in BOOLEAN
ASSUME BoundAssumption   == MaxCommands \in Nat /\ MaxFaults \in Nat

VARIABLES
  recorded,  \* versions with a committed row in schema_migrations
  built,     \* how often the content of each version is in the database
  pc,        \* where each runner is in Up or Down
  run,       \* its locals and its open transaction
  commands,
  faults

vars == <<recorded, built, pc, run, commands, faults>>

Step == {"idle", "read", "exec", "row", "commit"}

NoVersion == 0

Started(command) ==
  [command |-> command,
   todo    |-> {},          \* up files not handled yet, the list without `applied`
   version |-> NoVersion,   \* of the file in the transaction
   content |-> FALSE,       \* the transaction added or took back its content
   row     |-> FALSE]       \* the transaction inserted or deleted its row

Stopped == Started("none")

\* Mutant: the files are not in ascending order.
Unsorted(S) == CHOOSE v \in S : \A u \in S : u <= v

First(S) == CHOOSE v \in S : \A u \in S : v <= u
Last(S)  == CHOOSE v \in S : \A u \in S : u <= v

\* A running transaction of another runner has changed the objects, or the
\* row, of v: PostgreSQL makes this one wait for its end.
ContentLocked(r, v) ==
  v \notin Additive /\ \E o \in Runner \ {r} : run[o].version = v /\ run[o].content
RowLocked(r, v) == \E o \in Runner \ {r} : run[o].version = v /\ run[o].row

\* The content of v is there and must not be.
Clashes(v) == v \notin Additive /\ built[v] > 0

Goto(r, step) == pc' = [pc EXCEPT ![r] = step]

\* Mutant: the transaction of a failed file stays open.
LeaveOpen(r) == Goto(r, "idle") /\ UNCHANGED run

\* The command ends; an open transaction is rolled back (defer tx.Rollback).
EndCommand(r) == Goto(r, "idle") /\ run' = [run EXCEPT ![r] = Stopped]

\* An error is returned before the commit: the transaction leaves nothing.
ReturnError(r) ==
  /\ EndCommand(r)
  /\ UNCHANGED <<recorded, built, commands>>

-----------------------------------------------------------------------------
(* main starts a command, which first makes sure the table exists.          *)

Alone(r) == \A o \in Runner \ {r} : pc[o] = "idle"

Start(r, command) ==
  /\ pc[r] = "idle" /\ commands < MaxCommands
  /\ DownAlone => IF command = "down" THEN Alone(r) ELSE \A o \in Runner : run[o].command # "down"
  /\ Goto(r, "read")
  /\ run' = [run EXCEPT ![r] = Started(command)]
  /\ commands' = commands + 1
  /\ UNCHANGED <<recorded, built, faults>>

\* Any call fails, or the process dies: an error before the commit.
Fails(r) ==
  /\ pc[r] # "idle"
  /\ faults < MaxFaults /\ faults' = faults + 1
  /\ ReturnError(r)

-----------------------------------------------------------------------------
(* Up.                                                                      *)

\* The next file, or the return of nil when all are handled.
NextFile(r, todo) ==
  IF todo = {}
    THEN EndCommand(r)
    ELSE /\ Goto(r, "exec")
         /\ run' = [run EXCEPT ![r] = [Started("up") EXCEPT !.todo = todo, !.version = First(todo)]]

\* listFiles and appliedVersions.
LoadApplied(r) ==
  /\ pc[r] = "read" /\ run[r].command = "up"
  /\ NextFile(r, Version \ recorded)
  /\ UNCHANGED <<recorded, built, commands, faults>>

\* Mutant: a file another runner is at is left to it.
SkipLocked(r) ==
  LET v == run[r].version
  IN  /\ pc[r] = "exec" /\ run[r].command = "up"
      /\ IF ContentLocked(r, v) \/ Clashes(v)
           THEN NextFile(r, run[r].todo \ {v})
           ELSE Goto(r, "row") /\ run' = [run EXCEPT ![r].content = TRUE]
      /\ UNCHANGED <<recorded, built, commands, faults>>

\* applyFile: BEGIN and the content.
ExecUp(r) ==
  LET v == run[r].version
  IN  /\ pc[r] = "exec" /\ run[r].command = "up"
      /\ ~ContentLocked(r, v) /\ ~Clashes(v)
      /\ Goto(r, "row")
      /\ run' = [run EXCEPT ![r].content = TRUE]
      /\ UNCHANGED <<recorded, built, commands, faults>>

\* The content is there: another runner applied the version since it was listed.
ExecUpRefused(r) ==
  LET v == run[r].version
  IN  /\ pc[r] = "exec" /\ run[r].command = "up"
      /\ ~ContentLocked(r, v) /\ Clashes(v)
      /\ ReturnError(r)
      /\ UNCHANGED faults

\* Mutant: INSERT ... ON CONFLICT DO NOTHING.
InsertOrIgnore(r) ==
  LET v == run[r].version
  IN  /\ pc[r] = "row" /\ run[r].command = "up"
      /\ ~RowLocked(r, v)
      /\ Goto(r, "commit")
      /\ run' = [run EXCEPT ![r].row = v \notin recorded]
      /\ UNCHANGED <<recorded, built, commands, faults>>

InsertVersion(r) ==
  LET v == run[r].version
  IN  /\ pc[r] = "row" /\ run[r].command = "up"
      /\ ~RowLocked(r, v) /\ v \notin recorded
      /\ Goto(r, "commit")
      /\ run' = [run EXCEPT ![r].row = TRUE]
      /\ UNCHANGED <<recorded, built, commands, faults>>

\* PRIMARY KEY (version).
InsertRefused(r) ==
  LET v == run[r].version
  IN  /\ pc[r] = "row" /\ run[r].command = "up"
      /\ ~RowLocked(r, v) /\ v \in recorded
      /\ ReturnError(r)
      /\ UNCHANGED faults

-----------------------------------------------------------------------------
(* Down.                                                                    *)

\* Mutant: no version is taken for a version.
LoadAnyLatest(r) ==
  /\ pc[r] = "read" /\ run[r].command = "down"
  /\ Goto(r, "exec")
  /\ run' = [run EXCEPT ![r].version = IF recorded = {} THEN NoVersion ELSE Last(recorded)]
  /\ UNCHANGED <<recorded, built, commands, faults>>

\* latestVersion and the search for its down file: without either, Down ends.
LoadLatest(r) ==
  /\ pc[r] = "read" /\ run[r].command = "down"
  /\ IF recorded # {} /\ Last(recorded) \in Reversible
       THEN Goto(r, "exec") /\ run' = [run EXCEPT ![r].version = Last(recorded)]
       ELSE EndCommand(r)
  /\ UNCHANGED <<recorded, built, commands, faults>>

\* rollbackFile: what another transaction has created and not committed is not
\* seen, what another one is dropping is waited for.
ExecDown(r) ==
  LET v == run[r].version
  IN  /\ pc[r] = "exec" /\ run[r].command = "down"
      /\ built[v] > 0 => ~ContentLocked(r, v)
      /\ Goto(r, "row")
      /\ run' = [run EXCEPT ![r].content = built[v] > 0]
      /\ UNCHANGED <<recorded, built, commands, faults>>

DeleteVersion(r) ==
  LET v == run[r].version
  IN  /\ pc[r] = "row" /\ run[r].command = "down"
      /\ v \in recorded => ~RowLocked(r, v)
      /\ Goto(r, "commit")
      /\ run' = [run EXCEPT ![r].row = v \in recorded]
      /\ UNCHANGED <<recorded, built, commands, faults>>

-----------------------------------------------------------------------------
\* COMMIT makes both changes of the transaction visible at once.
Apply(r) ==
  LET v == run[r].version
      up == run[r].command = "up"
  IN  /\ built' = [built EXCEPT ![v] = IF ~run[r].content THEN @ ELSE IF up THEN @ + 1 ELSE 0]
      /\ recorded' = IF ~run[r].row THEN recorded
                     ELSE IF up THEN recorded \cup {v} ELSE recorded \ {v}

\* Up goes on with the next file, Down returns 1.
Commit(r) ==
  /\ pc[r] = "commit"
  /\ Apply(r)
  /\ IF run[r].command = "up" THEN NextFile(r, run[r].todo \ {run[r].version}) ELSE EndCommand(r)
  /\ UNCHANGED <<commands, faults>>

\* The answer to COMMIT is lost after it took effect: an error is returned.
CommitUnanswered(r) ==
  /\ pc[r] = "commit"
  /\ faults < MaxFaults /\ faults' = faults + 1
  /\ Apply(r)
  /\ EndCommand(r)
  /\ UNCHANGED commands

CommandStep(r) ==
  \/ LoadApplied(r) \/ ExecUp(r) \/ ExecUpRefused(r) \/ InsertVersion(r) \/ InsertRefused(r)
  \/ LoadLatest(r) \/ ExecDown(r) \/ DeleteVersion(r) \/ Commit(r)

Init ==
  /\ recorded = {} /\ built = [v \in Version |-> 0]
  /\ pc = [r \in Runner |-> "idle"] /\ run = [r \in Runner |-> Stopped]
  /\ commands = 0 /\ faults = 0

Next ==
  \E r \in Runner :
    \/ Start(r, "up") \/ Start(r, "down")
    \/ CommandStep(r) \/ Fails(r) \/ CommitUnanswered(r)

\* A started command runs on; nobody has to start one.
Fairness == \A r \in Runner : WF_vars(CommandStep(r))

Spec     == Init /\ [][Next]_vars
FairSpec == Spec /\ Fairness

-----------------------------------------------------------------------------
\* Every variable stays within its declared range.
TypeOK ==
  /\ recorded \subseteq Version /\ built \in [Version -> Nat]
  /\ pc \in [Runner -> Step]
  /\ run \in [Runner -> [command : {"none", "up", "down"}, todo : SUBSET Version,
                         version : Version \cup {NoVersion}, content : BOOLEAN, row : BOOLEAN]]
  /\ \A r \in Runner : pc[r] \in {"exec", "row", "commit"} => run[r].version \in Version
  /\ commands \in 0 .. MaxCommands /\ faults \in 0 .. MaxFaults

\* runner.go:3-13: the content of a recorded version is in the database once, and
\* of no other, whatever overlaps, fails, dies or loses the answer of its commit.
RecordMatchesSchema == \A v \in Version : built[v] = IF v \in recorded THEN 1 ELSE 0

\* runner.go:11-13: versions go in and out in order, so that no version is
\* applied without the ones before it.  (Part of ImplementsSchemaVersion.)
NoGaps == \A v \in recorded : \A u \in Version : u < v => u \in recorded

\* runner.go:47-49: an Up that returns nil leaves no version out, also when
\* others applied some of them, or failed to, after it read the list.
UpIsComplete ==
  [][\A r \in Runner :
       LoadApplied(r) \/ Commit(r) =>
         (run[r].command = "up" /\ pc'[r] = "idle" => recorded' = Version)]_vars

\* runner.go:3-13: the database goes from one version to the next or to the one
\* before, as a whole, and is in no other state between commands, nor after a
\* failure at any call or a death of any runner.
Schema == INSTANCE SchemaVersion WITH applied <- recorded, schema <- built
ImplementsSchemaVersion == Schema!Spec

\* Every command ends: no two transactions wait for each other, and none waits
\* for one whose process failed.
CommandsEnd == \A r \in Runner : pc[r] # "idle" ~> pc[r] = "idle"
=============================================================================
