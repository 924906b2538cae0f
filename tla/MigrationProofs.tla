-------------------------- MODULE MigrationProofs --------------------------
(***************************************************************************)
(* For any runners, files and faults, and no command beside a down: the     *)
(* recorded versions are the ones in the schema, without gaps, and an Up    *)
(* that returns nil has left none out.                                      *)
(***************************************************************************)
EXTENDS MigrationRunner, WellFoundedInduction, TLAPS

RunType == [command : {"none", "up", "down"}, todo : SUBSET Version,
            version : Version \cup {NoVersion}, content : BOOLEAN, row : BOOLEAN]

\* The steps at which a transaction may be open.
InFile == {"exec", "row", "commit"}

\* What an Up at `step` with locals l knows, when rec is recorded: it is at the
\* least version it has to do, and what it does not have to do is recorded.
UpOK(rec, step, l) ==
  l.command = "up" /\ step \in InFile =>
    /\ l.version \in l.todo
    /\ \A v \in Version : v \notin l.todo \/ v < l.version => v \in rec
    /\ step \in {"row", "commit"} <=> l.content
    /\ step = "commit" <=> l.row
    /\ l.row => l.version \notin rec

\* A Down is at the last recorded version and takes its content and its row.
DownOK(rec, step, l) ==
  l.command = "down" /\ step \in InFile =>
    /\ l.version \in rec /\ \A v \in rec : v <= l.version
    /\ step \in {"row", "commit"} <=> l.content
    /\ step = "commit" <=> l.row

\* A runner outside a file holds nothing.
Good(rec, step, l) ==
  /\ UpOK(rec, step, l) /\ DownOK(rec, step, l)
  /\ step \notin InFile => ~l.content /\ ~l.row
  /\ step \in InFile => l.version \in Version
  /\ step = "idle" <=> l.command = "none"

\* Two transactions do not both hold the row of a version.
RowsApart ==
  \A r, o \in Runner : run[r].row /\ run[o].row /\ run[r].version = run[o].version => r = o

\* A down has the database for itself.
DownIsAlone == \A r, o \in Runner : run[r].command = "down" /\ o # r => pc[o] = "idle"

IInv ==
  /\ TypeOK /\ RowsApart /\ DownIsAlone
  /\ \A r \in Runner : Good(recorded, pc[r], run[r])
  /\ RecordMatchesSchema /\ NoGaps

-----------------------------------------------------------------------------
(* Versions.                                                                *)

\* A set of natural numbers has a least one.
LEMMA LeastOfNat ==
  ASSUME NEW T \in SUBSET Nat, T # {}
  PROVE  \E x \in T : \A y \in T : x <= y
<1> DEFINE Less == {ss \in Nat \X Nat : ss[1] < ss[2]}
<1>1. IsWellFoundedOn(Less, Nat)
  BY NatLessThanWellFounded, Zenon DEF OpToRel
<1> HIDE DEF Less
<1>2. PICK x \in T : \A y \in T : ~(<<y, x>> \in Less)
  BY <1>1, WFMin, Zenon
<1>3. ASSUME NEW y \in T PROVE x <= y
  <2>1. y < x => <<y, x>> \in Less
    BY DEF Less
  <2>2. QED
    BY <1>2, <2>1
<1>4. QED
  BY <1>3

\* The files are handled in ascending order (sort.Strings in listFiles).
LEMMA FirstIsLeast ==
  ASSUME NEW S \in SUBSET Version, S # {}
  PROVE  First(S) \in S /\ \A u \in S : First(S) <= u
<1>1. S \in SUBSET Nat
  BY VersionAssumption DEF Version
<1>2. \E v \in S : \A u \in S : v <= u
  BY <1>1, LeastOfNat
<1>3. QED
  BY <1>2 DEF First

\* latestVersion takes the greatest of the recorded versions.
LEMMA LastIsGreatest ==
  ASSUME NEW S \in SUBSET Version, S # {}
  PROVE  Last(S) \in S /\ \A u \in S : u <= Last(S)
<1> DEFINE T == {LastVersion - v : v \in S}
<1>1. ASSUME NEW v \in S PROVE v \in Nat /\ LastVersion - v \in Nat
  BY VersionAssumption DEF Version
<1>2. T \in SUBSET Nat /\ T # {}
  BY <1>1
<1>3. PICK x \in T : \A y \in T : x <= y
  BY <1>2, LeastOfNat, Zenon
<1>4. PICK v \in S : x = LastVersion - v
  BY <1>3
<1>5. ASSUME NEW u \in S PROVE u <= v
  <2>1. LastVersion - u \in T
    OBVIOUS
  <2>2. LastVersion - v <= LastVersion - u
    BY <1>3, <1>4, <2>1
  <2>3. QED
    BY <1>1, <2>2, VersionAssumption
<1>6. QED
  BY <1>5 DEF Last

-----------------------------------------------------------------------------
(* What a step must keep.                                                   *)

\* The step of one runner keeps IInv when its own locals stay Good, so do those
\* of the others, and it takes no row another one holds.
LEMMA Kept ==
  ASSUME IInv, NEW r \in Runner, NEW step \in Step, NEW l \in RunType,
         Goto(r, step), run' = [run EXCEPT ![r] = l],
         recorded' \subseteq Version, built' \in [Version -> Nat],
         RecordMatchesSchema', NoGaps',
         Good(recorded', step, l),
         \A o \in Runner \ {r} : Good(recorded', pc[o], run[o]),
         \A o \in Runner \ {r} : l.row /\ run[o].row => l.version # run[o].version,
         \A o \in Runner \ {r} : l.command = "down" => pc[o] = "idle",
         \A o \in Runner \ {r} : run[o].command = "down" => step = "idle",
         commands' \in 0 .. MaxCommands, faults' \in 0 .. MaxFaults
  PROVE  IInv'
<1>1. pc \in [Runner -> Step] /\ run \in [Runner -> RunType]
  BY DEF IInv, TypeOK, RunType
<1>2. pc' \in [Runner -> Step] /\ \A o \in Runner : pc'[o] = IF o = r THEN step ELSE pc[o]
  BY <1>1 DEF Goto
<1>3. run' \in [Runner -> RunType] /\ \A o \in Runner : run'[o] = IF o = r THEN l ELSE run[o]
  BY <1>1
<1>4. \A o \in Runner : Good(recorded', pc'[o], run'[o])
  BY <1>2, <1>3
<1>5. TypeOK'
  BY <1>2, <1>3, <1>4 DEF TypeOK, RunType, Good, InFile
<1>6. RowsApart'
  BY <1>3 DEF IInv, RowsApart
<1>7. DownIsAlone'
  BY <1>2, <1>3 DEF IInv, DownIsAlone
<1>8. QED
  BY <1>4, <1>5, <1>6, <1>7 DEF IInv

\* The record and the database as they are: only this runner's part is new.
LEMMA KeptByRunner ==
  ASSUME IInv, NEW r \in Runner, NEW step \in Step, NEW l \in RunType,
         Goto(r, step), run' = [run EXCEPT ![r] = l],
         pc[r] # "idle", l.command \in {run[r].command, "none"},
         l.row => run[r].row \/ ~RowLocked(r, l.version),
         run[r].row /\ l.row => l.version = run[r].version,
         Good(recorded, step, l),
         UNCHANGED <<recorded, built, commands>>, faults' \in 0 .. MaxFaults
  PROVE  IInv'
<1>1. \A o \in Runner \ {r} : l.row /\ run[o].row => l.version # run[o].version
  BY DEF IInv, RowsApart, RowLocked
<1>2. \A o \in Runner \ {r} : l.command = "down" => pc[o] = "idle"
  BY DEF IInv, DownIsAlone
<1>3. \A o \in Runner \ {r} : run[o].command # "down"
  BY DEF IInv, DownIsAlone
<1>4. RecordMatchesSchema' /\ NoGaps'
  BY DEF IInv, RecordMatchesSchema, NoGaps
<1>5. /\ recorded' \subseteq Version /\ built' \in [Version -> Nat]
      /\ commands' \in 0 .. MaxCommands
      /\ Good(recorded', step, l) /\ \A o \in Runner \ {r} : Good(recorded', pc[o], run[o])
  BY DEF IInv, TypeOK
<1>6. QED
  BY <1>1, <1>2, <1>3, <1>4, <1>5, Kept

\* A command that ends without a commit leaves nothing behind.
LEMMA EndKept ==
  ASSUME IInv, NEW r \in Runner, pc[r] # "idle", EndCommand(r),
         UNCHANGED <<recorded, built, commands>>, faults' \in 0 .. MaxFaults
  PROVE  IInv'
<1>1. Stopped \in RunType /\ Good(recorded, "idle", Stopped)
  BY DEF Stopped, Started, RunType, NoVersion, Good, UpOK, DownOK, InFile
<1>2. Stopped.command = "none" /\ ~Stopped.row /\ "idle" \in Step
  BY DEF Stopped, Started, Step
<1>3. QED
  BY <1>1, <1>2, KeptByRunner DEF EndCommand

-----------------------------------------------------------------------------
(* One lemma per action.                                                    *)

\* A command starts beside no down, and a down beside no command.
LEMMA StartKeeps ==
  ASSUME DownAlone, IInv, NEW r \in Runner, NEW command \in {"up", "down"}, Start(r, command)
  PROVE  IInv'
<1> DEFINE l == Started(command)
<1>1. /\ l \in RunType /\ Good(recorded, "read", l) /\ "read" \in Step
      /\ l.command = command /\ ~l.row
  BY DEF Started, RunType, NoVersion, Good, UpOK, DownOK, InFile, Step
<1>2. \A o \in Runner \ {r} : l.command = "down" => pc[o] = "idle"
  BY <1>1 DEF Start, Alone
<1>3. \A o \in Runner \ {r} : run[o].command # "down"
  <2>1. CASE command = "up"
    BY <2>1 DEF Start
  <2>2. CASE command = "down"
    BY <2>2 DEF Start, Alone, IInv, Good
  <2>3. QED
    BY <2>1, <2>2
<1>4. RecordMatchesSchema' /\ NoGaps'
  BY DEF Start, IInv, RecordMatchesSchema, NoGaps
<1>5. /\ recorded' \subseteq Version /\ built' \in [Version -> Nat]
      /\ commands' \in 0 .. MaxCommands /\ faults' \in 0 .. MaxFaults
      /\ \A o \in Runner \ {r} : Good(recorded', pc[o], run[o])
      /\ Good(recorded', "read", l)
  BY <1>1, BoundAssumption DEF Start, IInv, TypeOK
<1>6. Goto(r, "read") /\ run' = [run EXCEPT ![r] = l]
  BY DEF Start
<1> HIDE DEF l
<1>7. QED
  BY <1>1, <1>2, <1>3, <1>4, <1>5, <1>6, Kept

\* The bound on faults is a natural number.
LEMMA FaultCounted ==
  ASSUME IInv, faults < MaxFaults, faults' = faults + 1
  PROVE  faults' \in 0 .. MaxFaults
BY BoundAssumption DEF IInv, TypeOK

\* A failing call or a dying process rolls the transaction back.
LEMMA FailsKeeps ==
  ASSUME IInv, NEW r \in Runner, Fails(r)
  PROVE  IInv'
BY FaultCounted, EndKept DEF Fails, ReturnError

\* So does a refused file.
LEMMA RefusedKeeps ==
  ASSUME IInv, NEW r \in Runner, ExecUpRefused(r) \/ InsertRefused(r)
  PROVE  IInv'
<1>1. pc[r] # "idle" /\ EndCommand(r) /\ UNCHANGED <<recorded, built, commands, faults>>
  BY DEF ExecUpRefused, InsertRefused, ReturnError
<1>2. faults' \in 0 .. MaxFaults
  BY <1>1 DEF IInv, TypeOK
<1>3. QED
  BY <1>1, <1>2, EndKept

\* The next file is the least of those left, with nothing of it done yet.
LEMMA NextFileIsGood ==
  ASSUME NEW todo \in SUBSET Version, todo # {}, NEW rec \in SUBSET Version,
         Version \ todo \subseteq rec,
         NEW first, first = First(todo),
         NEW l, l = [command |-> "up", todo |-> todo, version |-> first,
                     content |-> FALSE, row |-> FALSE]
  PROVE  l \in RunType /\ Good(rec, "exec", l) /\ ~l.row /\ l.command = "up"
<1>1. first \in Version /\ first \in todo /\ \A u \in todo : first <= u
  BY FirstIsLeast
<1>2. l \in RunType /\ l.command = "up" /\ l.todo = todo /\ l.version = first
      /\ l.content = FALSE /\ l.row = FALSE
  BY <1>1 DEF RunType
<1>3. \A v \in Version : v \notin todo \/ v < first => v \in rec
  <2> SUFFICES ASSUME NEW v \in Version, v \in todo, v < first PROVE FALSE
    OBVIOUS
  <2>1. first <= v
    BY <1>1
  <2>2. QED
    BY <1>1, <2>1, VersionAssumption DEF Version
<1>4. Good(rec, "exec", l)
  BY <1>1, <1>2, <1>3 DEF Good, UpOK, DownOK, InFile
<1>5. QED
  BY <1>2, <1>4

\* What is not recorded is what is left to do.
LEMMA LoadAppliedKeeps ==
  ASSUME IInv, NEW r \in Runner, LoadApplied(r)
  PROVE  IInv'
<1> DEFINE todo == Version \ recorded
<1>0. /\ pc[r] # "idle" /\ UNCHANGED <<recorded, built, commands>>
      /\ faults' \in 0 .. MaxFaults /\ NextFile(r, todo) /\ recorded \in SUBSET Version
      /\ run[r].command = "up" /\ ~run[r].row
  BY DEF LoadApplied, IInv, TypeOK, Good, InFile
<1>1. CASE todo = {}
  BY <1>0, <1>1, EndKept DEF NextFile
<1>2. CASE todo # {}
  <2> DEFINE l == [command |-> "up", todo |-> todo, version |-> First(todo),
                   content |-> FALSE, row |-> FALSE]
  <2>1. l \in RunType /\ Good(recorded, "exec", l) /\ ~l.row /\ l.command = "up"
    BY <1>0, <1>2, NextFileIsGood
  <2>2. Goto(r, "exec") /\ run' = [run EXCEPT ![r] = l] /\ "exec" \in Step
    BY <1>0, <1>2 DEF NextFile, Started, Step
  <2> HIDE DEF l
  <2>3. QED
    BY <1>0, <2>1, <2>2, KeptByRunner
<1>3. QED
  BY <1>1, <1>2

\* The content goes in, its row follows.
LEMMA ExecUpKeeps ==
  ASSUME IInv, NEW r \in Runner, ExecUp(r)
  PROVE  IInv'
<1> DEFINE l == [run[r] EXCEPT !.content = TRUE]
<1>1. /\ run[r] \in RunType /\ run \in [Runner -> RunType] /\ Good(recorded, "exec", run[r])
      /\ pc[r] = "exec"
  BY DEF IInv, TypeOK, RunType, ExecUp
<1>2. /\ run[r].command = "up" /\ Goto(r, "row") /\ run' = [run EXCEPT ![r] = l]
      /\ UNCHANGED <<recorded, built, commands>> /\ faults' \in 0 .. MaxFaults
  BY <1>1 DEF ExecUp, IInv, TypeOK
<1>3. l \in RunType /\ l.command = "up" /\ ~l.row /\ "row" \in Step
  BY <1>1, <1>2 DEF RunType, Good, UpOK, InFile, Step
<1>4. Good(recorded, "row", l)
  BY <1>1, <1>2 DEF RunType, Good, UpOK, DownOK, InFile
<1> HIDE DEF l
<1>5. QED
  BY <1>1, <1>2, <1>3, <1>4, KeptByRunner

\* The row is inserted when nobody else has or holds it.
LEMMA InsertVersionKeeps ==
  ASSUME IInv, NEW r \in Runner, InsertVersion(r)
  PROVE  IInv'
<1> DEFINE l == [run[r] EXCEPT !.row = TRUE]
<1>1. /\ run[r] \in RunType /\ run \in [Runner -> RunType] /\ Good(recorded, "row", run[r])
      /\ pc[r] = "row"
  BY DEF IInv, TypeOK, RunType, InsertVersion
<1>2. /\ run[r].command = "up" /\ Goto(r, "commit") /\ run' = [run EXCEPT ![r] = l]
      /\ ~RowLocked(r, run[r].version) /\ run[r].version \notin recorded
      /\ UNCHANGED <<recorded, built, commands>> /\ faults' \in 0 .. MaxFaults
  BY <1>1 DEF InsertVersion, IInv, TypeOK
<1>3. l \in RunType /\ l.command = "up" /\ l.version = run[r].version /\ "commit" \in Step
  BY <1>1, <1>2 DEF RunType, Step
<1>4. Good(recorded, "commit", l)
  BY <1>1, <1>2 DEF RunType, Good, UpOK, DownOK, InFile
<1> HIDE DEF l
<1>5. QED
  BY <1>1, <1>2, <1>3, <1>4, KeptByRunner

\* Down takes the greatest recorded version.
LEMMA LoadLatestKeeps ==
  ASSUME IInv, NEW r \in Runner, LoadLatest(r)
  PROVE  IInv'
<1>1. /\ run[r] \in RunType /\ run \in [Runner -> RunType] /\ Good(recorded, "read", run[r])
      /\ pc[r] = "read" /\ run[r].command = "down" /\ recorded \in SUBSET Version
      /\ UNCHANGED <<recorded, built, commands>> /\ faults' \in 0 .. MaxFaults
  BY DEF IInv, TypeOK, RunType, LoadLatest
<1>2. CASE recorded # {} /\ Last(recorded) \in Reversible
  <2> DEFINE last == Last(recorded)
             l    == [run[r] EXCEPT !.version = last]
  <2>1. last \in Version /\ last \in recorded /\ \A u \in recorded : u <= last
    BY <1>1, <1>2, LastIsGreatest
  <2>2. Goto(r, "exec") /\ run' = [run EXCEPT ![r] = l] /\ "exec" \in Step
    BY <1>1, <1>2 DEF LoadLatest, Step
  <2> HIDE DEF last
  <2>3. l \in RunType /\ l.command = "down" /\ ~l.row /\ ~l.content /\ l.version = last
    BY <1>1, <2>1 DEF RunType, Good, InFile
  <2>4. Good(recorded, "exec", l)
    BY <2>1, <2>3 DEF Good, UpOK, DownOK, InFile
  <2> HIDE DEF l
  <2>5. QED
    BY <1>1, <2>2, <2>3, <2>4, KeptByRunner
<1>3. CASE ~(recorded # {} /\ Last(recorded) \in Reversible)
  BY <1>1, <1>3, EndKept DEF LoadLatest
<1>4. QED
  BY <1>2, <1>3

\* What is recorded is built, so that the file has something to take back.
LEMMA ExecDownKeeps ==
  ASSUME IInv, NEW r \in Runner, ExecDown(r)
  PROVE  IInv'
<1> DEFINE l == [run[r] EXCEPT !.content = TRUE]
<1>1. /\ run[r] \in RunType /\ run \in [Runner -> RunType] /\ Good(recorded, "exec", run[r])
      /\ pc[r] = "exec" /\ run[r].command = "down"
      /\ UNCHANGED <<recorded, built, commands>> /\ faults' \in 0 .. MaxFaults
  BY DEF IInv, TypeOK, RunType, ExecDown
<1>2. run[r].version \in recorded /\ run[r].version \in Version
  BY <1>1 DEF Good, DownOK, InFile
<1>3. built[run[r].version] > 0
  BY <1>2 DEF IInv, RecordMatchesSchema
<1>4. Goto(r, "row") /\ run' = [run EXCEPT ![r] = l]
  BY <1>3 DEF ExecDown
<1>5. l \in RunType /\ l.command = "down" /\ ~l.row /\ "row" \in Step
  BY <1>1 DEF RunType, Good, DownOK, InFile, Step
<1>6. Good(recorded, "row", l)
  BY <1>1 DEF RunType, Good, UpOK, DownOK, InFile
<1> HIDE DEF l
<1>7. QED
  BY <1>1, <1>4, <1>5, <1>6, KeptByRunner

\* A down deletes a row that is there.
LEMMA DeleteVersionKeeps ==
  ASSUME IInv, NEW r \in Runner, DeleteVersion(r)
  PROVE  IInv'
<1> DEFINE l == [run[r] EXCEPT !.row = TRUE]
<1>1. /\ run[r] \in RunType /\ run \in [Runner -> RunType] /\ Good(recorded, "row", run[r])
      /\ pc[r] = "row" /\ run[r].command = "down" /\ Goto(r, "commit")
      /\ UNCHANGED <<recorded, built, commands>> /\ faults' \in 0 .. MaxFaults
  BY DEF IInv, TypeOK, RunType, DeleteVersion
<1>2. run[r].version \in recorded
  BY <1>1 DEF Good, DownOK, InFile
<1>3. run' = [run EXCEPT ![r] = l] /\ ~RowLocked(r, run[r].version)
  BY <1>2 DEF DeleteVersion
<1>4. l \in RunType /\ l.command = "down" /\ l.version = run[r].version /\ "commit" \in Step
  BY <1>1 DEF RunType, Step
<1>5. Good(recorded, "commit", l)
  BY <1>1 DEF RunType, Good, UpOK, DownOK, InFile
<1> HIDE DEF l
<1>6. QED
  BY <1>1, <1>3, <1>4, <1>5, KeptByRunner

-----------------------------------------------------------------------------
(* The commit.                                                              *)

\* What other runners know stays true when v is added: whoever inserted a row
\* inserted another one.
LEMMA OthersStayGood ==
  ASSUME NEW rec \in SUBSET Version, NEW v, NEW step, NEW l, Good(rec, step, l),
         l.command # "down", l.row => l.version # v
  PROVE  Good(rec \cup {v}, step, l)
BY DEF Good, UpOK, DownOK

\* An up adds its version, once, after all the lower ones.
LEMMA UpCommits ==
  ASSUME IInv, NEW r \in Runner, pc[r] = "commit", run[r].command = "up", Apply(r)
  PROVE  /\ recorded' = recorded \cup {run[r].version} /\ run[r].version \in Version
         /\ \A u \in Version : u \notin run[r].todo => u \in recorded
         /\ built' \in [Version -> Nat] /\ RecordMatchesSchema' /\ NoGaps'
         /\ \A o \in Runner \ {r} : Good(recorded', pc[o], run[o]) /\ run[o].command # "down"
<1> DEFINE v == run[r].version
<1>1. /\ run[r].content /\ run[r].row /\ v \in Version /\ v \notin recorded
      /\ \A u \in Version : u \notin run[r].todo \/ u < v => u \in recorded
  BY DEF IInv, Good, UpOK, InFile
<1>2. recorded' = recorded \cup {v} /\ built' = [built EXCEPT ![v] = @ + 1]
  BY <1>1 DEF Apply
<1>3. built \in [Version -> Nat] /\ recorded \in SUBSET Version /\ built[v] = 0
  BY <1>1 DEF IInv, TypeOK, RecordMatchesSchema
<1>4. \A o \in Runner \ {r} : run[o].command # "down" /\ (run[o].row => run[o].version # v)
  BY <1>1 DEF IInv, DownIsAlone, RowsApart
<1>5. \A o \in Runner \ {r} : Good(recorded', pc[o], run[o])
  BY <1>2, <1>3, <1>4, OthersStayGood DEF IInv
<1> HIDE DEF v
<1>6. built' \in [Version -> Nat]
  BY <1>1, <1>2, <1>3
<1>7. RecordMatchesSchema'
  BY <1>1, <1>2, <1>3 DEF IInv, RecordMatchesSchema
<1>8. NoGaps'
  BY <1>1, <1>2 DEF IInv, NoGaps
<1>9. QED
  BY <1>1, <1>2, <1>4, <1>5, <1>6, <1>7, <1>8 DEF v

\* A down removes the greatest version and what it built, beside no command.
LEMMA DownCommits ==
  ASSUME IInv, NEW r \in Runner, pc[r] = "commit", run[r].command = "down", Apply(r)
  PROVE  /\ recorded' \subseteq Version
         /\ built' \in [Version -> Nat] /\ RecordMatchesSchema' /\ NoGaps'
         /\ \A o \in Runner \ {r} : Good(recorded', pc[o], run[o]) /\ run[o].command = "none"
<1> DEFINE v == run[r].version
<1>1. /\ run[r].content /\ run[r].row /\ v \in Version /\ v \in recorded
      /\ \A u \in recorded : u <= v
  BY DEF IInv, Good, DownOK, InFile
<1>2. recorded' = recorded \ {v} /\ built' = [built EXCEPT ![v] = 0]
  BY <1>1 DEF Apply
<1>3. built \in [Version -> Nat] /\ recorded \in SUBSET Version
  BY DEF IInv, TypeOK
<1>4. \A o \in Runner \ {r} : pc[o] = "idle" /\ run[o].command = "none"
  BY DEF IInv, DownIsAlone, Good
<1>5. \A o \in Runner \ {r} : Good(recorded', pc[o], run[o])
  BY <1>4 DEF IInv, Good, UpOK, DownOK
<1> HIDE DEF v
<1>6. built' \in [Version -> Nat]
  BY <1>1, <1>2, <1>3
<1>7. RecordMatchesSchema'
  BY <1>1, <1>2, <1>3 DEF IInv, RecordMatchesSchema
<1>8. NoGaps'
  <2> SUFFICES ASSUME NEW w \in recorded', NEW u \in Version, u < w PROVE u \in recorded'
    BY DEF NoGaps
  <2>1. w \in recorded /\ u \in recorded /\ w <= v
    BY <1>1, <1>2 DEF IInv, NoGaps
  <2>2. w \in Nat /\ u \in Nat /\ v \in Nat
    BY <1>1, <1>3, <2>1, VersionAssumption DEF Version
  <2>3. QED
    BY <1>2, <2>1, <2>2
<1>9. QED
  BY <1>2, <1>3, <1>4, <1>5, <1>6, <1>7, <1>8

\* After the effect of the commit the command may end, answered or not.
LEMMA CommittedEnds ==
  ASSUME IInv, NEW r \in Runner, pc[r] = "commit", Apply(r), EndCommand(r),
         commands' = commands, faults' \in 0 .. MaxFaults
  PROVE  IInv'
<1>1. /\ Stopped \in RunType /\ "idle" \in Step /\ Stopped.command = "none" /\ ~Stopped.row
      /\ Good(recorded', "idle", Stopped)
  BY DEF Stopped, Started, RunType, NoVersion, Step, Good, UpOK, DownOK, InFile
<1>2. commands' \in 0 .. MaxCommands /\ recorded \in SUBSET Version
  BY DEF IInv, TypeOK
<1>3. run[r].command \in {"up", "down"}
  BY DEF IInv, TypeOK, Good
<1>4. /\ recorded' \subseteq Version
      /\ built' \in [Version -> Nat] /\ RecordMatchesSchema' /\ NoGaps'
      /\ \A o \in Runner \ {r} : Good(recorded', pc[o], run[o])
  <2>1. CASE run[r].command = "up"
    BY <1>2, <2>1, UpCommits
  <2>2. CASE run[r].command = "down"
    BY <2>2, DownCommits
  <2>3. QED
    BY <1>3, <2>1, <2>2
<1>5. Goto(r, "idle") /\ run' = [run EXCEPT ![r] = Stopped]
  BY DEF EndCommand
<1>6. QED
  BY <1>1, <1>2, <1>4, <1>5, Kept

\* Or an up goes on with the next file, whose lower ones are all recorded now.
LEMMA CommitKeeps ==
  ASSUME IInv, NEW r \in Runner, Commit(r)
  PROVE  IInv'
<1> DEFINE todo == run[r].todo \ {run[r].version}
<1>1. /\ pc[r] = "commit" /\ Apply(r) /\ commands' = commands
      /\ faults' \in 0 .. MaxFaults /\ commands' \in 0 .. MaxCommands
      /\ recorded \in SUBSET Version /\ run[r].todo \in SUBSET Version
  BY DEF Commit, IInv, TypeOK
<1>2. CASE run[r].command # "up" \/ todo = {}
  BY <1>1, <1>2, CommittedEnds DEF Commit, NextFile
<1>3. CASE run[r].command = "up" /\ todo # {}
  <2> DEFINE l == [command |-> "up", todo |-> todo, version |-> First(todo),
                   content |-> FALSE, row |-> FALSE]
  <2>1. /\ recorded' \in SUBSET Version
        /\ built' \in [Version -> Nat] /\ RecordMatchesSchema' /\ NoGaps'
        /\ \A o \in Runner \ {r} : Good(recorded', pc[o], run[o]) /\ run[o].command # "down"
        /\ Version \ todo \subseteq recorded'
    BY <1>1, <1>3, UpCommits
  <2>2. l \in RunType /\ Good(recorded', "exec", l) /\ ~l.row /\ l.command = "up"
    BY <1>1, <1>3, <2>1, NextFileIsGood
  <2>3. Goto(r, "exec") /\ run' = [run EXCEPT ![r] = l] /\ "exec" \in Step
    BY <1>3 DEF Commit, NextFile, Started, Step
  <2> HIDE DEF l
  <2>4. QED
    BY <1>1, <2>1, <2>2, <2>3, Kept
<1>4. QED
  BY <1>2, <1>3

-----------------------------------------------------------------------------
(* The invariant.                                                           *)

\* An empty database and no command.
LEMMA InitIInv == Init => IInv
<1> SUFFICES ASSUME Init PROVE IInv
  OBVIOUS
<1>1. \A r \in Runner : pc[r] = "idle" /\ run[r] = Stopped
  BY DEF Init
<1>2. Stopped \in RunType /\ Stopped.command = "none" /\ ~Stopped.row
      /\ Good(recorded, "idle", Stopped)
  BY DEF Stopped, Started, RunType, NoVersion, Good, UpOK, DownOK, InFile
<1>3. TypeOK
  BY <1>2, BoundAssumption DEF Init, TypeOK, RunType, Step
<1>4. RecordMatchesSchema /\ NoGaps
  BY DEF Init, RecordMatchesSchema, NoGaps
<1>5. QED
  BY <1>1, <1>2, <1>3, <1>4 DEF IInv, RowsApart, DownIsAlone

\* By the lemmas of the actions.
LEMMA NextKeeps == DownAlone /\ IInv /\ [Next]_vars => IInv'
<1> SUFFICES ASSUME DownAlone, IInv, [Next]_vars PROVE IInv'
  OBVIOUS
<1>1. CASE UNCHANGED vars
  BY <1>1 DEF vars, IInv, TypeOK, RowsApart, DownIsAlone, RecordMatchesSchema, NoGaps
<1>2. ASSUME NEW r \in Runner, Start(r, "up") \/ Start(r, "down") PROVE IInv'
  BY <1>2, StartKeeps
<1>3. ASSUME NEW r \in Runner, CommandStep(r) PROVE IInv'
  BY <1>3, LoadAppliedKeeps, ExecUpKeeps, RefusedKeeps, InsertVersionKeeps, LoadLatestKeeps,
     ExecDownKeeps, DeleteVersionKeeps, CommitKeeps DEF CommandStep
<1>4. ASSUME NEW r \in Runner, Fails(r) PROVE IInv'
  BY <1>4, FailsKeeps
<1>5. ASSUME NEW r \in Runner, CommitUnanswered(r) PROVE IInv'
  BY <1>5, FaultCounted, CommittedEnds DEF CommitUnanswered
<1>6. QED
  BY <1>1, <1>2, <1>3, <1>4, <1>5 DEF Next

\* IInv holds in every state, whatever overlaps, fails or dies, as long as
\* operators run no command beside a down.
THEOREM MigrationInvariant == DownAlone => (Spec => []IInv)
<1> SUFFICES ASSUME DownAlone PROVE Spec => []IInv
  OBVIOUS
<1>1. IInv /\ [Next]_vars => IInv'
  BY NextKeeps
<1>2. QED
  BY <1>1, InitIInv, PTL DEF Spec

\* runner.go:3-13: schema_migrations is what the schema holds.
THEOREM RecordIsTrue == DownAlone => (Spec => []RecordMatchesSchema)
<1>1. IInv => RecordMatchesSchema
  BY DEF IInv
<1>2. QED
  BY <1>1, MigrationInvariant, PTL

\* runner.go:11-13: no version is in without the ones before it.
THEOREM VersionsInOrder == DownAlone => (Spec => []NoGaps)
<1>1. IInv => NoGaps
  BY DEF IInv
<1>2. QED
  BY <1>1, MigrationInvariant, PTL

\* runner.go:47-49: an Up that returns nil has applied every file.
THEOREM UpReturnsComplete == DownAlone => (Spec => UpIsComplete)
<1> DEFINE A == \A r \in Runner : LoadApplied(r) \/ Commit(r) =>
                  (run[r].command = "up" /\ pc'[r] = "idle" => recorded' = Version)
<1>1. ASSUME IInv, NEW r \in Runner, LoadApplied(r), pc'[r] = "idle"
      PROVE  recorded' = Version
  <2>1. pc \in [Runner -> Step] /\ recorded \subseteq Version /\ recorded' = recorded
    BY <1>1 DEF IInv, TypeOK, LoadApplied
  <2>2. Version \ recorded = {}
    BY <1>1, <2>1 DEF LoadApplied, NextFile, Goto
  <2>3. QED
    BY <2>1, <2>2
<1>2. ASSUME IInv, NEW r \in Runner, Commit(r), run[r].command = "up", pc'[r] = "idle"
      PROVE  recorded' = Version
  <2>1. pc \in [Runner -> Step] /\ pc[r] = "commit" /\ Apply(r) /\ recorded \subseteq Version
    BY <1>2 DEF IInv, TypeOK, Commit
  <2>2. run[r].todo \ {run[r].version} = {}
    BY <1>2, <2>1 DEF Commit, NextFile, Goto
  <2>3. QED
    BY <1>2, <2>1, <2>2, UpCommits
<1>3. IInv /\ [Next]_vars => [A]_vars
  BY <1>1, <1>2
<1>4. QED
  BY <1>3, MigrationInvariant, PTL DEF UpIsComplete, Spec
-----------------------------------------------------------------------------
(* The database has a version.                                              *)

\* Where the versions up to n are recorded and what is recorded is built, the
\* database is at version n.
LEMMA AtVersion ==
  ASSUME NEW rec \in SUBSET Version, NEW bld \in [Version -> Nat], NEW n \in 0 .. LastVersion,
         \A u \in Version : u \in rec <=> u <= n,
         \A u \in Version : bld[u] = IF u \in rec THEN 1 ELSE 0
  PROVE  rec = 1 .. n /\ bld = [v \in 1 .. LastVersion |-> IF v <= n THEN 1 ELSE 0]
<1>1. n \in Nat /\ n <= LastVersion /\ LastVersion \in Nat
  BY VersionAssumption
<1>2. \A u \in 1 .. n : u \in rec
  BY <1>1 DEF Version
<1>3. \A u \in rec : u \in 1 .. n
  BY <1>1 DEF Version
<1>4. rec = 1 .. n
  BY <1>2, <1>3
<1>5. bld = [v \in 1 .. LastVersion |-> bld[v]]
  BY DEF Version
<1>6. \A v \in 1 .. LastVersion : bld[v] = IF v <= n THEN 1 ELSE 0
  BY DEF Version
<1>7. QED
  BY <1>4, <1>5, <1>6

\* A commit moves the database by the one version of its file.
LEMMA ApplyIsSchemaStep ==
  ASSUME IInv, NEW r \in Runner, pc[r] = "commit", Apply(r) PROVE Schema!Next
<1> DEFINE v == run[r].version
<1>1. /\ run[r].content /\ run[r].row /\ v \in Version /\ run[r].command \in {"up", "down"}
      /\ recorded \in SUBSET Version /\ NoGaps
  BY DEF IInv, TypeOK, Good, UpOK, DownOK, InFile
<1>2. /\ built \in [Version -> Nat] /\ recorded \in SUBSET Version
      /\ \A u \in Version : built[u] = IF u \in recorded THEN 1 ELSE 0
  BY DEF IInv, TypeOK, RecordMatchesSchema
<1>3. PICK n \in 0 .. LastVersion, m \in 0 .. LastVersion :
        /\ v = m /\ m = n + 1 /\ n \in Nat /\ m \in Nat
        /\ n \in 0 .. LastVersion - 1
  <2>1. /\ v - 1 \in 0 .. LastVersion /\ v \in 0 .. LastVersion /\ v = (v - 1) + 1
        /\ v \in Nat /\ v - 1 \in Nat /\ v - 1 \in 0 .. LastVersion - 1
    BY <1>1, VersionAssumption DEF Version
  <2>2. QED
    BY <2>1
<1>4. CASE run[r].command = "up"
  <2>1. v \notin recorded /\ \A u \in Version : u < v => u \in recorded
    BY <1>4 DEF IInv, Good, UpOK, InFile
  <2>2. recorded' = recorded \cup {v} /\ built' \in [Version -> Nat] /\ RecordMatchesSchema'
    BY <1>4, UpCommits
  <2> HIDE DEF v
  <2>3. \A u \in Version : u \in recorded <=> u <= n
    BY <1>1, <1>3, <2>1 DEF NoGaps, Version
  <2>4. \A u \in Version : u \in recorded' <=> u <= m
    BY <1>1, <1>3, <2>2, <2>3 DEF Version
  <2>5. recorded' \in SUBSET Version
    BY <1>1, <2>2
  <2>6. Schema!At(n)
    <3>1. \A u \in Version : built[u] = IF u \in recorded THEN 1 ELSE 0
      BY <1>2
    <3>2. recorded = 1 .. n /\ built = [u \in 1 .. LastVersion |-> IF u <= n THEN 1 ELSE 0]
      BY <1>2, <2>3, <3>1, AtVersion
    <3>3. QED
      BY <3>2 DEF Schema!At
  <2>7. Schema!At(m)'
    <3>1. \A u \in Version : built'[u] = IF u \in recorded' THEN 1 ELSE 0
      BY <2>2 DEF RecordMatchesSchema
    <3>2. recorded' = 1 .. m /\ built' = [u \in 1 .. LastVersion |-> IF u <= m THEN 1 ELSE 0]
      BY <2>2, <2>4, <2>5, <3>1, AtVersion
    <3>3. QED
      BY <3>2 DEF Schema!At
  <2>8. QED
    BY <1>3, <2>6, <2>7 DEF Schema!Next, Schema!Upgrade
<1>5. CASE run[r].command = "down"
  <2>1. v \in recorded /\ \A u \in recorded : u <= v
    BY <1>5 DEF IInv, Good, DownOK, InFile
  <2>2. recorded' = recorded \ {v}
    BY <1>1, <1>5 DEF Apply
  <2>3. built' \in [Version -> Nat] /\ RecordMatchesSchema'
    BY <1>5, DownCommits
  <2> HIDE DEF v
  <2>4. \A u \in Version : u \in recorded <=> u <= m
    BY <1>1, <1>3, <2>1 DEF NoGaps, Version
  <2>5. \A u \in Version : u \in recorded' <=> u <= n
    BY <1>1, <1>3, <2>2, <2>4 DEF Version
  <2>6. recorded' \in SUBSET Version
    BY <1>1, <2>2
  <2>7. Schema!At(m)
    <3>1. \A u \in Version : built[u] = IF u \in recorded THEN 1 ELSE 0
      BY <1>2
    <3>2. recorded = 1 .. m /\ built = [u \in 1 .. LastVersion |-> IF u <= m THEN 1 ELSE 0]
      BY <1>2, <2>4, <3>1, AtVersion
    <3>3. QED
      BY <3>2 DEF Schema!At
  <2>8. Schema!At(n)'
    <3>1. \A u \in Version : built'[u] = IF u \in recorded' THEN 1 ELSE 0
      BY <2>3 DEF RecordMatchesSchema
    <3>2. recorded' = 1 .. n /\ built' = [u \in 1 .. LastVersion |-> IF u <= n THEN 1 ELSE 0]
      BY <2>3, <2>5, <2>6, <3>1, AtVersion
    <3>3. QED
      BY <3>2 DEF Schema!At
  <2>9. QED
    BY <1>3, <2>7, <2>8 DEF Schema!Next, Schema!Rollback
<1>6. QED
  BY <1>1, <1>4, <1>5

\* runner.go:3-13: any number of runners that fail, die and lose answers take the
\* database from one version to the next or back, as long as none runs beside a down.
THEOREM RunnersImplementSchemaVersion == DownAlone => (Spec => ImplementsSchemaVersion)
<1> SUFFICES ASSUME DownAlone PROVE Spec => ImplementsSchemaVersion
  OBVIOUS
<1>1. Init => Schema!Init
  <2>1. 0 \in 0 .. LastVersion /\ 1 .. 0 = {}
    BY VersionAssumption
  <2>2. Init => built = [v \in 1 .. LastVersion |-> IF v <= 0 THEN 1 ELSE 0]
    BY VersionAssumption DEF Init, Version
  <2>3. QED
    BY <2>1, <2>2 DEF Init, Schema!Init, Schema!At
<1>2. IInv /\ [Next]_vars => [Schema!Next]_<<recorded, built>>
  <2> SUFFICES ASSUME IInv, [Next]_vars PROVE Schema!Next \/ UNCHANGED <<recorded, built>>
    OBVIOUS
  <2>1. ASSUME NEW r \in Runner, Commit(r) \/ CommitUnanswered(r) PROVE Schema!Next
    BY <2>1, ApplyIsSchemaStep DEF Commit, CommitUnanswered
  <2>2. ASSUME NEW r \in Runner, CommandStep(r), ~Commit(r) PROVE UNCHANGED <<recorded, built>>
    BY <2>2 DEF CommandStep, LoadApplied, ExecUp, ExecUpRefused, InsertVersion, InsertRefused,
                LoadLatest, ExecDown, DeleteVersion, ReturnError
  <2>3. ASSUME NEW r \in Runner, Start(r, "up") \/ Start(r, "down") \/ Fails(r)
        PROVE  UNCHANGED <<recorded, built>>
    BY <2>3 DEF Start, Fails, ReturnError
  <2>4. QED
    BY <2>1, <2>2, <2>3 DEF Next, vars
<1>3. QED
  BY <1>1, <1>2, MigrationInvariant, PTL DEF Spec, ImplementsSchemaVersion, Schema!Spec

\* Migration runners keep every variable within its declared range.
THEOREM TypeCorrect == DownAlone => (Spec => []TypeOK)
<1>1. IInv => TypeOK
  BY DEF IInv
<1>2. QED
  BY <1>1, MigrationInvariant, PTL
=============================================================================
