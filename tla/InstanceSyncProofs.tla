------------------------- MODULE InstanceSyncProofs -------------------------
(***************************************************************************)
(* For any managers, any finite set of instances, any names, either kind of *)
(* store and any number of faults and changes of LXD: the instance sync      *)
(* keeps its types and every limit, and when it returns nil to a manager     *)
(* that runs alone, the table shows what it fetched.                         *)
(***************************************************************************)
EXTENDS InstanceSync, TLAPS

\* A row that was never written is empty, and stays so until it is created.
Blank(table) == \A i \in Inst : table[i].status = "absent" => table[i] = NoInst

\* Beside the types: no row is half empty; and while a manager goes through its
\* copies, each copy bears the limits of a row that is still there, whatever the
\* other managers wrote in between.
CopiesCurrent(m) ==
  pc[m] = "track" =>
    /\ Blank(isync[m].existing)
    /\ isync[m].gone \subseteq Known(isync[m].existing)
    /\ \A i \in Known(isync[m].existing) :
         /\ instances[i].status # "absent"
         /\ instances[i].limited = isync[m].existing[i].limited

\* No other manager runs.
Alone(m) == \A k \in Manager \ {m} : pc[k] = "off"

\* Every row but those of rest shows what the manager fetched.
Shown(m, rest) ==
  \A i \in Inst \ rest : Shows(instances[i], isync[m].fetched[i], isync[m].located)

\* What a manager that runs alone has brought about: every row is shown but those it
\* has not reached and those it could not mark.
ViewSoFar(m) ==
  /\ pc[m] = "track" =>
       /\ isync[m].todo \subseteq Hosted(isync[m].fetched)
       /\ isync[m].gone \cap Hosted(isync[m].fetched) = {}
       /\ Shown(m, isync[m].todo \cup isync[m].gone \cup isync[m].unmarked)
  /\ pc[m] = "recorded" /\ isync[m] # NothingListed => Shown(m, isync[m].unmarked)

-----------------------------------------------------------------------------
(* Types.                                                                   *)

\* What the locals of InstanceSyncer.Sync may be.
LocalType ==
  [fetched : [Inst -> HostedRow], located : SUBSET Name, existing : [Inst -> InstRow],
   todo : SUBSET Inst, gone : SUBSET Inst, unmarked : SUBSET Inst]

\* The locals of a manager that syncs nothing are well typed.
LEMMA NothingTyped == NothingListed \in LocalType
BY DEF NothingListed, LocalType, NotHosted, HostedRow, NoInst, InstRow, NoName

\* mapLXDInstanceStatus returns a status, and never none.
LEMMA StatusMapped == \A s : MapLXDInstanceStatus(s) \in InstStatus
BY DEF MapLXDInstanceStatus, InstStatus

\* The rows the sync writes are rows; they keep the limits of the copy.
LEMMA RowsTyped ==
  ASSUME LocalsOK, NEW m \in Manager, NEW i \in Inst
  PROVE  /\ Recorded(m, i) \in InstRow /\ Recorded(m, i).status # "absent"
         /\ Recorded(m, i).status = MapLXDInstanceStatus(isync[m].fetched[i].status)
         /\ Recorded(m, i).node = NodeOf(m, i)
         /\ Recorded(m, i).limited = isync[m].existing[i].limited
         /\ Unknown(m, i) \in InstRow /\ Unknown(m, i).status = "unknown"
         /\ Unknown(m, i).node = NoName
         /\ Unknown(m, i).limited = isync[m].existing[i].limited
<1>1. isync[m].existing[i] \in InstRow /\ isync[m].fetched[i] \in HostedRow
  BY DEF LocalsOK
<1>2. NodeOf(m, i) \in Name \cup {NoName}
  BY <1>1 DEF NodeOf, HostedRow, LocalsOK
<1>3. MapLXDInstanceStatus(isync[m].fetched[i].status) \in InstStatus
  BY StatusMapped
<1>4. "absent" \notin InstStatus
  BY DEF InstStatus
<1> QED BY <1>1, <1>2, <1>3, <1>4 DEF Recorded, Unknown, InstRow, InstStatus

\* What a step of Sync may write: the new record of an instance it fetched, or
\* the mark of one that is gone.
Writes(m, i) ==
  /\ pc[m] = "track"
  /\ \/ i \in isync[m].todo /\ CanRecord(m, i) /\ WriteInst(i, Recorded(m, i))
     \/ i \in isync[m].gone /\ WriteInst(i, Unknown(m, i))

\* It writes one row at most.
LEMMA OneWrite ==
  ASSUME NEW m \in Manager, SyncStep(m)
  PROVE  UNCHANGED instances \/ \E i \in Inst : Writes(m, i)
<1>1. CASE FetchInstances(m) \/ ListLocations(m) \/ ListTracked(m) \/ ListingFails(m) \/ InstancesSynced(m)
  BY <1>1 DEF FetchInstances, ListLocations, ListTracked, ListingFails, InstancesSynced
<1>2. ASSUME NEW i \in Inst, RecordInstance(m, i) \/ RecordFails(m, i)
      PROVE  UNCHANGED instances \/ Writes(m, i)
  BY <1>2 DEF RecordInstance, RecordFails, LostInst, Writes
<1>3. ASSUME NEW i \in Inst, MarkUnknown(m, i) \/ MarkUnknownFails(m, i)
      PROVE  UNCHANGED instances \/ Writes(m, i)
  BY <1>3 DEF MarkUnknown, MarkUnknownFails, LostInst, Writes
<1>4. QED
  BY <1>1, <1>2, <1>3 DEF SyncStep

\* Every step of Sync keeps the types of its locals and of the table.
LEMMA LocalsStep ==
  ASSUME LocalsOK, NEW m \in Manager, SyncStep(m)
  PROVE  LocalsOK'
<1>1. instances' \in [Inst -> InstRow]
  <2>1. instances \in [Inst -> InstRow]
    BY DEF LocalsOK, InstancesOK
  <2>2. ASSUME NEW i \in Inst, Writes(m, i) PROVE instances' \in [Inst -> InstRow]
    <3>1. Recorded(m, i) \in InstRow /\ Unknown(m, i) \in InstRow
      BY RowsTyped
    <3> QED BY <2>1, <2>2, <3>1 DEF Writes, WriteInst
  <2> QED BY <2>1, <2>2, OneWrite
<1>2. hosted' \in [Inst -> HostedRow]
  BY DEF SyncStep, FetchInstances, ListLocations, ListTracked, ListingFails, InstancesSynced,
         RecordInstance, RecordFails, MarkUnknown, MarkUnknownFails, LocalsOK
<1>3. isync' \in [Manager -> LocalType]
  <2>0. isync \in [Manager -> LocalType]
    BY DEF LocalsOK, LocalType
  <2>1. CASE FetchInstances(m)
    BY <2>0, <2>1 DEF FetchInstances, LocalsOK, LocalType
  <2>2. CASE ListLocations(m)
    BY <2>0, <2>2 DEF ListLocations, Rows, LocalType
  <2>3. CASE ListTracked(m)
    <3> DEFINE listed == [isync[m] EXCEPT !.existing = instances, !.todo = Hosted(isync[m].fetched),
                                          !.gone = Known(instances) \ Hosted(isync[m].fetched)]
    <3>1. Hosted(isync[m].fetched) \subseteq Inst /\ Known(instances) \subseteq Inst
      BY DEF Hosted, Known
    <3>2. isync' = [isync EXCEPT ![m] = listed]
      BY <2>3 DEF ListTracked
    <3>3. listed \in LocalType
      BY <2>0, <3>1 DEF LocalType, LocalsOK, InstancesOK
    <3> HIDE DEF listed
    <3> QED BY <2>0, <3>2, <3>3
  <2>4. CASE ListingFails(m) \/ \E i \in Inst : RecordFails(m, i)
    BY <2>0, <2>4, NothingTyped DEF ListingFails, RecordFails
  <2>5. CASE InstancesSynced(m)
    BY <2>0, <2>5 DEF InstancesSynced
  <2>6. CASE \E i \in Inst : RecordInstance(m, i)
    <3>1. PICK i \in Inst : isync' = [isync EXCEPT ![m].todo = @ \ {i}]
      BY <2>6 DEF RecordInstance
    <3> QED BY <2>0, <3>1 DEF LocalType
  <2>7. CASE \E i \in Inst : MarkUnknown(m, i)
    <3>1. PICK i \in Inst : isync' = [isync EXCEPT ![m].gone = @ \ {i}]
      BY <2>7 DEF MarkUnknown
    <3> QED BY <2>0, <3>1 DEF LocalType
  <2>8. CASE \E i \in Inst : MarkUnknownFails(m, i)
    <3>1. PICK i \in Inst : isync' = [isync EXCEPT ![m].gone = @ \ {i}, ![m].unmarked = @ \cup {i}]
      BY <2>8 DEF MarkUnknownFails
    <3> QED BY <2>0, <3>1 DEF LocalType
  <2> QED BY <2>1, <2>2, <2>3, <2>4, <2>5, <2>6, <2>7, <2>8 DEF SyncStep
<1> QED BY <1>1, <1>2, <1>3 DEF LocalsOK, InstancesOK, LocalType

\* What a step of Sync does to the rest: it moves its own manager on, and may
\* count a fault.
LEMMA StepFrame ==
  ASSUME NEW m \in Manager, SyncStep(m)
  PROVE  /\ UNCHANGED <<nodes, members, changes>>
         /\ faults' = faults \/ Failing(1)
         /\ pc[m] \in {"hosted", "locate", "tracked", "track"}
         /\ \/ pc' = pc
            \/ \E s \in {"locate", "tracked", "track", "recorded"} : pc' = [pc EXCEPT ![m] = s]
<1>1. CASE FetchInstances(m)
  BY <1>1 DEF FetchInstances
<1>2. CASE ListLocations(m)
  BY <1>2 DEF ListLocations
<1>3. CASE ListTracked(m)
  BY <1>3 DEF ListTracked
<1>4. CASE ListingFails(m)
  BY <1>4 DEF ListingFails
<1>5. CASE InstancesSynced(m)
  BY <1>5 DEF InstancesSynced
<1>6. ASSUME NEW i \in Inst,
             RecordInstance(m, i) \/ RecordFails(m, i) \/ MarkUnknown(m, i) \/ MarkUnknownFails(m, i)
      PROVE  /\ UNCHANGED <<nodes, members, changes>>
             /\ faults' = faults \/ Failing(1)
             /\ pc[m] = "track"
             /\ pc' = pc \/ pc' = [pc EXCEPT ![m] = "recorded"]
  BY <1>6 DEF RecordInstance, RecordFails, MarkUnknown, MarkUnknownFails
<1>7. QED
  BY <1>1, <1>2, <1>3, <1>4, <1>5, <1>6 DEF SyncStep

\* The initial states are well typed.
LEMMA InitTypeOK == Init => TypeOK
<1> SUFFICES ASSUME Init PROVE TypeOK
  OBVIOUS
<1>1. nodes \in [Name -> Row]
  <2>1. {NoRow, MemberRow} \subseteq Row
    BY DEF NoRow, MemberRow, Row, NodeStatus
  <2> QED BY <2>1 DEF Init
<1>2. members \in [Name -> MemberStatus \cup {"absent"}] /\ pc \in [Manager -> Step]
  BY DEF Init, MemberStatus, Step
<1>3. faults \in 0 .. MaxFaults /\ changes \in 0 .. MaxChanges
  BY BoundAssumption DEF Init
<1>4. instances \in [Inst -> InstRow]
  <2>1. {NoInst, WaitingRow} \subseteq InstRow
    BY DEF NoInst, WaitingRow, InstRow, InstStatus
  <2> QED BY <2>1 DEF Init
<1>5. hosted \in [Inst -> HostedRow]
  BY DEF Init, NotHosted, HostedRow, LXDStatus
<1>6. isync \in [Manager -> LocalType]
  BY NothingTyped DEF Init
<1> QED BY <1>1, <1>2, <1>3, <1>4, <1>5, <1>6 DEF TypeOK, SharedTypeOK, LocalsOK, InstancesOK, LocalType

\* Every step keeps the types.
LEMMA TypeStep == TypeOK /\ [Next]_vars => TypeOK'
<1> SUFFICES ASSUME TypeOK, [Next]_vars PROVE TypeOK'
  OBVIOUS
<1> USE BoundAssumption DEF TypeOK, SharedTypeOK, Step, Failing
<1>1. ASSUME NEW m \in Manager, Tick(m) PROVE TypeOK'
  BY <1>1 DEF Tick, LocalsOK, InstancesOK
<1>2. ASSUME NEW m \in Manager, SyncStep(m) PROVE TypeOK'
  BY <1>2, LocalsStep, StepFrame
<1>3. ASSUME NEW m \in Manager, RestOfPass(m) PROVE TypeOK'
  BY <1>3, NothingTyped DEF RestOfPass, LocalsOK, InstancesOK, LocalType
<1>4. ASSUME NEW m \in Manager, Crash(m) PROVE TypeOK'
  BY <1>4, NothingTyped DEF Crash, LocalsOK, InstancesOK, LocalType
<1>5. ASSUME NEW i \in Inst, HostedChange(i, Name), UNCHANGED isync PROVE TypeOK'
  <2>1. \A row \in {NotHosted} \cup [status : LXDStatus, location : Name] : row \in HostedRow
    BY DEF NotHosted, HostedRow
  <2> QED BY <1>5, <2>1 DEF HostedChange, LocalsOK, InstancesOK
<1>6. ASSUME NEW n \in Name, NodeAppears(n) PROVE TypeOK'
  <2>1. MemberRow \in Row
    BY DEF MemberRow, Row, NodeStatus
  <2> QED BY <1>6, <2>1 DEF NodeAppears, WriteNode, LocalsOK, InstancesOK
<1>7. CASE UNCHANGED vars
  BY <1>7 DEF vars, shared, LocalsOK, InstancesOK
<1>8. QED
  BY <1>1, <1>2, <1>3, <1>4, <1>5, <1>6, <1>7 DEF Next

\* instance_sync.go: every variable stays within its declared range.
THEOREM TypeCorrect == Spec => []TypeOK
  BY InitTypeOK, TypeStep, PTL DEF Spec

-----------------------------------------------------------------------------
(* Limits.                                                                  *)

\* The inductive invariant behind the limits.
LimitsInv == TypeOK /\ Blank(instances) /\ \A m \in Manager : CopiesCurrent(m)

\* No row goes away or changes its limits.
RowsKept ==
  \A i \in Inst : instances[i].status # "absent" =>
    instances'[i].status # "absent" /\ instances'[i].limited = instances[i].limited

\* Sync overwrites a row only with the limits the row has, and creates rows only
\* where there is none.
LEMMA SyncKeepsRows ==
  ASSUME LocalsOK, Blank(instances), NEW m \in Manager, CopiesCurrent(m), SyncStep(m)
  PROVE  RowsKept /\ Blank(instances)'
<1>1. CASE UNCHANGED instances
  BY <1>1 DEF RowsKept, Blank
<1>2. ASSUME NEW i \in Inst, Writes(m, i)
      PROVE  RowsKept /\ Blank(instances)'
  <2>1. PICK row \in {Recorded(m, i), Unknown(m, i)} : WriteInst(i, row)
    BY <1>2 DEF Writes
  <2>2. row.status # "absent" /\ row.limited = isync[m].existing[i].limited
    BY <2>1, RowsTyped
  <2>3. instances' = [instances EXCEPT ![i] = row] /\ instances \in [Inst -> InstRow]
    BY <2>1 DEF WriteInst, LocalsOK, InstancesOK
  <2>4. instances[i].status # "absent" => instances[i].limited = isync[m].existing[i].limited
    <3>1. pc[m] = "track"
      BY <1>2 DEF Writes
    <3>2. isync[m].existing[i].status = "absent" => i \in isync[m].todo /\ CanRecord(m, i)
      BY <1>2, <3>1 DEF Writes, CopiesCurrent, Known
    <3>3. isync[m].existing[i].status = "absent" => instances[i].status = "absent"
      BY <3>2 DEF CanRecord, CanInsert
    <3> QED BY <3>1, <3>3 DEF CopiesCurrent, Known
  <2>5. RowsKept
    BY <2>2, <2>3, <2>4 DEF RowsKept
  <2>6. Blank(instances)'
    BY <2>2, <2>3 DEF Blank
  <2> QED BY <2>5, <2>6
<1>3. QED
  BY <1>1, <1>2, OneWrite

\* The copies of a manager are those it had, or a new listing.
LEMMA CopiesStep ==
  ASSUME LocalsOK, NEW S, pc \in [Manager -> S], NEW m \in Manager, SyncStep(m)
  PROVE  /\ \A k \in Manager \ {m} : isync'[k] = isync[k] /\ pc'[k] = pc[k]
         /\ pc'[m] = "track" =>
              \/ /\ pc[m] = "track" /\ isync'[m].existing = isync[m].existing
                 /\ isync'[m].gone \subseteq isync[m].gone
              \/ /\ isync'[m].existing = instances /\ UNCHANGED instances
                 /\ isync'[m].gone \subseteq Known(instances)
<1> USE DEF LocalsOK
<1>1. CASE FetchInstances(m) \/ ListLocations(m) \/ ListingFails(m) \/ InstancesSynced(m)
  BY <1>1 DEF FetchInstances, ListLocations, ListingFails, InstancesSynced
<1>2. CASE ListTracked(m)
  BY <1>2 DEF ListTracked
<1>3. ASSUME NEW i \in Inst, RecordFails(m, i)
      PROVE  (\A k \in Manager \ {m} : isync'[k] = isync[k] /\ pc'[k] = pc[k]) /\ pc'[m] # "track"
  BY <1>3 DEF RecordFails
<1>4. ASSUME NEW i \in Inst, RecordInstance(m, i) \/ MarkUnknown(m, i) \/ MarkUnknownFails(m, i)
      PROVE  /\ \A k \in Manager \ {m} : isync'[k] = isync[k] /\ pc'[k] = pc[k]
             /\ pc[m] = "track" /\ isync'[m].existing = isync[m].existing
             /\ isync'[m].gone \subseteq isync[m].gone
  BY <1>4 DEF RecordInstance, MarkUnknown, MarkUnknownFails
<1>5. QED
  BY <1>1, <1>2, <1>3, <1>4 DEF SyncStep

\* While the rows are kept, the copies of a manager stay current through its own steps
\* and those of the others.
LEMMA CopiesStay ==
  ASSUME LocalsOK, NEW S, pc \in [Manager -> S], NEW m \in Manager, SyncStep(m),
         RowsKept, Blank(instances), Blank(instances)', NEW k \in Manager, CopiesCurrent(k)
  PROVE  CopiesCurrent(k)'
<1> SUFFICES ASSUME pc'[k] = "track" PROVE CopiesCurrent(k)'
  BY DEF CopiesCurrent
<1>1. CASE pc[k] = "track" /\ isync'[k].existing = isync[k].existing
           /\ isync'[k].gone \subseteq isync[k].gone
  BY <1>1 DEF CopiesCurrent, RowsKept, Known
<1>2. CASE isync'[k].existing = instances /\ UNCHANGED instances
           /\ isync'[k].gone \subseteq Known(instances)
  BY <1>2 DEF CopiesCurrent, Known
<1> QED BY <1>1, <1>2, CopiesStep

\* And so they do through a step that takes no listing.
LEMMA CopiesFrame ==
  ASSUME RowsKept, NEW k \in Manager, CopiesCurrent(k),
         pc'[k] = "track" => pc[k] = "track" /\ isync'[k] = isync[k]
  PROVE  CopiesCurrent(k)'
BY DEF CopiesCurrent, RowsKept, Known

\* The invariant holds initially.
LEMMA LimitsInit == Init => LimitsInv
<1> SUFFICES ASSUME Init PROVE LimitsInv
  OBVIOUS
<1>1. Blank(instances)
  BY DEF Init, Blank, WaitingRow
<1>2. \A m \in Manager : CopiesCurrent(m)
  BY DEF Init, CopiesCurrent
<1> QED BY <1>1, <1>2, InitTypeOK DEF LimitsInv

\* Every step keeps it, and with it every row and its limits.
LEMMA LimitsStep == LimitsInv /\ [Next]_vars => LimitsInv' /\ RowsKept
<1> SUFFICES ASSUME LimitsInv, [Next]_vars PROVE LimitsInv' /\ RowsKept
  OBVIOUS
<1>0. TypeOK'
  BY TypeStep DEF LimitsInv
<1>1. /\ pc \in [Manager -> Step] /\ LocalsOK
  BY DEF LimitsInv, TypeOK, SharedTypeOK
<1>2. ASSUME NEW m \in Manager, SyncStep(m) PROVE LimitsInv' /\ RowsKept
  <2>1. RowsKept /\ Blank(instances)'
    BY <1>1, <1>2, SyncKeepsRows DEF LimitsInv
  <2>2. \A k \in Manager : CopiesCurrent(k)'
    BY <1>1, <1>2, <2>1, CopiesStay DEF LimitsInv
  <2> QED BY <1>0, <2>1, <2>2 DEF LimitsInv
<1>3. ASSUME UNCHANGED instances,
             \A m \in Manager : pc'[m] = "track" => pc[m] = "track" /\ isync'[m] = isync[m]
      PROVE  LimitsInv' /\ RowsKept
  <2>1. RowsKept /\ Blank(instances)'
    BY <1>3 DEF RowsKept, LimitsInv, Blank
  <2>2. \A m \in Manager : CopiesCurrent(m)'
    BY <1>3, <2>1, CopiesFrame DEF LimitsInv
  <2> QED BY <1>0, <2>1, <2>2 DEF LimitsInv
<1>4. ASSUME NEW m \in Manager, Tick(m) \/ RestOfPass(m) \/ Crash(m) PROVE LimitsInv' /\ RowsKept
  <2>1. /\ UNCHANGED instances
        /\ \A k \in Manager : pc'[k] = "track" => pc[k] = "track" /\ isync'[k] = isync[k]
    BY <1>1, <1>4 DEF Tick, RestOfPass, Crash, LocalsOK
  <2> QED BY <2>1, <1>3
<1>5. CASE UNCHANGED <<pc, instances, isync>>
  BY <1>3, <1>5
<1>6. QED
  <2>1. ASSUME NEW i \in Inst, HostedChange(i, Name), UNCHANGED isync
        PROVE  UNCHANGED <<pc, instances, isync>>
    BY <2>1 DEF HostedChange
  <2>2. ASSUME NEW n \in Name, NodeAppears(n)
        PROVE  UNCHANGED <<pc, instances, isync>>
    BY <2>2 DEF NodeAppears
  <2>3. UNCHANGED vars => UNCHANGED <<pc, instances, isync>>
    BY DEF vars, shared
  <2> QED BY <1>2, <1>4, <1>5, <2>1, <2>2, <2>3 DEF Next

\* What the copies know is an invariant of the specification.
THEOREM LimitsInvariant == Spec => []LimitsInv
  BY LimitsInit, LimitsStep, PTL DEF Spec

\* instance_sync.go:141-144: no sync, however stale its copies and whatever the
\* other managers write, loses the limits the scheduler counts with.
THEOREM LimitsAreKept == Spec => LimitsKept
<1>1. LimitsInv /\ [Next]_vars => [\A i \in Inst : instances[i].limited => instances'[i].limited]_vars
  <2> SUFFICES ASSUME LimitsInv, [Next]_vars, NEW i \in Inst, instances[i].limited
               PROVE  instances'[i].limited
    OBVIOUS
  <2>1. instances[i].status # "absent"
    BY DEF LimitsInv, Blank, NoInst
  <2> QED BY <2>1, LimitsStep DEF RowsKept
<1> QED BY <1>1, LimitsInvariant, PTL DEF Spec, LimitsKept

-----------------------------------------------------------------------------
(* The view.                                                                *)

\* The inductive invariant behind the view.
ViewInv == LimitsInv /\ \A m \in Manager : Alone(m) => ViewSoFar(m)

\* A row that is written shows what was fetched.
LEMMA WrittenShows ==
  ASSUME LocalsOK, NEW m \in Manager, NEW i \in Inst
  PROVE  /\ i \in Hosted(isync[m].fetched) =>
              Shows(Recorded(m, i), isync[m].fetched[i], isync[m].located)
         /\ i \notin Hosted(isync[m].fetched) =>
              Shows(Unknown(m, i), isync[m].fetched[i], isync[m].located)
BY RowsTyped DEF Hosted, Shows, NodeOf

\* Every step of the Sync of a manager brings its table closer to what it fetched.
LEMMA ViewStep ==
  ASSUME LimitsInv, NEW m \in Manager, ViewSoFar(m), SyncStep(m)
  PROVE  ViewSoFar(m)'
<1>0. LocalsOK /\ pc \in [Manager -> Step] /\ Blank(instances)
  BY DEF LimitsInv, TypeOK, SharedTypeOK
<1>1. CASE FetchInstances(m) \/ ListLocations(m)
  <2>1. pc'[m] \in {"locate", "tracked"}
    BY <1>0, <1>1 DEF FetchInstances, ListLocations
  <2> QED BY <2>1 DEF ViewSoFar
<1>2. CASE ListTracked(m)
  <2>1. /\ pc'[m] = "track" /\ UNCHANGED instances
        /\ isync'[m].fetched = isync[m].fetched /\ isync'[m].located = isync[m].located
        /\ isync'[m].todo = Hosted(isync[m].fetched)
        /\ isync'[m].gone = Known(instances) \ Hosted(isync[m].fetched)
    BY <1>0, <1>2 DEF ListTracked, LocalsOK
  <2>2. ASSUME NEW i \in Inst \ (isync'[m].todo \cup isync'[m].gone \cup isync'[m].unmarked)
        PROVE  Shows(instances'[i], isync'[m].fetched[i], isync'[m].located)
    <3>1. isync[m].fetched[i].status = "absent" /\ instances[i] = NoInst
      BY <1>0, <2>1, <2>2 DEF Hosted, Known, Blank
    <3> QED BY <2>1, <3>1 DEF Shows, NoInst
  <2> QED BY <2>1, <2>2 DEF ViewSoFar, Shown
<1>3. CASE ListingFails(m) \/ \E i \in Inst : RecordFails(m, i)
  <2>1. pc'[m] = "recorded" /\ isync'[m] = NothingListed
    BY <1>0, <1>3 DEF ListingFails, RecordFails, LocalsOK
  <2> QED BY <2>1 DEF ViewSoFar
<1>4. CASE InstancesSynced(m)
  <2>1. /\ pc[m] = "track" /\ pc'[m] = "recorded" /\ isync[m].todo = {} /\ isync[m].gone = {}
        /\ UNCHANGED <<instances, isync>>
    BY <1>0, <1>4 DEF InstancesSynced
  <2> QED BY <2>1 DEF ViewSoFar, Shown
<1>5. ASSUME NEW i \in Inst, RecordInstance(m, i) PROVE ViewSoFar(m)'
  <2>1. /\ pc[m] = "track" /\ UNCHANGED pc /\ i \in isync[m].todo
        /\ instances' = [instances EXCEPT ![i] = Recorded(m, i)]
        /\ isync'[m].fetched = isync[m].fetched /\ isync'[m].located = isync[m].located
        /\ isync'[m].todo = isync[m].todo \ {i} /\ isync'[m].gone = isync[m].gone
        /\ isync'[m].unmarked = isync[m].unmarked
    BY <1>0, <1>5 DEF RecordInstance, WriteInst, LocalsOK
  <2>2. Shows(Recorded(m, i), isync[m].fetched[i], isync[m].located)
    BY <1>0, <2>1, WrittenShows DEF ViewSoFar
  <2>3. instances'[i] = Recorded(m, i) /\ \A j \in Inst \ {i} : instances'[j] = instances[j]
    BY <1>0, <2>1 DEF LocalsOK, InstancesOK
  <2> QED BY <2>1, <2>2, <2>3 DEF ViewSoFar, Shown
<1>6. ASSUME NEW i \in Inst, MarkUnknown(m, i) PROVE ViewSoFar(m)'
  <2>1. /\ pc[m] = "track" /\ UNCHANGED pc /\ i \in isync[m].gone
        /\ instances' = [instances EXCEPT ![i] = Unknown(m, i)]
        /\ isync'[m].fetched = isync[m].fetched /\ isync'[m].located = isync[m].located
        /\ isync'[m].todo = isync[m].todo /\ isync'[m].gone = isync[m].gone \ {i}
        /\ isync'[m].unmarked = isync[m].unmarked
    BY <1>0, <1>6 DEF MarkUnknown, WriteInst, LocalsOK
  <2>2. Shows(Unknown(m, i), isync[m].fetched[i], isync[m].located)
    BY <1>0, <2>1, WrittenShows DEF ViewSoFar
  <2>3. instances'[i] = Unknown(m, i) /\ \A j \in Inst \ {i} : instances'[j] = instances[j]
    BY <1>0, <2>1 DEF LocalsOK, InstancesOK
  <2> QED BY <2>1, <2>2, <2>3 DEF ViewSoFar, Shown
<1>7. ASSUME NEW i \in Inst, MarkUnknownFails(m, i) PROVE ViewSoFar(m)'
  <2>1. /\ pc[m] = "track" /\ UNCHANGED pc
        /\ UNCHANGED instances \/ WriteInst(i, Unknown(m, i))
        /\ isync'[m].fetched = isync[m].fetched /\ isync'[m].located = isync[m].located
        /\ isync'[m].todo = isync[m].todo /\ isync'[m].gone = isync[m].gone \ {i}
        /\ isync'[m].unmarked = isync[m].unmarked \cup {i}
    BY <1>0, <1>7 DEF MarkUnknownFails, LostInst, LocalsOK
  <2>2. \A j \in Inst \ {i} : instances'[j] = instances[j]
    BY <1>0, <2>1 DEF WriteInst, LocalsOK, InstancesOK
  <2> QED BY <2>1, <2>2 DEF ViewSoFar, Shown
<1>8. QED
  BY <1>1, <1>2, <1>3, <1>4, <1>5, <1>6, <1>7 DEF SyncStep

\* Every step keeps the view of a manager that runs alone.
LEMMA ViewInvStep == ViewInv /\ [Next]_vars => ViewInv'
<1> SUFFICES ASSUME ViewInv, [Next]_vars, NEW m \in Manager, Alone(m)' PROVE ViewSoFar(m)'
  BY LimitsStep DEF ViewInv
<1>0. pc \in [Manager -> Step] /\ LocalsOK /\ LimitsInv
  BY DEF ViewInv, LimitsInv, TypeOK, SharedTypeOK
<1>1. ASSUME Alone(m), UNCHANGED <<pc, instances, isync>> PROVE ViewSoFar(m)'
  BY <1>1 DEF ViewInv, ViewSoFar, Shown
<1>2. ASSUME NEW k \in Manager, SyncStep(k) PROVE ViewSoFar(m)'
  <2>1. pc[k] \in {"hosted", "locate", "tracked", "track"}
    BY <1>2, StepFrame
  <2>2. pc'[k] # "off" /\ \A j \in Manager \ {k} : pc'[j] = pc[j]
    BY <1>0, <1>2, <2>1, StepFrame
  <2>3. k = m
    BY <2>2 DEF Alone
  <2>4. Alone(m)
    BY <2>2, <2>3 DEF Alone
  <2> QED BY <1>0, <1>2, <2>3, <2>4, ViewStep DEF ViewInv
<1>3. ASSUME NEW k \in Manager, Tick(k) \/ RestOfPass(k) \/ Crash(k) PROVE ViewSoFar(m)'
  <2>1. pc'[k] \in {"hosted", "idle"}
    BY <1>0, <1>3 DEF Tick, RestOfPass, Crash
  <2>2. k = m
    BY <2>1 DEF Alone
  <2> QED BY <2>1, <2>2 DEF ViewSoFar
<1>4. QED
  <2>1. ASSUME NEW i \in Inst, HostedChange(i, Name), UNCHANGED isync
        PROVE  UNCHANGED <<pc, instances, isync>>
    BY <2>1 DEF HostedChange
  <2>2. ASSUME NEW n \in Name, NodeAppears(n)
        PROVE  UNCHANGED <<pc, instances, isync>>
    BY <2>2 DEF NodeAppears
  <2>3. UNCHANGED vars => UNCHANGED <<pc, instances, isync>>
    BY DEF vars, shared
  <2>4. UNCHANGED pc => Alone(m)
    BY DEF Alone
  <2> QED BY <1>1, <1>2, <1>3, <2>1, <2>2, <2>3, <2>4 DEF Next

\* instance_sync.go:13-27: when the Sync of a manager that runs alone returns nil,
\* the table shows what it fetched, but for the marks it logged as failed.
THEOREM InstancesAreShown == Spec => []InstancesView
<1>1. Init => ViewInv
  <2>1. Init => \A m \in Manager : ViewSoFar(m)
    BY DEF Init, ViewSoFar
  <2> QED BY <2>1, LimitsInit DEF ViewInv
<1>2. ViewInv => InstancesView
  BY DEF ViewInv, Alone, ViewSoFar, Shown, InstancesView
<1> QED BY <1>1, <1>2, ViewInvStep, PTL DEF Spec
=============================================================================
