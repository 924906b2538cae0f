------------------------- MODULE OrchestratorProofs -------------------------
(***************************************************************************)
(* The whole reconcile loop, with any finite set of names, either kind of  *)
(* store, any options and any number of faults and changes of LXD.  Its    *)
(* types, the scale-outs and servers under way, and what the rows of both  *)
(* tables keep hold for any number of managers; that a scale-out is        *)
(* justified, that known capacity is kept and that no pass overcommits a   *)
(* node, for one, since another would act on copies that are out of        *)
(* date.  The last part is about the node sync alone, with any number of   *)
(* managers.                                                               *)
(***************************************************************************)
EXTENDS Orchestrator, FiniteSetTheorems, TLAPS

\* What is proved of three of the components on their own.
PP == INSTANCE PlacementProofs
IP == INSTANCE InstanceSyncProofs
SQ == INSTANCE ScaleOutProofs

-----------------------------------------------------------------------------
(* The components, as their own proofs know them.                           *)

\* The assumptions of the modules of those proofs.
LEMMA PlacementAssumed ==
  /\ PP!IsFiniteSet(Manager) /\ PP!IsFiniteSet(Inst) /\ Manager # {}
  /\ IsFiniteSet(Name) => PP!IsFiniteSet(Name)
  /\ Name \subseteq Nat \ {0} /\ SQLStore \in BOOLEAN /\ MaxFaults \in Nat /\ MaxChanges \in Nat
  /\ Capacity \in [Name -> [PP!Dim -> Nat]] /\ Limit \in [Inst -> [PP!Dim -> Nat]]
BY ManagerAssumption, NameAssumption, StoreAssumption, BoundAssumption, InstAssumption,
   CapacityAssumption, LimitAssumption DEF IsFiniteSet, PP!IsFiniteSet, Dim, PP!Dim

\* And those of the proofs of the instance sync.
LEMMA InstancesAssumed ==
  /\ IP!IsFiniteSet(Manager) /\ IP!IsFiniteSet(Inst) /\ Manager # {}
  /\ Name \subseteq Nat \ {0} /\ SQLStore \in BOOLEAN /\ MaxFaults \in Nat /\ MaxChanges \in Nat
BY ManagerAssumption, NameAssumption, StoreAssumption, BoundAssumption, InstAssumption
   DEF IsFiniteSet, IP!IsFiniteSet

\* And those of the proofs of a scale-out.
LEMMA ScaleOutAssumed ==
  /\ SQ!IsFiniteSet(Manager) /\ Manager # {} /\ HasBootstrap \in BOOLEAN
  /\ Name \subseteq Nat \ {0} /\ SQLStore \in BOOLEAN /\ MaxFaults \in Nat /\ MaxChanges \in Nat
BY ManagerAssumption, NameAssumption, StoreAssumption, BoundAssumption, OptionAssumption
   DEF IsFiniteSet, SQ!IsFiniteSet

\* The step of scheduleCluster is the one of its proofs.
LEMMA PlacementStepIs ==
  ASSUME NEW m \in Manager, Plan!PlacementStep(m)
  PROVE  PP!PlacementStep(m)
BY DEF Plan!PlacementStep, PP!PlacementStep, Plan!ListNodesToSchedule, PP!ListNodesToSchedule,
       Plan!ListInstancesToSchedule, PP!ListInstancesToSchedule, Plan!ListFails, PP!ListFails,
       Plan!ScheduleReturns, PP!ScheduleReturns, Plan!PlaceInstance, PP!PlaceInstance,
       Plan!PlaceFails, PP!PlaceFails, Plan!NoCapacity, PP!NoCapacity, Plan!Failing, PP!Failing,
       Plan!NotScheduling, PP!NotScheduling, Plan!NoRow, PP!NoRow, Plan!NoInst, PP!NoInst,
       Plan!NoName, PP!NoName, Plan!Waiting, PP!Waiting, Plan!Chosen, PP!Chosen,
       Plan!PlacedRow, PP!PlacedRow, Plan!WriteInst, PP!WriteInst, Plan!LostInst, PP!LostInst,
       Plan!Schedule, PP!Schedule, Plan!Precedes, PP!Precedes, Plan!Score, PP!Score,
       Plan!Volume, PP!Volume, Plan!Eligible, PP!Eligible, Plan!Dim, PP!Dim,
       Plan!LimitOf, PP!LimitOf, Plan!CapacityOf, PP!CapacityOf, Plan!Allocated, PP!Allocated,
       Plan!MapThenSumSet, PP!MapThenSumSet, Plan!MapThenFoldSet, PP!MapThenFoldSet

\* And so is the one of the instance sync.
LEMMA InstanceSyncStepIs ==
  ASSUME NEW m \in Manager, Insts!SyncStep(m)
  PROVE  IP!SyncStep(m)
BY DEF Insts!SyncStep, IP!SyncStep, Insts!FetchInstances, IP!FetchInstances,
       Insts!ListLocations, IP!ListLocations, Insts!ListTracked, IP!ListTracked,
       Insts!ListingFails, IP!ListingFails, Insts!RecordInstance, IP!RecordInstance,
       Insts!RecordFails, IP!RecordFails, Insts!MarkUnknown, IP!MarkUnknown,
       Insts!MarkUnknownFails, IP!MarkUnknownFails, Insts!InstancesSynced, IP!InstancesSynced,
       Insts!CanRecord, IP!CanRecord, Insts!CanInsert, IP!CanInsert, Insts!RowAllowed, IP!RowAllowed,
       Insts!Recorded, IP!Recorded, Insts!Unknown, IP!Unknown, Insts!NodeOf, IP!NodeOf,
       Insts!MapLXDInstanceStatus, IP!MapLXDInstanceStatus, Insts!WriteInst, IP!WriteInst,
       Insts!LostInst, IP!LostInst, Insts!Failing, IP!Failing, Insts!Hosted, IP!Hosted,
       Insts!Known, IP!Known, Insts!Rows, IP!Rows, Insts!NothingListed, IP!NothingListed,
       Insts!NotHosted, IP!NotHosted, Insts!NoInst, IP!NoInst, Insts!NoName, IP!NoName

\* And the one of executeScaleOut.
LEMMA ScaleOutStepIs ==
  ASSUME NEW m \in Manager, Scale!ScaleOutStep(m)
  PROVE  SQ!ScaleOutStep(m)
BY DEF Scale!ScaleOutStep, SQ!ScaleOutStep, Scale!SkipScaleOut, SQ!SkipScaleOut,
       Scale!PassGuard, SQ!PassGuard, Scale!ProvisionFails, SQ!ProvisionFails,
       Scale!ProvisionServer, SQ!ProvisionServer, Scale!RecordServer, SQ!RecordServer,
       Scale!RecordFails, SQ!RecordFails, Scale!BootstrapReady, SQ!BootstrapReady,
       Scale!BootstrapFails, SQ!BootstrapFails, Scale!FinishScaleOut, SQ!FinishScaleOut,
       Scale!FinishFails, SQ!FinishFails, Scale!AfterRecord, SQ!AfterRecord,
       Scale!Bootstrapped, SQ!Bootstrapped, Scale!Join, SQ!Join, Scale!Outcome, SQ!Outcome,
       Scale!ScaleOutRow, SQ!ScaleOutRow, Scale!Leave, SQ!Leave, Scale!NoScaleOut, SQ!NoScaleOut,
       Scale!NoName, SQ!NoName, Scale!Unused, SQ!Unused, Scale!WithStatus, SQ!WithStatus,
       Scale!Failing, SQ!Failing, Scale!CanCreate, SQ!CanCreate, Scale!WriteNode, SQ!WriteNode,
       Scale!LostWrite, SQ!LostWrite

\* What the locals of a manager may be: those of scheduleCluster ...
PlaceLocal ==
  [nodes : [Name -> Row], instances : [Inst -> InstRow],
   todo : SUBSET Inst, scaleOutRequired : BOOLEAN]
PlaceType == [Manager -> PlaceLocal]

\* ... of Syncer.Sync ...
SyncType ==
  [fetched : [Name -> MemberStatus \cup {"absent"}], resources : SUBSET Name,
   existing : [Name -> Row], todo : SUBSET Name, gone : SUBSET Name, unmarked : SUBSET Name]

\* ... and of executeScaleOut.
ScaleType == [name : Name \cup {NoName}, recorded : BOOLEAN, ready : BOOLEAN]

\* The types of the modules are the same.
LEMMA TypesAre ==
  /\ PP!Row = Row /\ PP!InstRow = InstRow /\ PP!PlaceType = PlaceType
  /\ Sync!LocalsOK <=> sync \in [Manager -> SyncType]
  /\ Sync!LocalsOK' <=> sync' \in [Manager -> SyncType]
  /\ Plan!LocalsOK <=> instances \in [Inst -> InstRow] /\ place \in PlaceType
  /\ Plan!LocalsOK' <=> instances' \in [Inst -> InstRow] /\ place' \in PlaceType
  /\ Scale!LocalsOK <=> servers \subseteq Name /\ scale \in [Manager -> ScaleType]
  /\ Scale!LocalsOK' <=> servers' \subseteq Name /\ scale' \in [Manager -> ScaleType]
<1>1. PP!Row = Row /\ PP!InstRow = InstRow /\ PP!PlaceType = PlaceType
  BY DEF PP!Row, Row, PP!NodeStatus, NodeStatus, PP!InstRow, InstRow, PP!InstStatus, InstStatus,
         PP!NoName, NoName, PP!PlaceType, PlaceType, PlaceLocal
<1>2. /\ Sync!LocalsOK <=> sync \in [Manager -> SyncType]
      /\ Sync!LocalsOK' <=> sync' \in [Manager -> SyncType]
  BY DEF Sync!LocalsOK, Sync!MemberStatus, MemberStatus, Sync!Row, Row, Sync!NodeStatus, NodeStatus, SyncType
<1>3. /\ Plan!LocalsOK <=> instances \in [Inst -> InstRow] /\ place \in PlaceType
      /\ Plan!LocalsOK' <=> instances' \in [Inst -> InstRow] /\ place' \in PlaceType
  BY DEF Plan!LocalsOK, Plan!InstancesOK, Plan!InstRow, InstRow, Plan!InstStatus, InstStatus,
         Plan!NoName, NoName, Plan!Row, Row, Plan!NodeStatus, NodeStatus, PlaceType, PlaceLocal
<1>4. /\ Scale!LocalsOK <=> servers \subseteq Name /\ scale \in [Manager -> ScaleType]
      /\ Scale!LocalsOK' <=> servers' \subseteq Name /\ scale' \in [Manager -> ScaleType]
  BY DEF Scale!LocalsOK, Scale!NoName, NoName, ScaleType
<1>5. QED
  BY <1>1, <1>2, <1>3, <1>4

\* And so are those of the instance sync and its proofs.
LEMMA InstanceTypesAre ==
  /\ Insts!LocalsOK <=> IP!LocalsOK
  /\ Insts!LocalsOK' <=> IP!LocalsOK'
BY DEF Insts!LocalsOK, IP!LocalsOK, Insts!InstancesOK, IP!InstancesOK, Insts!InstRow, IP!InstRow,
       Insts!InstStatus, IP!InstStatus, Insts!NoName, IP!NoName, Insts!HostedRow, IP!HostedRow,
       Insts!LXDStatus, IP!LXDStatus

-----------------------------------------------------------------------------
(* What a step of each component does to the rest of the loop.              *)

\* No step takes faults back, or more of them than there may be.
FaultsMore == faults' \in 0 .. MaxFaults /\ faults <= faults'

\* A step that counts k faults, or none, is of that kind.
LEMMA FaultsGrow ==
  ASSUME faults \in 0 .. MaxFaults, NEW k \in Nat,
         UNCHANGED faults \/ Sync!Failing(k) \/ Scale!Failing(k) \/ Failing(k) \/ Plan!Failing(k)
  PROVE  FaultsMore
BY BoundAssumption DEF FaultsMore, Sync!Failing, Scale!Failing, Failing, Plan!Failing

\* A step of m takes it from one of the steps in From to one in To, or leaves it.
Moves(m, From, To) ==
  /\ pc[m] \in From
  /\ pc' = pc \/ \E s \in To : pc' = [pc EXCEPT ![m] = s]

\* inventory.Syncer writes the node table only.
LEMMA NodeSyncFrame ==
  ASSUME IsFiniteSet(Name), faults \in 0 .. MaxFaults, NEW m \in Manager, Sync!SyncStep(m)
  PROVE  /\ UNCHANGED <<members, changes>> /\ FaultsMore
         /\ Moves(m, {"members", "existing", "upsert"}, {"existing", "upsert", "done"})
<1>1. CASE Sync!FetchMembers(m)
  <2>1. PICK lost \in SUBSET Sync!Present(members) : Sync!Failing(Sync!Cardinality(lost))
    BY <1>1 DEF Sync!FetchMembers
  <2>2. Sync!Cardinality(lost) \in Nat
    <3>1. Sync!Cardinality(lost) = Cardinality(lost)
      BY DEF Sync!Cardinality, Cardinality, Sync!IsFiniteSet, IsFiniteSet
    <3>2. lost \subseteq Name
      BY DEF Sync!Present
    <3> QED BY <3>1, <3>2, FS_Subset, FS_CardinalityType
  <2> QED BY <1>1, <2>1, <2>2, FaultsGrow DEF Sync!FetchMembers, Moves
<1>2. CASE Sync!FetchFails(m)
  BY <1>2, FaultsGrow DEF Sync!FetchFails, Moves
<1>3. CASE Sync!ListExisting(m)
  BY <1>3, FaultsGrow DEF Sync!ListExisting, Moves
<1>4. CASE Sync!SyncReturns(m)
  BY <1>4, FaultsGrow DEF Sync!SyncReturns, Moves
<1>5. ASSUME NEW n \in Name,
             \/ Sync!UpsertMember(m, n) \/ Sync!UpsertFails(m, n)
             \/ Sync!MarkOffline(m, n) \/ Sync!MarkOfflineFails(m, n)
      PROVE  /\ UNCHANGED <<members, changes>> /\ FaultsMore
             /\ Moves(m, {"members", "existing", "upsert"}, {"existing", "upsert", "done"})
  BY <1>5, FaultsGrow DEF Sync!UpsertMember, Sync!UpsertFails, Sync!MarkOffline,
     Sync!MarkOfflineFails, Moves
<1>6. QED
  BY <1>1, <1>2, <1>3, <1>4, <1>5 DEF Sync!SyncStep

\* inventory.InstanceSyncer writes the instance table only.
LEMMA InstanceSyncFrame ==
  ASSUME faults \in 0 .. MaxFaults, NEW m \in Manager, Insts!SyncStep(m)
  PROVE  /\ UNCHANGED <<nodes, members, changes>> /\ FaultsMore
         /\ Moves(m, {"hosted", "locate", "tracked", "track"},
                     {"locate", "tracked", "track", "recorded"})
<1>1. /\ UNCHANGED <<nodes, members, changes>>
      /\ faults' = faults \/ IP!Failing(1)
      /\ pc[m] \in {"hosted", "locate", "tracked", "track"}
      /\ \/ pc' = pc
         \/ \E s \in {"locate", "tracked", "track", "recorded"} : pc' = [pc EXCEPT ![m] = s]
  BY InstancesAssumed, InstanceSyncStepIs, IP!StepFrame
<1>2. FaultsMore
  BY <1>1, BoundAssumption DEF FaultsMore, IP!Failing
<1> QED BY <1>1, <1>2 DEF Moves

\* And so does the placement step.
LEMMA PlacementFrame ==
  ASSUME faults \in 0 .. MaxFaults, NEW m \in Manager, Plan!PlacementStep(m)
  PROVE  /\ UNCHANGED <<nodes, members, changes>> /\ FaultsMore
         /\ Moves(m, {"schedule", "list", "loop"}, {"list", "loop", "scheduled"})
<1>1. CASE \/ Plan!ListNodesToSchedule(m) \/ Plan!ListInstancesToSchedule(m)
           \/ Plan!ListFails(m) \/ Plan!ScheduleReturns(m)
  BY <1>1, FaultsGrow DEF Plan!ListNodesToSchedule, Plan!ListInstancesToSchedule,
     Plan!ListFails, Plan!ScheduleReturns, Moves
<1>2. ASSUME NEW i \in Inst,
             Plan!PlaceInstance(m, i) \/ Plan!PlaceFails(m, i) \/ Plan!NoCapacity(m, i)
      PROVE  /\ UNCHANGED <<nodes, members, changes>> /\ FaultsMore
             /\ Moves(m, {"schedule", "list", "loop"}, {"list", "loop", "scheduled"})
  BY <1>2, FaultsGrow DEF Plan!PlaceInstance, Plan!PlaceFails, Plan!NoCapacity, Moves
<1>3. QED
  BY <1>1, <1>2 DEF Plan!PlacementStep

\* A scale-out writes the node table, adds servers and may add a member.
LEMMA ScaleOutFrame ==
  ASSUME faults \in 0 .. MaxFaults, NEW m \in Manager, Scale!ScaleOutStep(m)
  PROVE  /\ UNCHANGED changes /\ FaultsMore
         /\ Moves(m, {"guard", "provision", "record", "bootstrap", "finish"},
                     {"provision", "record", "bootstrap", "finish", "idle"})
<1> DEFINE Goal ==
      /\ UNCHANGED changes /\ FaultsMore
      /\ Moves(m, {"guard", "provision", "record", "bootstrap", "finish"},
                  {"provision", "record", "bootstrap", "finish", "idle"})
<1>1. CASE Scale!SkipScaleOut(m) \/ Scale!PassGuard(m) \/ Scale!ProvisionFails(m)
  BY <1>1, FaultsGrow DEF Scale!SkipScaleOut, Scale!PassGuard, Scale!ProvisionFails, Scale!Leave, Moves
<1>2. ASSUME NEW n \in Name, Scale!ProvisionServer(m, n) PROVE Goal
  BY <1>2, FaultsGrow DEF Scale!ProvisionServer, Moves
<1>3. CASE Scale!RecordServer(m) \/ Scale!RecordFails(m)
  <2>1. /\ pc[m] = "record" /\ UNCHANGED changes
        /\ UNCHANGED faults \/ Scale!Failing(1)
        /\ Scale!AfterRecord(m, TRUE) \/ Scale!AfterRecord(m, FALSE)
    BY <1>3 DEF Scale!RecordServer, Scale!RecordFails
  <2>2. \E s \in {"bootstrap", "idle"} : pc' = [pc EXCEPT ![m] = s]
    BY <2>1 DEF Scale!AfterRecord, Scale!Leave
  <2> QED BY <2>1, <2>2, FaultsGrow DEF Moves
<1>4. CASE Scale!BootstrapReady(m) \/ Scale!BootstrapFails(m)
  <2>1. /\ pc[m] = "bootstrap" /\ UNCHANGED changes
        /\ UNCHANGED faults \/ Scale!Failing(1)
        /\ Scale!Bootstrapped(m, TRUE) \/ Scale!Bootstrapped(m, FALSE)
    BY <1>4 DEF Scale!BootstrapReady, Scale!BootstrapFails
  <2>2. \E s \in {"finish", "idle"} : pc' = [pc EXCEPT ![m] = s]
    BY <2>1 DEF Scale!Bootstrapped, Scale!Leave
  <2> QED BY <2>1, <2>2, FaultsGrow DEF Moves
<1>5. CASE Scale!FinishScaleOut(m) \/ Scale!FinishFails(m)
  BY <1>5, FaultsGrow DEF Scale!FinishScaleOut, Scale!FinishFails, Scale!Leave, Moves
<1>6. QED
  BY <1>1, <1>2, <1>3, <1>4, <1>5 DEF Scale!ScaleOutStep

-----------------------------------------------------------------------------
(* Types.                                                                   *)

\* The locals of a manager that does nothing are well typed.
LEMMA NothingTyped ==
  /\ Sync!NothingFetched \in SyncType
  /\ Scale!NoScaleOut \in ScaleType
  /\ Plan!NotScheduling \in PlaceLocal
  /\ Insts!NothingListed \in IP!LocalType
<1>1. Sync!NothingFetched \in SyncType
  BY DEF Sync!NothingFetched, SyncType, Sync!NoRow, Row
<1>2. Scale!NoScaleOut \in ScaleType
  BY DEF Scale!NoScaleOut, ScaleType, Scale!NoName, NoName
<1>3. Plan!NotScheduling \in PlaceLocal
  BY DEF PlaceLocal, Plan!NotScheduling, Plan!NoRow, Plan!NoInst, Plan!NoName, NoName, Row, InstRow
<1>4. Insts!NothingListed \in IP!LocalType
  BY DEF Insts!NothingListed, Insts!NotHosted, Insts!NoInst, Insts!NoName, IP!LocalType,
         IP!HostedRow, IP!InstRow, IP!NoName
<1>5. QED
  BY <1>1, <1>2, <1>3, <1>4

\* The rows a node sync writes are rows: tracked, never absent, and with the
\* figures of the copy at least.
LEMMA SyncRowsTyped ==
  ASSUME sync \in [Manager -> SyncType], NEW m \in Manager, NEW n \in Name
  PROVE  /\ Sync!Upserted(m, n) \in Row /\ Sync!Offline(m, n) \in Row
         /\ sync[m].existing[n].sized => Sync!Upserted(m, n).sized
         /\ Sync!Offline(m, n).sized = sync[m].existing[n].sized
         /\ Sync!Upserted(m, n).status = Sync!MapLXDStatus(sync[m].fetched[n])
         /\ Sync!Offline(m, n).status = "offline"
         /\ Sync!Upserted(m, n).tracked
         /\ Sync!Offline(m, n).tracked = sync[m].existing[n].tracked
<1>1. sync[m].existing[n] \in Row
  BY DEF SyncType
<1>2. \A s : Sync!MapLXDStatus(s) \in {"online", "draining", "offline"}
  BY DEF Sync!MapLXDStatus
<1>3. Sync!MapLXDStatus(sync[m].fetched[n]) \in NodeStatus
  BY <1>2 DEF NodeStatus
<1> DEFINE row == [sync[m].existing[n] EXCEPT !.status = Sync!MapLXDStatus(sync[m].fetched[n]),
                                              !.tracked = TRUE]
           available == n \in sync[m].resources
<1>4. row \in Row /\ row.sized = sync[m].existing[n].sized /\ row.tracked
      /\ row.status = Sync!MapLXDStatus(sync[m].fetched[n])
  BY <1>1, <1>3 DEF Row
<1>5. Sync!Upserted(m, n) = [row EXCEPT !.sized = row.sized \/ available]
  BY DEF Sync!Upserted, Sync!ApplyResources
<1>6. /\ Sync!Upserted(m, n) \in Row
      /\ sync[m].existing[n].sized => Sync!Upserted(m, n).sized
      /\ Sync!Upserted(m, n).tracked
      /\ Sync!Upserted(m, n).status = Sync!MapLXDStatus(sync[m].fetched[n])
  <2> HIDE DEF row, available
  <2>1. (row.sized \/ available) \in BOOLEAN
    OBVIOUS
  <2> QED BY <1>4, <1>5, <2>1 DEF Row
<1>7. /\ Sync!Offline(m, n) \in Row /\ Sync!Offline(m, n).sized = sync[m].existing[n].sized
      /\ Sync!Offline(m, n).tracked = sync[m].existing[n].tracked
      /\ Sync!Offline(m, n).status = "offline"
  BY <1>1 DEF Sync!Offline, Row, NodeStatus
<1>8. QED
  BY <1>6, <1>7

\* What a step of a node sync may write: the row of a member it fetched, or the
\* mark of a copy whose member is gone.
SyncWrites(m, n) ==
  /\ pc[m] = "upsert"
  /\ \/ n \in sync[m].todo /\ Sync!CanUpsert(m, n) /\ WriteNode(n, Sync!Upserted(m, n))
     \/ n \in sync[m].gone /\ sync[m].todo = {} /\ WriteNode(n, Sync!Offline(m, n))

\* It writes one row at most.
LEMMA OneNodeWrite ==
  ASSUME NEW m \in Manager, Sync!SyncStep(m)
  PROVE  UNCHANGED nodes \/ \E n \in Name : SyncWrites(m, n)
<1>1. CASE \/ Sync!FetchMembers(m) \/ Sync!FetchFails(m) \/ Sync!ListExisting(m) \/ Sync!SyncReturns(m)
  BY <1>1 DEF Sync!FetchMembers, Sync!FetchFails, Sync!ListExisting, Sync!SyncReturns
<1>2. ASSUME NEW n \in Name, Sync!UpsertMember(m, n) \/ Sync!UpsertFails(m, n)
      PROVE  UNCHANGED nodes \/ SyncWrites(m, n)
  BY <1>2 DEF Sync!UpsertMember, Sync!UpsertFails, Sync!LostWrite, Sync!WriteNode, WriteNode, SyncWrites
<1>3. ASSUME NEW n \in Name, Sync!MarkOffline(m, n) \/ Sync!MarkOfflineFails(m, n)
      PROVE  UNCHANGED nodes \/ SyncWrites(m, n)
  BY <1>3 DEF Sync!MarkOffline, Sync!MarkOfflineFails, Sync!LostWrite, Sync!WriteNode, WriteNode, SyncWrites
<1>4. QED
  BY <1>1, <1>2, <1>3 DEF Sync!SyncStep

\* A node sync keeps the types.
LEMMA NodeSyncTyped ==
  ASSUME nodes \in [Name -> Row], members \in [Name -> MemberStatus \cup {"absent"}],
         sync \in [Manager -> SyncType], NEW m \in Manager, Sync!SyncStep(m)
  PROVE  nodes' \in [Name -> Row] /\ sync' \in [Manager -> SyncType]
<1>1. nodes' \in [Name -> Row]
  <2>1. ASSUME NEW n \in Name, SyncWrites(m, n) PROVE nodes' \in [Name -> Row]
    <3>1. Sync!Upserted(m, n) \in Row /\ Sync!Offline(m, n) \in Row
      BY SyncRowsTyped
    <3> QED BY <2>1, <3>1 DEF SyncWrites, WriteNode
  <2> QED BY <2>1, OneNodeWrite
<1>2. CASE Sync!FetchMembers(m)
  <2>1. PICK lost \in SUBSET Sync!Present(members) :
          sync' = [sync EXCEPT ![m].fetched = members, ![m].resources = Sync!Present(members) \ lost]
    BY <1>2 DEF Sync!FetchMembers
  <2> DEFINE fetched == [sync[m] EXCEPT !.fetched = members,
                                        !.resources = Sync!Present(members) \ lost]
  <2>2. Sync!Present(members) \subseteq Name
    BY DEF Sync!Present
  <2>3. fetched \in SyncType
    BY <2>2 DEF SyncType
  <2>4. sync' = [sync EXCEPT ![m] = fetched]
    BY <2>1
  <2> HIDE DEF fetched
  <2> QED BY <1>1, <2>3, <2>4
<1>3. CASE Sync!ListExisting(m)
  <2>1. PICK keeper \in Sync!Keepers :
          LET indexed == Sync!IndexByLXDName(keeper)
              seen    == Sync!Present(sync[m].fetched)
          IN  sync' = [sync EXCEPT
                ![m].existing = [n \in Name |-> IF n \in indexed THEN nodes[n] ELSE Sync!NoRow],
                ![m].todo = seen,
                ![m].gone = {n \in indexed : nodes[n].tracked => n \notin seen}]
    BY <1>3 DEF Sync!ListExisting
  <2> DEFINE indexed == Sync!IndexByLXDName(keeper)
             seen    == Sync!Present(sync[m].fetched)
             listed  == [sync[m] EXCEPT
                !.existing = [n \in Name |-> IF n \in indexed THEN nodes[n] ELSE Sync!NoRow],
                !.todo = seen,
                !.gone = {n \in indexed : nodes[n].tracked => n \notin seen}]
  <2>2. indexed \subseteq Name /\ seen \subseteq Name
    BY DEF Sync!IndexByLXDName, Sync!Rows, Sync!Present
  <2>3. Sync!NoRow \in Row
    BY DEF Sync!NoRow, Row
  <2>4. sync' = [sync EXCEPT ![m] = listed]
    BY <2>1
  <2>5. listed \in SyncType
    <3> HIDE DEF indexed, seen
    <3> QED BY <2>2, <2>3 DEF SyncType
  <2> HIDE DEF listed
  <2> QED BY <1>1, <2>4, <2>5
<1>4. CASE Sync!FetchFails(m) \/ \E n \in Name : Sync!UpsertFails(m, n)
  BY <1>1, <1>4, NothingTyped DEF Sync!FetchFails, Sync!UpsertFails
<1>5. CASE Sync!SyncReturns(m)
  BY <1>1, <1>5 DEF Sync!SyncReturns
<1>6. ASSUME NEW n \in Name, Sync!UpsertMember(m, n) \/ Sync!MarkOffline(m, n) \/ Sync!MarkOfflineFails(m, n)
      PROVE  sync' \in [Manager -> SyncType]
  <2>1. PICK todo \in SUBSET Name, gone \in SUBSET Name, unmarked \in SUBSET Name :
          sync' = [sync EXCEPT ![m] = [sync[m] EXCEPT !.todo = todo, !.gone = gone, !.unmarked = unmarked]]
    <3>1. sync[m] \in SyncType
      OBVIOUS
    <3>2. CASE Sync!UpsertMember(m, n)
      <4>1. sync' = [sync EXCEPT ![m] = [sync[m] EXCEPT !.todo = sync[m].todo \ {n},
                                          !.gone = sync[m].gone, !.unmarked = sync[m].unmarked]]
        BY <3>1, <3>2 DEF Sync!UpsertMember, SyncType
      <4> QED BY <3>1, <4>1 DEF SyncType
    <3>3. CASE Sync!MarkOffline(m, n)
      <4>1. sync' = [sync EXCEPT ![m] = [sync[m] EXCEPT !.todo = sync[m].todo,
                                          !.gone = sync[m].gone \ {n}, !.unmarked = sync[m].unmarked]]
        BY <3>1, <3>3 DEF Sync!MarkOffline, SyncType
      <4> QED BY <3>1, <4>1 DEF SyncType
    <3>4. CASE Sync!MarkOfflineFails(m, n)
      <4>1. sync' = [sync EXCEPT ![m] = [sync[m] EXCEPT !.todo = sync[m].todo,
                              !.gone = sync[m].gone \ {n}, !.unmarked = sync[m].unmarked \cup {n}]]
        BY <3>1, <3>4 DEF Sync!MarkOfflineFails, SyncType
      <4> QED BY <3>1, <4>1 DEF SyncType
    <3> QED BY <1>6, <3>2, <3>3, <3>4
  <2> DEFINE left == [sync[m] EXCEPT !.todo = todo, !.gone = gone, !.unmarked = unmarked]
  <2>2. left \in SyncType
    BY DEF SyncType
  <2>3. sync' = [sync EXCEPT ![m] = left]
    BY <2>1
  <2> HIDE DEF left
  <2> QED BY <1>1, <2>2, <2>3
<1>7. QED
  BY <1>1, <1>2, <1>3, <1>4, <1>5, <1>6 DEF Sync!SyncStep

\* A scale-out keeps the types.
LEMMA ScaleOutTyped ==
  ASSUME nodes \in [Name -> Row], members \in [Name -> MemberStatus \cup {"absent"}],
         servers \subseteq Name, scale \in [Manager -> ScaleType],
         NEW m \in Manager, Scale!ScaleOutStep(m)
  PROVE  /\ nodes' \in [Name -> Row] /\ members' \in [Name -> MemberStatus \cup {"absent"}]
         /\ servers' \subseteq Name /\ scale' \in [Manager -> ScaleType]
<1> DEFINE Goal ==
      /\ nodes' \in [Name -> Row] /\ members' \in [Name -> MemberStatus \cup {"absent"}]
      /\ servers' \subseteq Name /\ scale' \in [Manager -> ScaleType]
<1>0. Scale!Leave(m) => scale' \in [Manager -> ScaleType]
  BY NothingTyped DEF Scale!Leave
<1>1. CASE Scale!SkipScaleOut(m) \/ Scale!PassGuard(m) \/ Scale!ProvisionFails(m)
  BY <1>0, <1>1 DEF Scale!SkipScaleOut, Scale!PassGuard, Scale!ProvisionFails, Scale!Unused
<1>2. ASSUME NEW n \in Name, Scale!ProvisionServer(m, n) PROVE Goal
  BY <1>2 DEF Scale!ProvisionServer, ScaleType
<1>3. CASE Scale!RecordServer(m) \/ Scale!RecordFails(m)
  <2>1. UNCHANGED nodes \/ Scale!WriteNode(scale[m].name, Scale!ScaleOutRow("provisioning"))
    BY <1>3 DEF Scale!RecordServer, Scale!RecordFails, Scale!LostWrite
  <2>2. Scale!ScaleOutRow("provisioning") \in Row
    BY DEF Scale!ScaleOutRow, Row, NodeStatus
  <2>3. nodes' \in [Name -> Row]
    BY <2>1, <2>2 DEF Scale!WriteNode
  <2>4. PICK b \in BOOLEAN : Scale!AfterRecord(m, b)
    BY <1>3 DEF Scale!RecordServer, Scale!RecordFails
  <2>5. scale' \in [Manager -> ScaleType]
    BY <1>0, <2>4 DEF Scale!AfterRecord, ScaleType
  <2> QED BY <1>3, <2>3, <2>5 DEF Scale!RecordServer, Scale!RecordFails
<1>4. CASE Scale!BootstrapReady(m) \/ Scale!BootstrapFails(m)
  <2>1. UNCHANGED members \/ Scale!Join(scale[m].name)
    BY <1>4 DEF Scale!BootstrapReady, Scale!BootstrapFails
  <2>2. members' \in [Name -> MemberStatus \cup {"absent"}]
    BY <2>1 DEF Scale!Join, MemberStatus
  <2>3. PICK b \in BOOLEAN : Scale!Bootstrapped(m, b)
    BY <1>4 DEF Scale!BootstrapReady, Scale!BootstrapFails
  <2>4. scale' \in [Manager -> ScaleType]
    BY <1>0, <2>3 DEF Scale!Bootstrapped, ScaleType
  <2> QED BY <1>4, <2>2, <2>4 DEF Scale!BootstrapReady, Scale!BootstrapFails
<1>5. CASE Scale!FinishScaleOut(m) \/ Scale!FinishFails(m)
  <2>1. UNCHANGED nodes \/ Scale!WriteNode(scale[m].name, Scale!Outcome(m))
    BY <1>5 DEF Scale!FinishScaleOut, Scale!FinishFails, Scale!LostWrite
  <2>2. Scale!Outcome(m) \in Row
    BY DEF Scale!Outcome, Scale!ScaleOutRow, Row, NodeStatus
  <2>3. nodes' \in [Name -> Row]
    BY <2>1, <2>2 DEF Scale!WriteNode
  <2> QED BY <1>0, <1>5, <2>3 DEF Scale!FinishScaleOut, Scale!FinishFails
<1>6. QED
  BY <1>1, <1>2, <1>3, <1>4, <1>5 DEF Scale!ScaleOutStep

\* A step that moves a manager keeps the types of the counters.
LEMMA MovesTyped ==
  ASSUME pc \in [Manager -> Step], faults \in 0 .. MaxFaults, changes \in 0 .. MaxChanges,
         NEW m \in Manager, NEW From, NEW To \in SUBSET Step, Moves(m, From, To)
  PROVE  pc' \in [Manager -> Step]
BY DEF Moves

\* The steps of the loop and of its components.
LEMMA StepsAre ==
  Step = {"members", "existing", "upsert", "done", "idle", "off",
          "hosted", "locate", "tracked", "track", "recorded",
          "schedule", "list", "loop", "scheduled",
          "guard", "provision", "record", "bootstrap", "finish"}
BY DEF Step, Sync!Step, Insts!Step, Plan!Step, Scale!Step

\* The types of the whole loop, variable by variable.
Typed ==
  /\ nodes \in [Name -> Row] /\ members \in [Name -> MemberStatus \cup {"absent"}]
  /\ pc \in [Manager -> Step] /\ faults \in 0 .. MaxFaults /\ changes \in 0 .. MaxChanges
  /\ sync \in [Manager -> SyncType]
  /\ Insts!LocalsOK
  /\ place \in PlaceType
  /\ servers \subseteq Name /\ scale \in [Manager -> ScaleType]

\* It is the type invariant of the loop.
LEMMA TypedIs ==
  /\ TypeOK <=> Typed
  /\ Typed => instances \in [Inst -> InstRow]
<1>1. Insts!LocalsOK => instances \in [Inst -> InstRow]
  BY DEF Insts!LocalsOK, Insts!InstancesOK, Insts!InstRow, InstRow, Insts!InstStatus, InstStatus,
         Insts!NoName, NoName
<1> QED BY <1>1, TypesAre DEF TypeOK, SharedTypeOK, Typed

\* Of what a component leaves alone the types stay.
LEMMA InstancesKept ==
  ASSUME Insts!LocalsOK, UNCHANGED <<instances, hosted, isync>>
  PROVE  Insts!LocalsOK'
BY DEF Insts!LocalsOK, Insts!InstancesOK

\* Nothing is typed wrongly at the start.
LEMMA InitTyped == Init => Typed
<1> SUFFICES ASSUME Init PROVE Typed
  OBVIOUS
<1>1. nodes \in [Name -> Row]
  BY DEF Init, NoRow, Row
<1>2. members \in [Name -> MemberStatus \cup {"absent"}]
  BY DEF Init, MemberStatus
<1>3. pc \in [Manager -> Step] /\ faults \in 0 .. MaxFaults /\ changes \in 0 .. MaxChanges
  BY BoundAssumption, StepsAre DEF Init
<1>4. sync \in [Manager -> SyncType] /\ place \in PlaceType
      /\ servers \subseteq Name /\ scale \in [Manager -> ScaleType]
  BY NothingTyped DEF Init, PlaceType
<1>5. Insts!LocalsOK
  <2>1. {NoInst, WaitingRow} \subseteq IP!InstRow
    BY DEF NoInst, WaitingRow, NoName, IP!InstRow, IP!InstStatus, IP!NoName
  <2>2. instances \in [Inst -> IP!InstRow]
    BY <2>1 DEF Init
  <2>3. PICK home \in Seed :
          hosted = [i \in Inst |-> IF i \in Running THEN [status |-> "Running", location |-> home]
                                                    ELSE Insts!NotHosted]
    BY DEF Init
  <2>4. {[status |-> "Running", location |-> home], Insts!NotHosted} \subseteq IP!HostedRow
    BY SeedAssumption DEF Insts!NotHosted, Insts!NoName, IP!HostedRow, IP!LXDStatus, IP!NoName
  <2>5. hosted \in [Inst -> IP!HostedRow]
    BY <2>3, <2>4
  <2>6. isync \in [Manager -> IP!LocalType]
    BY NothingTyped DEF Init
  <2>7. IP!LocalsOK
    BY <2>2, <2>5, <2>6 DEF IP!LocalsOK, IP!InstancesOK, IP!LocalType
  <2> QED BY <2>7, InstanceTypesAre
<1> QED BY <1>1, <1>2, <1>3, <1>4, <1>5 DEF Typed

\* Every step of a pass keeps the types.
LEMMA PassTyped ==
  ASSUME IsFiniteSet(Name), Typed, NEW m \in Manager, PassStep(m)
  PROVE  Typed'
<1> USE DEF Typed
<1>0. instances \in [Inst -> InstRow]
  BY TypedIs
<1>1. CASE StartPass(m)
  BY <1>1, StepsAre, InstancesKept DEF StartPass, AfterNodeSync, locals, world
<1>2. CASE SyncNodes(m)
  <2>1. /\ UNCHANGED <<members, changes>> /\ FaultsMore
        /\ Moves(m, {"members", "existing", "upsert"}, {"existing", "upsert", "done"})
        /\ nodes' \in [Name -> Row] /\ sync' \in [Manager -> SyncType]
        /\ UNCHANGED <<isync, place, scale, world>>
    BY <1>2, NodeSyncFrame, NodeSyncTyped DEF SyncNodes
  <2>2. pc' \in [Manager -> Step]
    BY <2>1, StepsAre, MovesTyped
  <2> QED BY <2>1, <2>2, InstancesKept DEF world, FaultsMore
<1>3. CASE NodesSynced(m)
  BY <1>3, StepsAre, InstancesKept, NothingTyped DEF NodesSynced, AfterNodeSync, world
<1>4. CASE SyncInstances(m)
  <2>1. /\ UNCHANGED <<nodes, members, changes>> /\ FaultsMore
        /\ Moves(m, {"hosted", "locate", "tracked", "track"},
                    {"locate", "tracked", "track", "recorded"})
        /\ UNCHANGED <<sync, place, scale, servers>>
    BY <1>4, InstanceSyncFrame DEF SyncInstances
  <2>2. pc' \in [Manager -> Step]
    BY <2>1, StepsAre, MovesTyped
  <2>3. IP!LocalsOK /\ IP!SyncStep(m)
    BY <1>4, InstanceTypesAre, InstanceSyncStepIs DEF SyncInstances
  <2>4. Insts!LocalsOK'
    BY <2>3, InstancesAssumed, InstanceTypesAre, IP!LocalsStep
  <2> QED BY <2>1, <2>2, <2>4 DEF FaultsMore
<1>5. CASE StartScheduling(m)
  <2>1. isync' = [isync EXCEPT ![m] = Insts!NothingListed] /\ UNCHANGED <<instances, hosted>>
    BY <1>5 DEF StartScheduling, world
  <2>2. IP!LocalsOK'
    BY <2>1, InstanceTypesAre, NothingTyped DEF IP!LocalsOK, IP!InstancesOK, IP!LocalType
  <2>3. pc' \in [Manager -> Step]
    BY <1>5, StepsAre DEF StartScheduling
  <2> QED BY <1>5, <2>2, <2>3, InstanceTypesAre DEF StartScheduling, world
<1>6. CASE ScheduleInstances(m)
  <2>1. /\ UNCHANGED <<nodes, members, changes>> /\ FaultsMore
        /\ Moves(m, {"schedule", "list", "loop"}, {"list", "loop", "scheduled"})
        /\ UNCHANGED <<sync, isync, scale, hosted, servers>>
    BY <1>6, PlacementFrame DEF ScheduleInstances
  <2>2. pc' \in [Manager -> Step]
    BY <2>1, StepsAre, MovesTyped
  <2>3. PP!PlacementStep(m)
    BY <1>6, PlacementStepIs DEF ScheduleInstances
  <2>4. instances' \in [Inst -> InstRow] /\ place' \in PlaceType
    BY <1>0, <2>3, PlacementAssumed, TypesAre, PP!PlacementTypes
  <2>5. Insts!LocalsOK'
    BY <2>1, <2>4 DEF Insts!LocalsOK, Insts!InstancesOK, Insts!InstRow, InstRow, Insts!InstStatus,
       InstStatus, Insts!NoName, NoName
  <2> QED BY <2>1, <2>2, <2>4, <2>5 DEF FaultsMore
<1>7. CASE StartScaleOut(m)
  BY <1>7, StepsAre, InstancesKept, NothingTyped DEF StartScaleOut, AfterScheduling, world, PlaceType
<1>8. CASE ExecuteScaleOut(m)
  <2>1. /\ UNCHANGED changes /\ FaultsMore
        /\ Moves(m, {"guard", "provision", "record", "bootstrap", "finish"},
                    {"provision", "record", "bootstrap", "finish", "idle"})
        /\ UNCHANGED <<sync, isync, place, instances, hosted>>
    BY <1>8, ScaleOutFrame DEF ExecuteScaleOut
  <2>2. pc' \in [Manager -> Step]
    BY <2>1, StepsAre, MovesTyped
  <2>3. /\ nodes' \in [Name -> Row] /\ members' \in [Name -> MemberStatus \cup {"absent"}]
        /\ servers' \subseteq Name /\ scale' \in [Manager -> ScaleType]
    BY <1>8, ScaleOutTyped DEF ExecuteScaleOut
  <2> QED BY <2>1, <2>2, <2>3, InstancesKept DEF FaultsMore
<1>9. QED
  BY <1>1, <1>2, <1>3, <1>4, <1>5, <1>6, <1>7, <1>8 DEF PassStep

\* And so does every step of the loop.
LEMMA TypedStep ==
  ASSUME IsFiniteSet(Name), Typed, [Next]_vars
  PROVE  Typed'
<1>1. ASSUME NEW m \in Manager, Crash(m) PROVE Typed'
  <2>1. /\ UNCHANGED <<nodes, members, changes, instances, hosted, servers>>
        /\ FaultsMore
        /\ isync' = [isync EXCEPT ![m] = Insts!NothingListed]
    BY <1>1, FaultsGrow DEF Crash, world, Typed
  <2>2. IP!LocalsOK'
    BY <2>1, InstanceTypesAre, NothingTyped DEF Typed, IP!LocalsOK, IP!InstancesOK, IP!LocalType
  <2>3. pc' \in [Manager -> Step]
    BY <1>1, StepsAre DEF Crash, Typed
  <2>4. /\ sync' \in [Manager -> SyncType] /\ place' \in PlaceType
        /\ scale' \in [Manager -> ScaleType]
    BY <1>1, NothingTyped DEF Crash, Typed, PlaceType
  <2> QED BY <2>1, <2>2, <2>3, <2>4, InstanceTypesAre DEF Typed, FaultsMore
<1>2. CASE LXDChanges
  <2>1. PICK n \in Name : MemberChange(n, servers \cup Seed) /\ UNCHANGED <<locals, world>>
    BY <1>2 DEF LXDChanges
  <2>2. members' \in [Name -> MemberStatus \cup {"absent"}] /\ changes' \in 0 .. MaxChanges
        /\ UNCHANGED <<nodes, pc, faults>>
    BY <2>1, BoundAssumption DEF MemberChange, Typed
  <2> QED BY <2>1, <2>2, InstancesKept DEF Typed, locals, world
<1>3. CASE InstancesChange
  <2>1. PICK i \in Inst : Insts!HostedChange(i, Present(members))
    BY <1>3 DEF InstancesChange
  <2>2. changes' \in 0 .. MaxChanges /\ UNCHANGED <<nodes, members, pc, faults, instances>>
        /\ UNCHANGED <<locals, servers>>
    BY <1>3, <2>1, BoundAssumption DEF Insts!HostedChange, Typed, InstancesChange
  <2>3. PICK row \in {Insts!NotHosted} \cup [status : Insts!LXDStatus, location : Present(members)] :
          hosted' = [hosted EXCEPT ![i] = row]
    BY <2>1 DEF Insts!HostedChange
  <2>4. row \in Insts!HostedRow
    BY DEF Insts!NotHosted, Insts!HostedRow, Present
  <2>5. hosted' \in [Inst -> Insts!HostedRow]
    BY <2>3, <2>4 DEF Typed, Insts!LocalsOK
  <2>6. Insts!LocalsOK'
    BY <2>2, <2>5 DEF Typed, Insts!LocalsOK, Insts!InstancesOK, locals
  <2> QED BY <2>2, <2>6 DEF Typed, locals
<1>4. CASE UNCHANGED vars
  BY <1>4, InstancesKept DEF vars, shared, world, locals, Typed
<1>5. QED
  BY <1>1, <1>2, <1>3, <1>4, PassTyped DEF Next

\* orchestrator.go, Run: every variable of the loop stays within its declared range.
THEOREM TypeCorrect ==
  ASSUME IsFiniteSet(Name)
  PROVE  Spec => []TypeOK
<1>1. Typed /\ [Next]_vars => Typed'
  BY TypedStep
<1>2. Typed => TypeOK
  BY TypedIs
<1> QED BY <1>1, <1>2, InitTyped, PTL DEF Spec

-----------------------------------------------------------------------------
(* Scale-outs under way.                                                    *)

\* The servers that a scale-out has not brought to the end of the bootstrap yet.
Holding(m) == pc[m] \in {"record", "bootstrap"}
Held       == {scale[m].name : m \in {k \in Manager : Holding(k)}}

\* The servers that are no member and that nobody brings there any more.
Absent == {n \in servers : members[n] = "absent"}
Lost   == Absent \ Held

\* Each of them is the trace of a fault or of a departure.
Traced == IsFiniteSet(Lost) /\ Cardinality(Lost) <= faults + changes

\* The managers hold one server each at most.
LEMMA HeldFewerThanManagers == IsFiniteSet(Held) /\ Cardinality(Held) <= Cardinality(Manager)
<1> DEFINE H == {k \in Manager : Holding(k)}
           f == [k \in H |-> scale[k].name]
<1>1. H \in SUBSET Manager
  OBVIOUS
<1>2. IsFiniteSet(H) /\ Cardinality(H) <= Cardinality(Manager)
  BY <1>1, ManagerAssumption, FS_Subset
<1>3. f \in Surjection(H, Held)
  BY DEF Held, Surjection
<1>4. IsFiniteSet(Held) /\ Cardinality(Held) <= Cardinality(H)
  <2> HIDE DEF H, f
  <2> QED BY <1>2, <1>3, FS_Surjection
<1>5. Cardinality(Held) \in Nat /\ Cardinality(H) \in Nat /\ Cardinality(Manager) \in Nat
  BY <1>2, <1>4, ManagerAssumption, FS_CardinalityType
<1> QED BY <1>2, <1>4, <1>5

\* With every lost server traced, the servers that are no member are few.
LEMMA TracedBounds ==
  ASSUME Traced, faults \in Nat, changes \in Nat
  PROVE  OneAttemptAtATime
<1>1. Absent \subseteq Lost \cup Held
  BY DEF Lost
<1>2. /\ IsFiniteSet(Lost \cup Held)
      /\ Cardinality(Lost \cup Held) <= Cardinality(Lost) + Cardinality(Held)
  <2>1. IsFiniteSet(Lost \cap Held) /\ Cardinality(Lost \cap Held) \in Nat
    BY FS_Subset, FS_CardinalityType DEF Traced
  <2>2. /\ IsFiniteSet(Lost \cup Held)
        /\ Cardinality(Lost \cup Held)
             = Cardinality(Lost) + Cardinality(Held) - Cardinality(Lost \cap Held)
    BY HeldFewerThanManagers, FS_Union DEF Traced
  <2>3. Cardinality(Lost) \in Nat /\ Cardinality(Held) \in Nat
    BY HeldFewerThanManagers, FS_CardinalityType DEF Traced
  <2> QED BY <2>1, <2>2, <2>3
<1>3. Absent \in SUBSET (Lost \cup Held)
  BY <1>1
<1>4. IsFiniteSet(Absent) /\ Cardinality(Absent) <= Cardinality(Lost \cup Held)
  BY <1>2, <1>3, FS_Subset
<1>5. /\ Cardinality(Absent) \in Nat /\ Cardinality(Lost) \in Nat /\ Cardinality(Held) \in Nat
      /\ Cardinality(Lost \cup Held) \in Nat /\ Cardinality(Manager) \in Nat
  BY <1>2, <1>4, HeldFewerThanManagers, ManagerAssumption, FS_CardinalityType DEF Traced
<1>6. Cardinality(Absent) <= Cardinality(Manager) + faults + changes
  BY <1>2, <1>4, <1>5, HeldFewerThanManagers DEF Traced
<1> QED BY <1>6 DEF OneAttemptAtATime, Absent

\* A set that gains one element only when its bound grows stays within the bound.
LEMMA StaysBounded ==
  ASSUME NEW S, NEW T, NEW a \in Int, NEW b \in Int, IsFiniteSet(S), Cardinality(S) <= a,
         \/ T \subseteq S /\ a <= b
         \/ (\E x : T \subseteq S \cup {x}) /\ a + 1 <= b
  PROVE  IsFiniteSet(T) /\ Cardinality(T) <= b
<1>1. Cardinality(S) \in Nat
  BY FS_CardinalityType
<1>2. CASE T \subseteq S /\ a <= b
  <2>1. IsFiniteSet(T) /\ Cardinality(T) <= Cardinality(S)
    BY <1>2, FS_Subset
  <2>2. Cardinality(T) \in Nat
    BY <2>1, FS_CardinalityType
  <2> QED BY <1>1, <1>2, <2>1, <2>2
<1>3. CASE (\E x : T \subseteq S \cup {x}) /\ a + 1 <= b
  <2>1. PICK x : T \subseteq S \cup {x}
    BY <1>3
  <2>2. IsFiniteSet(S \cup {x}) /\ Cardinality(S \cup {x}) <= Cardinality(S) + 1
    BY <1>1, FS_AddElement
  <2>3. IsFiniteSet(T) /\ Cardinality(T) <= Cardinality(S \cup {x})
    BY <2>1, <2>2, FS_Subset
  <2>4. Cardinality(T) \in Nat /\ Cardinality(S \cup {x}) \in Nat
    BY <2>2, <2>3, FS_CardinalityType
  <2> QED BY <1>1, <1>3, <2>2, <2>3, <2>4
<1> QED BY <1>2, <1>3

\* A server more is lost only in a step that counts a fault or a departure.
LEMMA TracedKept ==
  ASSUME Traced, faults \in Int, changes \in Int, faults' \in Int, changes' \in Int,
         \/ Lost' \subseteq Lost /\ faults + changes <= faults' + changes'
         \/ (\E x : Lost' \subseteq Lost \cup {x}) /\ faults + changes + 1 <= faults' + changes'
  PROVE  Traced'
<1>1. faults + changes \in Int /\ faults' + changes' \in Int
  OBVIOUS
<1>2. IsFiniteSet(Lost') /\ Cardinality(Lost') <= faults' + changes'
  BY <1>1, StaysBounded DEF Traced
<1> QED BY <1>2 DEF Traced

\* A step of m leaves what the other managers hold.
LEMMA HeldByOthers ==
  ASSUME NEW m \in Manager, NEW n \in Held,
         \A k \in Manager \ {m} : pc'[k] = pc[k] /\ scale'[k] = scale[k]
  PROVE  n \in Held' \/ (Holding(m) /\ n = scale[m].name)
BY DEF Held, Holding

\* Where m holds nothing, no server is lost in its step.
LEMMA NothingLost ==
  ASSUME NEW m \in Manager, ~Holding(m), UNCHANGED <<members, servers>>,
         \A k \in Manager \ {m} : pc'[k] = pc[k] /\ scale'[k] = scale[k]
  PROVE  Lost' \subseteq Lost
BY HeldByOthers DEF Lost, Absent

\* A step of a scale-out loses a server only by a fault of its own: one that is
\* made is held, and one that is let go is a member by then.
LEMMA LostByScaleOut ==
  ASSUME Typed, HasBootstrap, NEW m \in Manager, Scale!ScaleOutStep(m)
  PROVE  \/ Lost' \subseteq Lost
         \/ (\E x : Lost' \subseteq Lost \cup {x}) /\ faults' = faults + 1
<1> DEFINE Goal == \/ Lost' \subseteq Lost
                   \/ (\E x : Lost' \subseteq Lost \cup {x}) /\ faults' = faults + 1
           Others == \A k \in Manager \ {m} : pc'[k] = pc[k] /\ scale'[k] = scale[k]
<1> USE DEF Typed
<1>0. Scale!Leave(m) => Others
  BY DEF Scale!Leave
<1>1. CASE Scale!SkipScaleOut(m) \/ Scale!PassGuard(m)
  BY <1>0, <1>1, NothingLost DEF Scale!SkipScaleOut, Scale!PassGuard, Holding
<1>2. CASE Scale!ProvisionFails(m)
  <2>1. Others /\ ~Holding(m) /\ UNCHANGED members
    BY <1>0, <1>2 DEF Scale!ProvisionFails, Holding
  <2>2. CASE UNCHANGED servers
    BY <2>1, <2>2, NothingLost
  <2>3. ASSUME NEW n \in Name, Scale!Failing(1), servers' = servers \cup {n} PROVE Goal
    <3>1. Lost' \subseteq Lost \cup {n}
      BY <2>1, <2>3, HeldByOthers DEF Lost, Absent
    <3> QED BY <2>3, <3>1 DEF Scale!Failing
  <2> QED BY <1>2, <2>2, <2>3 DEF Scale!ProvisionFails, Scale!Unused
<1>3. ASSUME NEW n \in Name, Scale!ProvisionServer(m, n) PROVE Goal
  <2>1. Others /\ ~Holding(m) /\ UNCHANGED members /\ servers' = servers \cup {n}
    BY <1>3 DEF Scale!ProvisionServer, Holding
  <2>2. n \in Held'
    BY <1>3 DEF Scale!ProvisionServer, Held, Holding, ScaleType
  <2> QED BY <2>1, <2>2, HeldByOthers DEF Lost, Absent
<1>4. CASE Scale!RecordServer(m) \/ Scale!RecordFails(m)
  <2>1. PICK b \in BOOLEAN : Scale!AfterRecord(m, b)
    BY <1>4 DEF Scale!RecordServer, Scale!RecordFails
  <2>2. Others /\ Holding(m)' /\ scale'[m].name = scale[m].name
    BY <2>1 DEF Scale!AfterRecord, Holding, ScaleType
  <2>3. UNCHANGED <<members, servers>>
    BY <1>4 DEF Scale!RecordServer, Scale!RecordFails
  <2>4. scale[m].name \in Held'
    BY <2>2 DEF Held
  <2> QED BY <2>2, <2>3, <2>4, HeldByOthers DEF Lost, Absent
<1>5. CASE Scale!BootstrapReady(m)
  <2>1. PICK b \in BOOLEAN : Scale!Bootstrapped(m, b)
    BY <1>5 DEF Scale!BootstrapReady
  <2>2. Others
    BY <1>0, <2>1 DEF Scale!Bootstrapped
  <2>3. \A n \in Name : members'[n] = "absent" => members[n] = "absent" /\ n # scale[m].name
    BY <1>5 DEF Scale!BootstrapReady, Scale!Join
  <2>4. UNCHANGED servers
    BY <1>5 DEF Scale!BootstrapReady
  <2> QED BY <2>2, <2>3, <2>4, HeldByOthers DEF Lost, Absent
<1>6. CASE Scale!BootstrapFails(m)
  <2>1. PICK b \in BOOLEAN : Scale!Bootstrapped(m, b)
    BY <1>6 DEF Scale!BootstrapFails
  <2>2. Others
    BY <1>0, <2>1 DEF Scale!Bootstrapped
  <2>3. \A n \in Name : members'[n] = "absent" => members[n] = "absent"
    BY <1>6 DEF Scale!BootstrapFails, Scale!Join
  <2>4. UNCHANGED servers /\ faults' = faults + 1
    BY <1>6 DEF Scale!BootstrapFails, Scale!Failing
  <2>5. Lost' \subseteq Lost \cup {scale[m].name}
    BY <2>2, <2>3, <2>4, HeldByOthers DEF Lost, Absent
  <2> QED BY <2>4, <2>5
<1>7. CASE Scale!FinishScaleOut(m) \/ Scale!FinishFails(m)
  BY <1>0, <1>7, NothingLost DEF Scale!FinishScaleOut, Scale!FinishFails, Holding
<1>8. QED
  BY <1>1, <1>2, <1>3, <1>4, <1>5, <1>6, <1>7 DEF Scale!ScaleOutStep

\* No step of a pass loses a server without a fault.
LEMMA LostInPass ==
  ASSUME IsFiniteSet(Name), Typed, HasBootstrap, NEW m \in Manager, PassStep(m)
  PROVE  /\ UNCHANGED changes /\ FaultsMore
         /\ \/ Lost' \subseteq Lost
            \/ (\E x : Lost' \subseteq Lost \cup {x}) /\ faults' = faults + 1
<1> DEFINE Quiet == /\ UNCHANGED <<members, changes, servers, scale>> /\ FaultsMore
                    /\ ~Holding(m) /\ \A k \in Manager \ {m} : pc'[k] = pc[k]
<1>0. Quiet => UNCHANGED changes /\ FaultsMore /\ Lost' \subseteq Lost
  BY NothingLost
<1> USE DEF Typed
<1>1. CASE StartPass(m) \/ NodesSynced(m) \/ StartScheduling(m) \/ StartScaleOut(m)
  <2>1. Quiet
    BY <1>1, FaultsGrow DEF StartPass, NodesSynced, StartScheduling, StartScaleOut, Holding,
       locals, world
  <2> QED BY <1>0, <2>1
<1>2. CASE SyncNodes(m)
  <2>1. Quiet
    BY <1>2, NodeSyncFrame DEF SyncNodes, Holding, Moves, world
  <2> QED BY <1>0, <2>1
<1>3. CASE SyncInstances(m)
  <2>1. Quiet
    BY <1>3, InstanceSyncFrame DEF SyncInstances, Holding, Moves
  <2> QED BY <1>0, <2>1
<1>4. CASE ScheduleInstances(m)
  <2>1. Quiet
    BY <1>4, PlacementFrame DEF ScheduleInstances, Holding, Moves
  <2> QED BY <1>0, <2>1
<1>5. CASE ExecuteScaleOut(m)
  BY <1>5, ScaleOutFrame, LostByScaleOut DEF ExecuteScaleOut
<1>6. QED
  BY <1>1, <1>2, <1>3, <1>4, <1>5 DEF PassStep

\* What the counters grow by, their sum grows by.
LEMMA SumGrows ==
  ASSUME NEW a \in Int, NEW b \in Int, NEW c \in Int, a <= c
  PROVE  a + b <= c + b
OBVIOUS

\* And so for every step: a crash is a fault, a departure is a change.
LEMMA TracedStep ==
  ASSUME IsFiniteSet(Name), HasBootstrap, Typed, Traced, [Next]_vars
  PROVE  Traced'
<1>0. faults \in Int /\ changes \in Int
  BY DEF Typed
<1>1. ASSUME NEW m \in Manager, PassStep(m) PROVE Traced'
  <2>1. /\ UNCHANGED changes /\ FaultsMore
        /\ \/ Lost' \subseteq Lost
           \/ (\E x : Lost' \subseteq Lost \cup {x}) /\ faults' = faults + 1
    BY <1>1, LostInPass
  <2>2. faults' \in Int /\ changes' \in Int /\ faults <= faults' /\ changes' = changes
    BY <1>0, <2>1 DEF FaultsMore
  <2>3. faults + changes <= faults' + changes'
    BY <1>0, <2>2, SumGrows
  <2>4. faults' = faults + 1 => faults + changes + 1 <= faults' + changes'
    BY <1>0, <2>1
  <2> QED BY <1>0, <2>1, <2>2, <2>3, <2>4, TracedKept
<1>2. ASSUME NEW m \in Manager, Crash(m) PROVE Traced'
  <2>1. /\ UNCHANGED <<members, changes, servers>> /\ faults' = faults + 1
        /\ \A k \in Manager \ {m} : pc'[k] = pc[k] /\ scale'[k] = scale[k]
    BY <1>2 DEF Crash, Failing, Typed, world
  <2>2. Lost' \subseteq Lost \cup {scale[m].name}
    BY <2>1, HeldByOthers DEF Lost, Absent
  <2>3. faults' \in Int /\ changes' \in Int
    BY <1>0, <2>1
  <2> QED BY <1>0, <2>1, <2>2, <2>3, TracedKept
<1>3. CASE LXDChanges
  <2>1. PICK n \in Name : MemberChange(n, servers \cup Seed) /\ UNCHANGED <<locals, world>>
    BY <1>3 DEF LXDChanges
  <2>2. /\ changes' = changes + 1 /\ UNCHANGED <<pc, faults, servers, scale>>
        /\ \A k \in Name \ {n} : members'[k] = members[k]
    BY <2>1 DEF MemberChange, Typed, locals, world
  <2>3. Lost' \subseteq Lost \cup {n}
    BY <2>2 DEF Lost, Absent, Held, Holding, Typed
  <2>4. faults' \in Int /\ changes' \in Int
    BY <1>0, <2>2
  <2> QED BY <1>0, <2>2, <2>3, <2>4, TracedKept
<1>4. CASE InstancesChange \/ UNCHANGED vars
  <2>1. UNCHANGED <<members, pc, faults, servers, scale>>
    BY <1>4 DEF InstancesChange, Insts!HostedChange, vars, shared, world, locals
  <2>2. changes' = changes \/ changes' = changes + 1
    BY <1>4 DEF InstancesChange, Insts!HostedChange, vars, shared, world, locals
  <2>3. Lost' \subseteq Lost
    BY <2>1 DEF Lost, Absent, Held, Holding
  <2>4. faults' \in Int /\ changes' \in Int
    BY <1>0, <2>1, <2>2
  <2>5. faults + changes <= faults' + changes'
    BY <1>0, <2>1, <2>2
  <2> QED BY <1>0, <2>3, <2>4, <2>5, TracedKept
<1>5. QED
  BY <1>1, <1>2, <1>3, <1>4 DEF Next

\* orchestrator.go:347-349: with the workflow that waits for the join, however many
\* managers find capacity missing and whatever fails, the servers that are no member
\* are no more than the managers, the faults and the departures together.
THEOREM AttemptsAreBounded ==
  ASSUME IsFiniteSet(Name), HasBootstrap
  PROVE  Spec => []OneAttemptAtATime
<1>1. Init => Typed /\ Traced
  <2>1. ASSUME Init PROVE Lost = {} /\ faults + changes = 0
    BY <2>1 DEF Init, Lost, Absent
  <2> QED BY <2>1, InitTyped, FS_EmptySet DEF Traced
<1>2. Typed /\ Traced /\ [Next]_vars => (Typed /\ Traced)'
  BY TypedStep, TracedStep
<1>3. Typed /\ Traced => OneAttemptAtATime
  BY TracedBounds DEF Typed
<1> QED BY <1>1, <1>2, <1>3, PTL DEF Spec

-----------------------------------------------------------------------------
(* The rows of both tables, with any number of managers.                    *)

\* No row of the node table goes away.
RowsStay == Rows(nodes) \subseteq Rows(nodes')

\* Writing a row that is not absent drops none, and adds a provisioning one only if it
\* is itself provisioning.
LEMMA NodeWritten ==
  ASSUME nodes \in [Name -> Row], NEW n, NEW row, row.status # "absent", WriteNode(n, row)
  PROVE  /\ RowsStay
         /\ row.status # "provisioning" => WithStatus("provisioning")' \subseteq WithStatus("provisioning")
BY DEF WriteNode, RowsStay, Rows, WithStatus

\* A node sync drops no row and leaves no new one provisioning.
LEMMA SyncRowsStay ==
  ASSUME Typed, NEW m \in Manager, Sync!SyncStep(m)
  PROVE  RowsStay /\ WithStatus("provisioning")' \subseteq WithStatus("provisioning")
<1>1. CASE UNCHANGED nodes
  BY <1>1 DEF RowsStay, WithStatus
<1>2. ASSUME NEW n \in Name, SyncWrites(m, n)
      PROVE  RowsStay /\ WithStatus("provisioning")' \subseteq WithStatus("provisioning")
  <2>1. PICK row \in {Sync!Upserted(m, n), Sync!Offline(m, n)} : WriteNode(n, row)
    BY <1>2 DEF SyncWrites
  <2>2. row.status \in {"online", "draining", "offline"}
    BY <2>1, SyncRowsTyped DEF Typed, Sync!MapLXDStatus
  <2> QED BY <2>1, <2>2, NodeWritten DEF Typed
<1> QED BY <1>1, <1>2, OneNodeWrite

\* Nor does a scale-out drop one.
LEMMA ScaleOutRowsStay ==
  ASSUME Typed, NEW m \in Manager, Scale!ScaleOutStep(m)
  PROVE  RowsStay
<1>1. \/ UNCHANGED nodes
      \/ Scale!WriteNode(scale[m].name, Scale!ScaleOutRow("provisioning"))
      \/ Scale!WriteNode(scale[m].name, Scale!Outcome(m))
  BY DEF Scale!ScaleOutStep, Scale!SkipScaleOut, Scale!PassGuard, Scale!ProvisionFails,
     Scale!ProvisionServer, Scale!RecordServer, Scale!RecordFails, Scale!BootstrapReady,
     Scale!BootstrapFails, Scale!FinishScaleOut, Scale!FinishFails, Scale!LostWrite
<1>2. /\ Scale!ScaleOutRow("provisioning").status # "absent"
      /\ Scale!Outcome(m).status # "absent"
  BY DEF Scale!ScaleOutRow, Scale!Outcome
<1>3. CASE UNCHANGED nodes
  BY <1>3 DEF RowsStay
<1> QED BY <1>1, <1>2, <1>3, NodeWritten DEF Typed, Scale!WriteNode, WriteNode

\* Nobody else writes the node table.
LEMMA NodesWritten ==
  ASSUME Typed, [Next]_vars
  PROVE  \/ UNCHANGED nodes
         \/ \E m \in Manager : SyncNodes(m) \/ ExecuteScaleOut(m)
<1>1. ASSUME NEW m \in Manager, SyncInstances(m) PROVE UNCHANGED nodes
  BY <1>1, InstanceSyncFrame DEF SyncInstances, Typed
<1>2. ASSUME NEW m \in Manager, ScheduleInstances(m) PROVE UNCHANGED nodes
  BY <1>2, PlacementFrame DEF ScheduleInstances, Typed
<1>3. ASSUME NEW m \in Manager,
             StartPass(m) \/ NodesSynced(m) \/ StartScheduling(m) \/ StartScaleOut(m) \/ Crash(m)
      PROVE  UNCHANGED nodes
  BY <1>3 DEF StartPass, NodesSynced, StartScheduling, StartScaleOut, Crash
<1>4. CASE LXDChanges \/ InstancesChange \/ UNCHANGED vars
  BY <1>4 DEF LXDChanges, MemberChange, InstancesChange, Insts!HostedChange, vars, shared
<1> QED BY <1>1, <1>2, <1>3, <1>4 DEF Next, PassStep

\* So no step of the loop drops a row of the node table.
LEMMA RowsStayStep ==
  ASSUME Typed, [Next]_vars
  PROVE  RowsStay
<1>1. CASE UNCHANGED nodes
  BY <1>1 DEF RowsStay
<1> QED BY <1>1, NodesWritten, SyncRowsStay, ScaleOutRowsStay DEF SyncNodes, ExecuteScaleOut

\* The node lists that the managers took, and the nodes of the instances, are of rows
\* that are still there.
Located ==
  /\ InstancesOnRows
  /\ \A m \in Manager : isync[m].located \subseteq Rows(nodes) /\ Rows(place[m].nodes) \subseteq Rows(nodes)

\* What a step of the instance sync makes of them.
LEMMA SyncLocates ==
  ASSUME Typed, NEW m \in Manager, Insts!SyncStep(m)
  PROVE  /\ \A i \in Inst : instances'[i].node \in {instances[i].node, NoName} \cup isync[m].located
         /\ \A k \in Manager \ {m} : isync'[k] = isync[k]
         /\ isync'[m].located \subseteq isync[m].located \cup Rows(nodes)
<1>0. IP!LocalsOK /\ IP!SyncStep(m) /\ isync \in [Manager -> IP!LocalType]
  BY InstanceTypesAre, InstanceSyncStepIs DEF Typed, IP!LocalsOK, IP!LocalType
<1>1. \A i \in Inst : instances'[i].node \in {instances[i].node, NoName} \cup isync[m].located
  <2>1. CASE UNCHANGED instances
    BY <2>1
  <2>2. ASSUME NEW j \in Inst, IP!Writes(m, j), NEW i \in Inst
        PROVE  instances'[i].node \in {instances[i].node, NoName} \cup isync[m].located
    <3>1. /\ IP!Recorded(m, j).node \in {NoName} \cup isync[m].located
          /\ IP!Unknown(m, j).node = NoName
      BY <1>0, InstancesAssumed, IP!RowsTyped DEF IP!NodeOf, IP!NoName, NoName
    <3>2. PICK row \in {IP!Recorded(m, j), IP!Unknown(m, j)} : instances' = [instances EXCEPT ![j] = row]
      BY <2>2 DEF IP!Writes, IP!WriteInst
    <3>3. instances \in [Inst -> InstRow]
      BY TypedIs
    <3> QED BY <3>1, <3>2, <3>3
  <2> QED BY <1>0, <2>1, <2>2, InstancesAssumed, IP!OneWrite
<1>2. CASE Insts!FetchInstances(m) \/ Insts!ListTracked(m) \/ Insts!InstancesSynced(m)
  <2>1. /\ \A k \in Manager \ {m} : isync'[k] = isync[k]
        /\ isync'[m].located = isync[m].located
    BY <1>0, <1>2 DEF Insts!FetchInstances, Insts!ListTracked, Insts!InstancesSynced, IP!LocalType
  <2> QED BY <1>1, <2>1
<1>3. CASE Insts!ListLocations(m)
  <2>1. /\ \A k \in Manager \ {m} : isync'[k] = isync[k]
        /\ isync'[m].located \subseteq Rows(nodes)
    BY <1>0, <1>3 DEF Insts!ListLocations, IP!LocalType, Insts!Rows, Rows
  <2> QED BY <1>1, <2>1
<1>4. CASE Insts!ListingFails(m) \/ \E i \in Inst : Insts!RecordFails(m, i)
  <2>1. isync' = [isync EXCEPT ![m] = Insts!NothingListed]
    BY <1>4 DEF Insts!ListingFails, Insts!RecordFails
  <2>2. \A k \in Manager \ {m} : isync'[k] = isync[k]
    BY <1>0, <2>1
  <2>3. isync'[m].located = {}
    BY <1>0, <2>1 DEF Insts!NothingListed
  <2> QED BY <1>1, <2>2, <2>3
<1>5. ASSUME NEW i \in Inst,
             Insts!RecordInstance(m, i) \/ Insts!MarkUnknown(m, i) \/ Insts!MarkUnknownFails(m, i)
      PROVE  (\A k \in Manager \ {m} : isync'[k] = isync[k]) /\ isync'[m].located = isync[m].located
  BY <1>0, <1>5 DEF Insts!RecordInstance, Insts!MarkUnknown, Insts!MarkUnknownFails, IP!LocalType
<1>6. QED
  BY <1>1, <1>2, <1>3, <1>4, <1>5 DEF Insts!SyncStep

\* And what a step of scheduleCluster does.
LEMMA PlacementLocates ==
  ASSUME IsFiniteSet(Name), Typed, NEW m \in Manager, Plan!PlacementStep(m)
  PROVE  /\ \A i \in Inst : instances'[i].node \in {instances[i].node} \cup Rows(place[m].nodes)
         /\ \A k \in Manager \ {m} : place'[k] = place[k]
         /\ Rows(place'[m].nodes) \subseteq Rows(place[m].nodes) \cup Rows(nodes)
<1>0. /\ PP!PlacementStep(m) /\ place \in PP!PlaceType /\ instances \in [Inst -> PP!InstRow]
  BY PlacementStepIs, TypesAre, TypedIs DEF Typed
<1>1. CASE PP!ListNodesToSchedule(m) \/ PP!ListInstancesToSchedule(m) \/ PP!ScheduleReturns(m)
  BY <1>0, <1>1 DEF PP!ListNodesToSchedule, PP!ListInstancesToSchedule, PP!ScheduleReturns, PP!PlaceType
<1>2. CASE PP!ListFails(m)
  <2>1. place' = [place EXCEPT ![m] = PP!NotScheduling] /\ UNCHANGED instances
    BY <1>2 DEF PP!ListFails
  <2>2. place'[m].nodes = [n \in Name |-> PP!NoRow]
    BY <1>0, <2>1 DEF PP!NotScheduling, PP!PlaceType
  <2>3. Rows(place'[m].nodes) = {}
    BY <2>2 DEF Rows, PP!NoRow
  <2> QED BY <1>0, <2>1, <2>3 DEF PP!PlaceType
<1>3. ASSUME NEW i \in Inst, PP!PlaceInstance(m, i) \/ PP!PlaceFails(m, i) \/ PP!NoCapacity(m, i)
      PROVE  /\ \A j \in Inst : instances'[j].node \in {instances[j].node} \cup Rows(place[m].nodes)
             /\ \A k \in Manager \ {m} : place'[k] = place[k]
             /\ place'[m].nodes = place[m].nodes
  <2>1. /\ \A k \in Manager \ {m} : place'[k] = place[k]
        /\ place'[m].nodes = place[m].nodes
    BY <1>0, <1>3 DEF PP!PlaceInstance, PP!PlaceFails, PP!NoCapacity, PP!PlaceType
  <2>2. CASE UNCHANGED instances
    BY <2>1, <2>2
  <2>3. CASE PP!Chosen(m, i) # NoName /\ PP!WriteInst(i, PP!PlacedRow(m, i))
    <3>1. PP!Chosen(m, i) \in PP!Eligible(place[m].nodes, place[m].instances, i)
      BY <2>3, PlacementAssumed, PP!ChosenFits DEF PP!NoName, NoName
    <3>2. PP!Chosen(m, i) \in Rows(place[m].nodes)
      BY <3>1 DEF PP!Eligible, Rows
    <3>3. place[m].instances[i] \in PP!InstRow
      BY <1>0 DEF PP!PlaceType
    <3>4. PP!PlacedRow(m, i).node = PP!Chosen(m, i)
      BY <3>3 DEF PP!PlacedRow, PP!InstRow
    <3>5. instances' = [instances EXCEPT ![i] = PP!PlacedRow(m, i)]
      BY <2>3 DEF PP!WriteInst
    <3> QED BY <1>0, <2>1, <3>2, <3>4, <3>5
  <2> QED BY <1>3, <2>2, <2>3 DEF PP!PlaceInstance, PP!PlaceFails, PP!NoCapacity, PP!LostInst,
       PP!NoName, NoName
<1>4. QED
  BY <1>0, <1>1, <1>2, <1>3 DEF PP!PlacementStep

\* Every step keeps the lists and the instances on rows that are there.
LEMMA LocatedStep ==
  ASSUME IsFiniteSet(Name), Typed, Located, [Next]_vars
  PROVE  Located'
<1>0. RowsStay
  BY RowsStayStep
<1> DEFINE Found == \A k \in Manager :
             isync'[k].located \subseteq Rows(nodes) /\ Rows(place'[k].nodes) \subseteq Rows(nodes)
<1>1. ASSUME Found, \A i \in Inst : instances'[i].node \in Rows(nodes) \cup {NoName}
      PROVE  Located'
  BY <1>0, <1>1 DEF Located, InstancesOnRows, RowsStay
<1>2. \A i \in Inst : instances[i].node \in Rows(nodes) \cup {NoName}
  BY DEF Located, InstancesOnRows
<1>3. ASSUME UNCHANGED <<instances, isync, place>> PROVE Located'
  BY <1>1, <1>2, <1>3 DEF Located
<1>4. ASSUME NEW m \in Manager, SyncInstances(m) PROVE Located'
  <2>1. UNCHANGED place /\ Insts!SyncStep(m)
    BY <1>4 DEF SyncInstances
  <2>2. Found
    BY <2>1, SyncLocates DEF Located
  <2>3. \A i \in Inst : instances'[i].node \in Rows(nodes) \cup {NoName}
    BY <1>2, <2>1, SyncLocates DEF Located
  <2> QED BY <1>1, <2>2, <2>3
<1>5. ASSUME NEW m \in Manager, ScheduleInstances(m) PROVE Located'
  <2>1. UNCHANGED isync /\ Plan!PlacementStep(m)
    BY <1>5 DEF ScheduleInstances
  <2>2. Found
    BY <2>1, PlacementLocates DEF Located
  <2>3. \A i \in Inst : instances'[i].node \in Rows(nodes) \cup {NoName}
    BY <1>2, <2>1, PlacementLocates DEF Located
  <2> QED BY <1>1, <2>2, <2>3
<1>6. ASSUME NEW m \in Manager, UNCHANGED instances,
             isync' = isync \/ isync' = [isync EXCEPT ![m] = Insts!NothingListed],
             place' = place \/ place' = [place EXCEPT ![m] = Plan!NotScheduling]
      PROVE  Located'
  <2>1. Insts!NothingListed.located = {} /\ Rows(Plan!NotScheduling.nodes) = {}
    BY DEF Insts!NothingListed, Plan!NotScheduling, Plan!NoRow, Rows
  <2>2. isync \in [Manager -> IP!LocalType] /\ place \in [Manager -> PlaceLocal]
    BY InstanceTypesAre DEF Typed, IP!LocalsOK, IP!LocalType, PlaceType
  <2>3. Found
    BY <1>6, <2>1, <2>2 DEF Located
  <2> QED BY <1>1, <1>2, <1>6, <2>3
<1>7. ASSUME NEW m \in Manager, StartScheduling(m) \/ StartScaleOut(m) \/ Crash(m) PROVE Located'
  BY <1>6, <1>7 DEF StartScheduling, StartScaleOut, Crash, world
<1>8. ASSUME NEW m \in Manager, StartPass(m) \/ SyncNodes(m) \/ NodesSynced(m) \/ ExecuteScaleOut(m)
      PROVE  UNCHANGED <<instances, isync, place>>
  BY <1>8 DEF StartPass, SyncNodes, NodesSynced, ExecuteScaleOut, locals, world
<1>9. CASE LXDChanges \/ InstancesChange \/ UNCHANGED vars
  <2>1. UNCHANGED <<instances, isync, place>>
    BY <1>9 DEF LXDChanges, InstancesChange, Insts!HostedChange, vars, locals, world
  <2> QED BY <1>3, <2>1
<1>10. QED
  BY <1>3, <1>4, <1>5, <1>7, <1>8, <1>9 DEF Next, PassStep

\* 0001_initial_schema.up.sql:92, with either store and any number of managers: the
\* node of an instance is always one of the node table.
THEOREM InstancesAreOnRows ==
  ASSUME IsFiniteSet(Name)
  PROVE  Spec => []InstancesOnRows
<1>1. Init => Located
  <2>1. ASSUME Init
        PROVE  /\ \A i \in Inst : instances[i].node = NoName
               /\ \A m \in Manager : isync[m].located = {} /\ Rows(place[m].nodes) = {}
    BY <2>1 DEF Init, WaitingRow, NoInst, Insts!NothingListed, Plan!NotScheduling, Plan!NoRow, Rows
  <2> QED BY <2>1 DEF Located, InstancesOnRows
<1>2. Typed /\ Located /\ [Next]_vars => Typed' /\ Located'
  BY TypedStep, LocatedStep
<1>3. Located => InstancesOnRows
  BY DEF Located
<1> QED BY <1>1, <1>2, <1>3, InitTyped, PTL DEF Spec

-----------------------------------------------------------------------------
(* The guard of the scale-outs, with any number of managers.                *)

\* Rows and tickets are counted as in the proofs of a scale-out.
LEMMA TicketsAre ==
  /\ SQ!Row = Row
  /\ SQ!Provisioning = WithStatus("provisioning")
  /\ SQ!Provisioning' = WithStatus("provisioning")'
  /\ SQ!ProvisioningBounded => Scale!ProvisioningBounded
<1>1. SQ!Row = Row
  BY DEF SQ!Row, Row, SQ!NodeStatus, NodeStatus
<1>2. /\ SQ!Provisioning = WithStatus("provisioning")
      /\ SQ!Provisioning' = WithStatus("provisioning")'
  BY DEF SQ!Provisioning, SQ!WithStatus, WithStatus
<1>3. SQ!ProvisioningBounded => Scale!ProvisioningBounded
  BY DEF SQ!ProvisioningBounded, Scale!ProvisioningBounded, SQ!WithStatus,
         Scale!WithStatus, SQ!Cardinality, Scale!Cardinality, SQ!IsFiniteSet, Scale!IsFiniteSet
<1> QED BY <1>1, <1>2, <1>3

\* Only a scale-out lets a manager past the guard.
LEMMA OthersNotPending ==
  ASSUME IsFiniteSet(Name), Typed, [Next]_vars, \A m \in Manager : ~ExecuteScaleOut(m)
  PROVE  SQ!Pending' \subseteq SQ!Pending
<1> SUFFICES ASSUME NEW k \in Manager, pc'[k] \in {"provision", "record"} PROVE pc'[k] = pc[k]
  BY DEF SQ!Pending
<1>0. pc \in [Manager -> Step]
  BY DEF Typed
<1>1. ASSUME NEW m \in Manager, NEW From, NEW To,
             Moves(m, From, To), {"provision", "record"} \cap To = {}
      PROVE  pc'[k] = pc[k]
  BY <1>0, <1>1 DEF Moves
<1>2. ASSUME NEW m \in Manager, SyncNodes(m) \/ SyncInstances(m) \/ ScheduleInstances(m)
      PROVE  pc'[k] = pc[k]
  <2>1. \/ Moves(m, {"members", "existing", "upsert"}, {"existing", "upsert", "done"})
        \/ Moves(m, {"hosted", "locate", "tracked", "track"}, {"locate", "tracked", "track", "recorded"})
        \/ Moves(m, {"schedule", "list", "loop"}, {"list", "loop", "scheduled"})
    BY <1>2, NodeSyncFrame, InstanceSyncFrame, PlacementFrame
       DEF SyncNodes, SyncInstances, ScheduleInstances, Typed
  <2> QED BY <1>1, <2>1
<1>3. ASSUME NEW m \in Manager,
             StartPass(m) \/ NodesSynced(m) \/ StartScheduling(m) \/ StartScaleOut(m) \/ Crash(m)
      PROVE  pc'[k] = pc[k]
  BY <1>0, <1>3 DEF StartPass, NodesSynced, AfterNodeSync, StartScheduling, StartScaleOut,
     AfterScheduling, Crash
<1>4. CASE LXDChanges \/ InstancesChange \/ UNCHANGED vars
  BY <1>4 DEF LXDChanges, MemberChange, InstancesChange, Insts!HostedChange, vars, shared
<1> QED BY <1>2, <1>3, <1>4 DEF Next, PassStep

\* So every step of the loop keeps the tickets, the node syncs included.
LEMMA TicketsStep ==
  ASSUME IsFiniteSet(Name), Typed, SQ!Tickets, [Next]_vars
  PROVE  SQ!Tickets'
<1>1. ASSUME NEW m \in Manager, ExecuteScaleOut(m) PROVE SQ!Tickets'
  <2>1. SQ!ScaleOutStep(m)
    BY <1>1, ScaleOutStepIs DEF ExecuteScaleOut
  <2>2. nodes \in [Name -> SQ!Row] /\ pc \in [Manager -> Step]
    BY TicketsAre DEF Typed
  <2> QED BY <2>1, <2>2, ScaleOutAssumed, SQ!ScaleOutTickets
<1>2. CASE \A m \in Manager : ~ExecuteScaleOut(m)
  <2>1. SQ!Pending' \subseteq SQ!Pending
    BY <1>2, OthersNotPending
  <2>2. WithStatus("provisioning")' \subseteq WithStatus("provisioning")
    <3>1. CASE UNCHANGED nodes
      BY <3>1 DEF WithStatus
    <3> QED BY <1>2, <3>1, NodesWritten, SyncRowsStay DEF SyncNodes
  <2> QED BY <2>1, <2>2, TicketsAre, ScaleOutAssumed, SQ!TicketsShrink
<1> QED BY <1>1, <1>2

\* orchestrator.go:347-349, for any number of managers whose node syncs write the same
\* rows: no more nodes are provisioning than there are managers.
THEOREM GuardHoldsInLoop ==
  ASSUME IsFiniteSet(Name)
  PROVE  Spec => []Scale!ProvisioningBounded
<1>1. Init => SQ!Tickets
  <2>1. ASSUME Init PROVE SQ!Provisioning = {} /\ SQ!Pending = {}
    BY <2>1 DEF Init, NoRow, SQ!Provisioning, SQ!WithStatus, SQ!Pending
  <2> QED BY <2>1, ScaleOutAssumed, SQ!TicketsInit
<1>2. Typed /\ SQ!Tickets /\ [Next]_vars => Typed' /\ SQ!Tickets'
  BY TypedStep, TicketsStep
<1>3. SQ!Tickets => Scale!ProvisioningBounded
  BY TicketsAre, ScaleOutAssumed, SQ!TicketsBound
<1> QED BY <1>1, <1>2, <1>3, InitTyped, PTL DEF Spec

-----------------------------------------------------------------------------
(* The servers, with any number of managers.                                *)

\* What the proofs of a scale-out say of the servers, they say of those of the loop.
LEMMA ServersAre ==
  /\ SQ!ScaleType = [Manager -> ScaleType]
  /\ SQ!ServersAccounted => Scale!ServersAccounted
<1>1. SQ!ScaleType = [Manager -> ScaleType]
  BY DEF SQ!ScaleType, ScaleType, SQ!NoName, NoName
<1>2. SQ!ServersAccounted => Scale!ServersAccounted
  BY DEF SQ!ServersAccounted, Scale!ServersAccounted, SQ!Unrecorded, Scale!Unrecorded,
         SQ!Cardinality, Scale!Cardinality, SQ!IsFiniteSet, Scale!IsFiniteSet
<1> QED BY <1>1, <1>2

\* A pass names a server, and makes or records one, only in a scale-out.
LEMMA ServersFrame ==
  ASSUME IsFiniteSet(Name), Typed, [Next]_vars,
         \A m \in Manager : ~ExecuteScaleOut(m) /\ ~Crash(m)
  PROVE  /\ UNCHANGED <<servers, scale>> /\ faults' \in Nat /\ faults <= faults'
         /\ \A m \in Manager : pc[m] \in {"record", "bootstrap", "finish"} => pc'[m] = pc[m]
         /\ \A m \in Manager : pc'[m] \in {"record", "bootstrap", "finish"} => pc'[m] = pc[m]
<1> DEFINE Late == {"record", "bootstrap", "finish"}
           Goal == /\ UNCHANGED <<servers, scale>> /\ faults' \in Nat /\ faults <= faults'
                   /\ \A m \in Manager : pc[m] \in Late \/ pc'[m] \in Late => pc'[m] = pc[m]
<1>0. pc \in [Manager -> Step] /\ faults \in Nat
  BY DEF Typed
<1>1. ASSUME NEW m \in Manager, NEW From, NEW To, Moves(m, From, To),
             Late \cap From = {}, Late \cap To = {}
      PROVE  \A k \in Manager : pc[k] \in Late \/ pc'[k] \in Late => pc'[k] = pc[k]
  BY <1>0, <1>1 DEF Moves
<1>2. ASSUME NEW m \in Manager, SyncNodes(m) \/ SyncInstances(m) \/ ScheduleInstances(m)
      PROVE  Goal
  <2>1. /\ FaultsMore
        /\ \/ Moves(m, {"members", "existing", "upsert"}, {"existing", "upsert", "done"})
           \/ Moves(m, {"hosted", "locate", "tracked", "track"}, {"locate", "tracked", "track", "recorded"})
           \/ Moves(m, {"schedule", "list", "loop"}, {"list", "loop", "scheduled"})
    BY <1>2, NodeSyncFrame, InstanceSyncFrame, PlacementFrame
       DEF SyncNodes, SyncInstances, ScheduleInstances, Typed
  <2>2. UNCHANGED <<servers, scale>>
    BY <1>2 DEF SyncNodes, SyncInstances, ScheduleInstances, world
  <2> QED BY <1>1, <2>1, <2>2 DEF FaultsMore
<1>3. ASSUME NEW m \in Manager,
             StartPass(m) \/ NodesSynced(m) \/ StartScheduling(m) \/ StartScaleOut(m)
      PROVE  Goal
  BY <1>0, <1>3 DEF StartPass, NodesSynced, AfterNodeSync, StartScheduling, StartScaleOut,
     AfterScheduling, locals, world
<1>4. CASE LXDChanges \/ InstancesChange \/ UNCHANGED vars
  BY <1>0, <1>4 DEF LXDChanges, MemberChange, InstancesChange, Insts!HostedChange, vars, shared, locals, world
<1> QED BY <1>2, <1>3, <1>4 DEF Next, PassStep

\* Every step of the loop keeps the account of the servers.
LEMMA ServersStep ==
  ASSUME IsFiniteSet(Name), ~SQLStore, Typed, SQ!Named, SQ!Accounted, [Next]_vars
  PROVE  SQ!Named' /\ SQ!Accounted'
<1>0. /\ nodes \in [Name -> SQ!Row] /\ pc \in [Manager -> Step] /\ scale \in SQ!ScaleType
      /\ servers \subseteq Name /\ faults \in Nat
  BY TicketsAre, ServersAre DEF Typed
<1>1. ASSUME NEW m \in Manager, ExecuteScaleOut(m) PROVE SQ!Named' /\ SQ!Accounted'
  <2>1. SQ!ScaleOutStep(m)
    BY <1>1, ScaleOutStepIs DEF ExecuteScaleOut
  <2>2. SQ!Named'
    BY <1>0, <2>1, ScaleOutAssumed, SQ!ScaleOutNames
  <2>3. SQ!Accounted'
    BY <1>0, <2>1, ScaleOutAssumed, SQ!ScaleOutAccounted
  <2> QED BY <2>2, <2>3
<1>2. ASSUME NEW m \in Manager, Crash(m) PROVE SQ!Named' /\ SQ!Accounted'
  <2>1. SQ!Leave(m) /\ UNCHANGED <<nodes, servers>> /\ faults' = faults + 1
    BY <1>2 DEF Crash, Failing, world, SQ!Leave, Scale!NoScaleOut, SQ!NoScaleOut, Scale!NoName, SQ!NoName
  <2>2. SQ!Named'
    BY <1>0, <2>1 DEF SQ!Leave, SQ!Named, SQ!ScaleType
  <2>3. SQ!Accounted'
    BY <1>0, <2>1, ScaleOutAssumed, SQ!CrashAccounted
  <2> QED BY <2>2, <2>3
<1>3. CASE \A m \in Manager : ~ExecuteScaleOut(m) /\ ~Crash(m)
  <2>1. /\ UNCHANGED <<servers, scale>> /\ faults' \in Nat /\ faults <= faults'
        /\ \A m \in Manager : pc[m] \in {"record", "bootstrap", "finish"} => pc'[m] = pc[m]
        /\ \A m \in Manager : pc'[m] \in {"record", "bootstrap", "finish"} => pc'[m] = pc[m]
    BY <1>3, ServersFrame
  <2>2. SQ!Named'
    BY <2>1 DEF SQ!Named
  <2>3. SQ!InHand' = SQ!InHand
    BY <2>1 DEF SQ!InHand
  <2>4. SQ!Unrecorded' \subseteq SQ!Unrecorded
    BY <1>0, <2>1, RowsStayStep DEF SQ!Unrecorded, RowsStay, Rows
  <2>5. SQ!Forgotten' \subseteq SQ!Forgotten
    BY <2>3, <2>4 DEF SQ!Forgotten
  <2> QED BY <1>0, <2>1, <2>2, <2>5, ScaleOutAssumed, SQ!NothingForgotten
<1> QED BY <1>1, <1>2, <1>3

\* orchestrator.go:356-358, with any number of managers on the in-memory store: every
\* server without a record is in the hands of a scale-out, or the trace of a fault.
THEOREM NoServerForgotten ==
  ASSUME IsFiniteSet(Name), ~SQLStore
  PROVE  Spec => []Scale!ServersAccounted
<1>1. Init => SQ!Named /\ SQ!Accounted
  <2>1. ASSUME Init PROVE SQ!Named /\ SQ!Forgotten = {} /\ faults = 0
    BY <2>1 DEF Init, SQ!Named, SQ!Forgotten, SQ!Unrecorded
  <2>2. SQ!Forgotten = {} => SQ!IsFiniteSet(SQ!Forgotten) /\ SQ!Cardinality(SQ!Forgotten) = 0
    BY FS_EmptySet DEF SQ!IsFiniteSet, SQ!Cardinality, IsFiniteSet, Cardinality
  <2> QED BY <2>1, <2>2 DEF SQ!Accounted
<1>2. Typed /\ SQ!Named /\ SQ!Accounted /\ [Next]_vars => Typed' /\ SQ!Named' /\ SQ!Accounted'
  BY TypedStep, ServersStep
<1>3. SQ!Accounted => Scale!ServersAccounted
  BY ServersAre, ScaleOutAssumed, SQ!AccountedBound
<1> QED BY <1>1, <1>2, <1>3, InitTyped, PTL DEF Spec

-----------------------------------------------------------------------------
(* The instance rows, with any number of managers.                          *)

\* While scheduleCluster goes through its list, the copy of each instance it has not
\* reached bears the limits of a row that is still there.
QueueCurrent(m) ==
  pc[m] = "loop" =>
    \A i \in place[m].todo :
      /\ instances[i].status # "absent" /\ place[m].instances[i].status # "absent"
      /\ place[m].instances[i].limited = instances[i].limited

\* Both writers of the table know the limits of what they overwrite.
WritersCurrent ==
  /\ IP!Blank(instances)
  /\ \A m \in Manager : IP!CopiesCurrent(m) /\ QueueCurrent(m)

\* While the rows are kept, a list stays current through a step that adds nothing to it.
LEMMA QueueFrame ==
  ASSUME IP!RowsKept, NEW k \in Manager, place[k].todo \subseteq Inst, QueueCurrent(k),
         pc'[k] = "loop" =>
           /\ pc[k] = "loop" /\ place'[k].todo \subseteq place[k].todo
           /\ \A i \in place'[k].todo : place'[k].instances[i] = place[k].instances[i]
  PROVE  QueueCurrent(k)'
BY DEF QueueCurrent, IP!RowsKept

\* The list of a manager is the one it had, or a new listing.
LEMMA QueueStep ==
  ASSUME Typed, NEW m \in Manager, Plan!PlacementStep(m)
  PROVE  /\ \A k \in Manager \ {m} : place'[k] = place[k] /\ pc'[k] = pc[k]
         /\ pc'[m] # "track"
         /\ pc'[m] = "loop" =>
              \/ /\ pc[m] = "loop" /\ place'[m].todo \subseteq place[m].todo
                 /\ \A i \in place'[m].todo : place'[m].instances[i] = place[m].instances[i]
              \/ /\ UNCHANGED instances /\ place'[m].instances = instances
                 /\ place'[m].todo = {i \in Inst : instances[i].status # "absent" /\ instances[i].node = NoName}
<1>0. pc \in [Manager -> Step] /\ place \in [Manager -> PlaceLocal]
  BY DEF Typed, PlaceType
<1>1. CASE Plan!ListNodesToSchedule(m) \/ Plan!ListFails(m) \/ Plan!ScheduleReturns(m)
  BY <1>0, <1>1 DEF Plan!ListNodesToSchedule, Plan!ListFails, Plan!ScheduleReturns
<1>2. CASE Plan!ListInstancesToSchedule(m)
  BY <1>0, <1>2 DEF Plan!ListInstancesToSchedule, Plan!Waiting, Plan!NoName, NoName, PlaceLocal
<1>3. ASSUME NEW i \in Inst, Plan!PlaceInstance(m, i) \/ Plan!PlaceFails(m, i) \/ Plan!NoCapacity(m, i)
      PROVE  /\ \A k \in Manager \ {m} : place'[k] = place[k] /\ pc'[k] = pc[k]
             /\ pc[m] = "loop" /\ pc'[m] = "loop" /\ place'[m].todo \subseteq place[m].todo
             /\ \A j \in place'[m].todo : place'[m].instances[j] = place[m].instances[j]
  BY <1>0, <1>3 DEF Plan!PlaceInstance, Plan!PlaceFails, Plan!NoCapacity, PlaceLocal
<1>4. QED
  BY <1>1, <1>2, <1>3 DEF Plan!PlacementStep

\* scheduleCluster overwrites rows only with the limits they have, and creates none.
LEMMA PlacementKeepsRows ==
  ASSUME Typed, NEW m \in Manager, IP!Blank(instances), QueueCurrent(m), Plan!PlacementStep(m)
  PROVE  IP!RowsKept /\ IP!Blank(instances)'
<1>0. instances \in [Inst -> InstRow] /\ place \in [Manager -> PlaceLocal]
  BY TypedIs DEF Typed, PlaceType
<1>1. CASE UNCHANGED instances
  BY <1>1 DEF IP!RowsKept, IP!Blank
<1>2. ASSUME NEW i \in Inst, pc[m] = "loop", i \in place[m].todo, Plan!WriteInst(i, Plan!PlacedRow(m, i))
      PROVE  IP!RowsKept /\ IP!Blank(instances)'
  <2> DEFINE row == Plan!PlacedRow(m, i)
  <2>1. place[m].instances[i] \in InstRow
    BY <1>0 DEF PlaceLocal
  <2>2. row.status = place[m].instances[i].status /\ row.limited = place[m].instances[i].limited
    BY <2>1 DEF Plan!PlacedRow, InstRow
  <2>3. row.status # "absent" /\ row.limited = instances[i].limited
    BY <1>2, <2>2 DEF QueueCurrent
  <2>4. instances' = [instances EXCEPT ![i] = row]
    BY <1>2 DEF Plan!WriteInst
  <2> HIDE DEF row
  <2> QED BY <1>0, <2>3, <2>4 DEF IP!RowsKept, IP!Blank, IP!NoInst
<1>3. UNCHANGED instances \/ \E i \in Inst :
        pc[m] = "loop" /\ i \in place[m].todo /\ Plan!WriteInst(i, Plan!PlacedRow(m, i))
  BY DEF Plan!PlacementStep, Plan!ListNodesToSchedule, Plan!ListInstancesToSchedule, Plan!ListFails,
     Plan!ScheduleReturns, Plan!PlaceInstance, Plan!PlaceFails, Plan!NoCapacity, Plan!LostInst
<1> QED BY <1>1, <1>2, <1>3

\* Every step keeps the rows, and what their writers know of them.
LEMMA WritersStep ==
  ASSUME IsFiniteSet(Name), Typed, WritersCurrent, [Next]_vars
  PROVE  IP!RowsKept /\ WritersCurrent'
<1>0. /\ pc \in [Manager -> Step] /\ place \in [Manager -> PlaceLocal]
      /\ isync \in [Manager -> IP!LocalType] /\ IP!LocalsOK
      /\ \A m \in Manager : place[m].todo \subseteq Inst
  BY InstanceTypesAre DEF Typed, PlaceType, PlaceLocal, IP!LocalsOK, IP!LocalType
<1>1. ASSUME UNCHANGED instances,
             \A k \in Manager :
               /\ pc'[k] = "track" => pc[k] = "track" /\ isync'[k] = isync[k]
               /\ pc'[k] = "loop" => pc[k] = "loop" /\ place'[k] = place[k]
      PROVE  IP!RowsKept /\ WritersCurrent'
  <2>1. IP!RowsKept /\ IP!Blank(instances)'
    BY <1>1 DEF IP!RowsKept, IP!Blank, WritersCurrent
  <2>2. \A k \in Manager : IP!CopiesCurrent(k)'
    BY <1>1, <2>1, InstancesAssumed, IP!CopiesFrame DEF WritersCurrent
  <2>3. \A k \in Manager : QueueCurrent(k)'
    BY <1>0, <1>1, <2>1, QueueFrame DEF WritersCurrent
  <2> QED BY <2>1, <2>2, <2>3 DEF WritersCurrent
<1>2. ASSUME NEW m \in Manager, SyncInstances(m) PROVE IP!RowsKept /\ WritersCurrent'
  <2>1. IP!SyncStep(m) /\ UNCHANGED place
    BY <1>2, InstanceSyncStepIs DEF SyncInstances
  <2>2. IP!RowsKept /\ IP!Blank(instances)'
    BY <1>0, <2>1, InstancesAssumed, IP!SyncKeepsRows DEF WritersCurrent
  <2>3. \A k \in Manager : IP!CopiesCurrent(k)'
    BY <1>0, <2>1, <2>2, InstancesAssumed, IP!CopiesStay DEF WritersCurrent
  <2>4. \A k \in Manager : pc'[k] = "loop" => pc[k] = "loop"
    BY <1>0, <1>2, InstanceSyncFrame DEF SyncInstances, Typed, Moves
  <2>5. \A k \in Manager : QueueCurrent(k)'
    BY <1>0, <2>1, <2>2, <2>4, QueueFrame DEF WritersCurrent
  <2> QED BY <2>2, <2>3, <2>5 DEF WritersCurrent
<1>3. ASSUME NEW m \in Manager, ScheduleInstances(m) PROVE IP!RowsKept /\ WritersCurrent'
  <2>1. Plan!PlacementStep(m) /\ UNCHANGED isync
    BY <1>3 DEF ScheduleInstances
  <2>2. IP!RowsKept /\ IP!Blank(instances)'
    BY <2>1, PlacementKeepsRows DEF WritersCurrent
  <2>3. \A k \in Manager : IP!CopiesCurrent(k)'
    <3>1. \A k \in Manager : pc'[k] = "track" => pc[k] = "track"
      BY <2>1, QueueStep
    <3> QED BY <2>1, <2>2, <3>1, InstancesAssumed, IP!CopiesFrame DEF WritersCurrent
  <2>4. ASSUME NEW k \in Manager PROVE QueueCurrent(k)'
    <3>1. CASE UNCHANGED instances /\ place'[k].instances = instances
               /\ place'[k].todo = {i \in Inst : instances[i].status # "absent" /\ instances[i].node = NoName}
      BY <3>1 DEF QueueCurrent
    <3>2. CASE pc'[k] = "loop" =>
                 /\ pc[k] = "loop" /\ place'[k].todo \subseteq place[k].todo
                 /\ \A i \in place'[k].todo : place'[k].instances[i] = place[k].instances[i]
      BY <1>0, <2>2, <3>2, QueueFrame DEF WritersCurrent
    <3> QED BY <2>1, <3>1, <3>2, QueueStep
  <2> QED BY <2>2, <2>3, <2>4 DEF WritersCurrent
<1>4. ASSUME NEW m \in Manager, SyncNodes(m) \/ ExecuteScaleOut(m)
      PROVE  IP!RowsKept /\ WritersCurrent'
  <2>1. UNCHANGED <<instances, isync, place>>
    BY <1>4 DEF SyncNodes, ExecuteScaleOut, world
  <2>2. \/ Moves(m, {"members", "existing", "upsert"}, {"existing", "upsert", "done"})
        \/ Moves(m, {"guard", "provision", "record", "bootstrap", "finish"},
                    {"provision", "record", "bootstrap", "finish", "idle"})
    BY <1>4, NodeSyncFrame, ScaleOutFrame DEF SyncNodes, ExecuteScaleOut, Typed
  <2>3. \A k \in Manager : pc'[k] \in {"track", "loop"} => pc'[k] = pc[k]
    BY <1>0, <2>2 DEF Moves
  <2> QED BY <1>1, <2>1, <2>3
<1>5. ASSUME NEW m \in Manager,
             StartPass(m) \/ NodesSynced(m) \/ StartScheduling(m) \/ StartScaleOut(m) \/ Crash(m)
      PROVE  IP!RowsKept /\ WritersCurrent'
  <2>1. /\ UNCHANGED instances
        /\ \E s \in {"members", "hosted", "schedule", "guard", "idle"} : pc' = [pc EXCEPT ![m] = s]
        /\ \A k \in Manager \ {m} : isync'[k] = isync[k] /\ place'[k] = place[k]
    BY <1>0, <1>5 DEF StartPass, NodesSynced, AfterNodeSync, StartScheduling, StartScaleOut,
       AfterScheduling, Crash, locals, world
  <2> QED BY <1>0, <1>1, <2>1
<1>6. CASE LXDChanges \/ InstancesChange \/ UNCHANGED vars
  <2>1. UNCHANGED <<pc, instances, isync, place>>
    BY <1>6 DEF LXDChanges, MemberChange, InstancesChange, Insts!HostedChange, vars, shared, locals, world
  <2> QED BY <1>1, <2>1
<1>7. QED
  BY <1>2, <1>3, <1>4, <1>5, <1>6 DEF Next, PassStep

\* instance_sync.go:141-144, with any number of managers that sync and place at the same
\* time: no row of an instance is lost, and none loses its limits.
THEOREM InstancesAreKept ==
  ASSUME IsFiniteSet(Name)
  PROVE  Spec => InstancesStay
<1>1. Init => WritersCurrent
  <2>1. ASSUME Init
        PROVE  /\ \A i \in Inst : instances[i].status = "absent" => instances[i] = NoInst
               /\ \A m \in Manager : pc[m] = "idle"
    BY <2>1 DEF Init, WaitingRow
  <2> QED BY <2>1 DEF WritersCurrent, IP!Blank, IP!NoInst, IP!NoName, NoInst, NoName,
                      IP!CopiesCurrent, QueueCurrent
<1>2. Typed /\ WritersCurrent /\ [Next]_vars => Typed' /\ WritersCurrent'
  BY TypedStep, WritersStep
<1>3. Typed /\ WritersCurrent /\ [Next]_vars =>
        [\A i \in Inst : instances[i].status # "absent" =>
           instances'[i].status # "absent" /\ instances'[i].limited = instances[i].limited]_vars
  BY WritersStep DEF IP!RowsKept
<1> QED BY <1>1, <1>2, <1>3, InitTyped, PTL DEF Spec, InstancesStay

-----------------------------------------------------------------------------
(* Why a server is provisioned, with one manager.                           *)

\* No other process schedules or syncs.
OneManager == \A m, k \in Manager : m = k

\* An instance without a node fits on none.
NoRoom == \E i \in Inst : Waiting(i) /\ Eligible(nodes, instances, i) = {}

\* Outside of the placement step its lists are empty.
Rested(m) == pc[m] \notin {"list", "loop", "scheduled"} => place[m] = Plan!NotScheduling

\* What a pass knows from the placement step on, until it provisions.
Needed(m) ==
  /\ PP!Planned(m)
  /\ Rested(m)
  /\ pc[m] \in {"guard", "provision"} => NoRoom

\* The scheduler of the loop is the one of the placement proofs.
LEMMA EligibleIs ==
  ASSUME NEW t, NEW x, NEW i
  PROVE  PP!Eligible(t, x, i) = Eligible(t, x, i)
BY DEF PP!Eligible, Eligible, PP!Dim, Dim, PP!LimitOf, LimitOf, PP!CapacityOf, CapacityOf,
       PP!Allocated, Allocated, PP!MapThenSumSet, MapThenSumSet, PP!MapThenFoldSet, MapThenFoldSet

\* A manager outside of the placement step has nothing planned.
Outside(m) == pc[m] \notin {"list", "loop", "scheduled"} /\ place[m] = Plan!NotScheduling

\* So it knows all it has to.
LEMMA OutsideIsPlanned ==
  ASSUME NEW m \in Manager
  PROVE  /\ Outside(m) => PP!Planned(m) /\ Rested(m)
         /\ Outside(m)' => PP!Planned(m)' /\ Rested(m)'
BY DEF Outside, PP!Planned, Rested, Plan!NotScheduling

\* What asks for a scale-out is an instance that fits nowhere.
LEMMA RequiredIsNeeded ==
  ASSUME NEW m \in Manager, PP!Planned(m), pc[m] = "scheduled", place[m].scaleOutRequired
  PROVE  NoRoom
<1>1. PICK i \in Inst : PP!Waiting(i) /\ PP!Eligible(nodes, instances, i) = {}
  BY DEF PP!Planned
<1>2. Waiting(i)
  BY <1>1 DEF PP!Waiting, Waiting, PP!NoName, NoName
<1> QED BY <1>1, <1>2, EligibleIs DEF NoRoom

\* A step that leaves the tables and this manager alone changes nothing of that.
LEMMA NeededFrame ==
  ASSUME NEW m \in Manager, Needed(m), UNCHANGED <<nodes, instances, place, pc, faults>>
  PROVE  Needed(m)'
<1>1. PP!Planned(m)'
  BY DEF Needed, PP!Planned, PP!Waiting
<1>2. NoRoom => NoRoom'
  BY DEF NoRoom, Waiting
<1> QED BY <1>1, <1>2 DEF Needed, Rested

\* Every step of a pass keeps what it knows.
LEMMA NeededInPass ==
  ASSUME IsFiniteSet(Name), Typed, NEW m \in Manager, Needed(m), PassStep(m)
  PROVE  Needed(m)'
<1> USE DEF Typed
<1>0. instances \in [Inst -> InstRow] /\ place \in [Manager -> PlaceLocal]
  BY TypedIs DEF PlaceType
<1>1. CASE StartPass(m) \/ NodesSynced(m) \/ StartScheduling(m)
  <2>1. /\ Outside(m)' /\ pc'[m] \notin {"guard", "provision"}
    BY <1>1 DEF Needed, Rested, Outside, StartPass, NodesSynced, StartScheduling, AfterNodeSync, locals
  <2> QED BY <2>1, OutsideIsPlanned DEF Needed
<1>2. CASE SyncNodes(m)
  <2>1. /\ Moves(m, {"members", "existing", "upsert"}, {"existing", "upsert", "done"})
        /\ UNCHANGED place
    BY <1>2, NodeSyncFrame DEF SyncNodes
  <2>2. Outside(m)' /\ pc'[m] \notin {"guard", "provision"}
    BY <2>1 DEF Moves, Needed, Rested, Outside
  <2> QED BY <2>2, OutsideIsPlanned DEF Needed
<1>3. CASE SyncInstances(m)
  <2>1. /\ Moves(m, {"hosted", "locate", "tracked", "track"},
                    {"locate", "tracked", "track", "recorded"})
        /\ UNCHANGED place
    BY <1>3, InstanceSyncFrame DEF SyncInstances
  <2>2. Outside(m)' /\ pc'[m] \notin {"guard", "provision"}
    BY <2>1 DEF Moves, Needed, Rested, Outside
  <2> QED BY <2>2, OutsideIsPlanned DEF Needed
<1>4. CASE ScheduleInstances(m)
  <2>1. PP!PlacementStep(m)
    BY <1>4, PlacementStepIs DEF ScheduleInstances
  <2>2. /\ instances \in [Inst -> PP!InstRow] /\ place \in PP!PlaceType
        /\ nodes \in [Name -> PP!Row] /\ faults \in Nat /\ pc \in [Manager -> Step]
        /\ PP!Planned(m)
    BY <1>0, TypesAre DEF Needed, PlaceType
  <2>3. PP!Planned(m)'
    BY <2>1, <2>2, PlacementAssumed, PP!PlannedStep
  <2>4. pc'[m] \in {"list", "loop", "scheduled"}
    BY <2>1 DEF PP!PlacementStep, PP!ListNodesToSchedule, PP!ListInstancesToSchedule, PP!ListFails,
       PP!ScheduleReturns, PP!PlaceInstance, PP!PlaceFails, PP!NoCapacity
  <2> QED BY <2>3, <2>4 DEF Needed, Rested
<1>5. CASE StartScaleOut(m)
  <2>1. /\ pc[m] = "scheduled" /\ Outside(m)' /\ UNCHANGED <<nodes, instances>>
        /\ pc'[m] \in {"guard", "provision"} => place[m].scaleOutRequired
    BY <1>0, <1>5 DEF StartScaleOut, AfterScheduling, Outside, world
  <2>2. pc'[m] \in {"guard", "provision"} => NoRoom
    BY <2>1, RequiredIsNeeded DEF Needed
  <2>3. NoRoom => NoRoom'
    BY <2>1 DEF NoRoom, Waiting
  <2> QED BY <2>1, <2>2, <2>3, OutsideIsPlanned DEF Needed
<1>6. CASE ExecuteScaleOut(m)
  <2>1. /\ Moves(m, {"guard", "provision", "record", "bootstrap", "finish"},
                    {"provision", "record", "bootstrap", "finish", "idle"})
        /\ UNCHANGED <<place, instances>> /\ Scale!ScaleOutStep(m)
    BY <1>6, ScaleOutFrame DEF ExecuteScaleOut
  <2>2. Outside(m)'
    BY <2>1 DEF Moves, Needed, Rested, Outside
  <2>3. pc'[m] \in {"guard", "provision"} => pc[m] = "guard" /\ UNCHANGED nodes
    BY <2>1 DEF Scale!ScaleOutStep, Scale!SkipScaleOut, Scale!PassGuard, Scale!ProvisionFails,
       Scale!ProvisionServer, Scale!RecordServer, Scale!RecordFails, Scale!BootstrapReady,
       Scale!BootstrapFails, Scale!FinishScaleOut, Scale!FinishFails, Scale!AfterRecord,
       Scale!Bootstrapped, Scale!Leave
  <2>4. pc'[m] \in {"guard", "provision"} => NoRoom'
    BY <2>1, <2>3 DEF Needed, NoRoom, Waiting
  <2> QED BY <2>2, <2>4, OutsideIsPlanned DEF Needed
<1>7. QED
  BY <1>1, <1>2, <1>3, <1>4, <1>5, <1>6 DEF PassStep

\* And so does every step of the loop: with one manager, nobody else writes.
LEMMA NeededStep ==
  ASSUME IsFiniteSet(Name), OneManager, Typed, NEW m \in Manager, Needed(m), [Next]_vars
  PROVE  Needed(m)'
<1>1. ASSUME NEW k \in Manager, PassStep(k) PROVE Needed(m)'
  BY <1>1, NeededInPass DEF OneManager
<1>2. ASSUME NEW k \in Manager, Crash(k) PROVE Needed(m)'
  <2>1. k = m
    BY DEF OneManager
  <2>2. Outside(m)' /\ pc'[m] \notin {"guard", "provision"}
    BY <1>2, <2>1 DEF Crash, Outside, Typed, PlaceType
  <2> QED BY <2>2, OutsideIsPlanned DEF Needed
<1>3. CASE LXDChanges \/ InstancesChange \/ UNCHANGED vars
  <2>1. UNCHANGED <<nodes, instances, place, pc, faults>>
    BY <1>3 DEF LXDChanges, MemberChange, InstancesChange, Insts!HostedChange, vars, shared, locals, world
  <2> QED BY <2>1, NeededFrame
<1>4. QED
  BY <1>1, <1>2, <1>3 DEF Next

\* orchestrator.go:249-257, ADR-006: with one manager, a server is provisioned only
\* when an instance without a node fits on no node of the table at that moment.
THEOREM EveryScaleOutIsJustified ==
  ASSUME IsFiniteSet(Name), OneManager
  PROVE  Spec => ScaleOutJustified
<1> DEFINE Inv == Typed /\ \A m \in Manager : Needed(m)
<1>1. Init => Inv
  <2>1. ASSUME Init, NEW m \in Manager PROVE Needed(m)
    <3>1. Outside(m) /\ pc[m] \notin {"guard", "provision"}
      BY <2>1 DEF Init, Outside
    <3> QED BY <3>1, OutsideIsPlanned DEF Needed
  <2> QED BY <2>1, InitTyped
<1>2. Inv /\ [Next]_vars => Inv'
  BY TypedStep, NeededStep
<1>3. Inv /\ [Next]_vars => [servers' # servers =>
        \E i \in Inst : Waiting(i) /\ Eligible(nodes, instances, i) = {}]_vars
  <2> SUFFICES ASSUME Inv, [Next]_vars, servers' # servers PROVE NoRoom
    BY DEF NoRoom
  <2>1. PICK m \in Manager : ExecuteScaleOut(m)
    BY DEF Next, PassStep, StartPass, SyncNodes, NodesSynced, SyncInstances, StartScheduling,
       ScheduleInstances, StartScaleOut, Crash, LXDChanges, InstancesChange, vars, locals, world
  <2>2. pc[m] = "provision"
    BY <2>1 DEF ExecuteScaleOut, Scale!ScaleOutStep, Scale!SkipScaleOut, Scale!PassGuard,
       Scale!ProvisionFails, Scale!ProvisionServer, Scale!RecordServer, Scale!RecordFails,
       Scale!BootstrapReady, Scale!BootstrapFails, Scale!FinishScaleOut, Scale!FinishFails
  <2> QED BY <2>2 DEF Needed
<1> QED BY <1>1, <1>2, <1>3, PTL DEF Spec, ScaleOutJustified

-----------------------------------------------------------------------------
(* Capacity once known, with one manager.                                   *)

\* Figures are those of a row.
RowsSized == \A n \in Name : nodes[n].sized => nodes[n].status # "absent"

\* With one manager the copies that a node sync has still to write back are the rows
\* themselves, and a row is not both to be updated and to be marked offline.
CopiesCurrent(m) ==
  pc[m] = "upsert" => \A n \in Name :
    LET copy == sync[m].existing[n]
    IN  /\ n \in sync[m].todo /\ copy.tracked => nodes[n] = copy
        /\ n \in sync[m].gone =>
             nodes[n] = copy /\ copy.status # "absent" /\ (n \in sync[m].todo => ~copy.tracked)

\* The row that a scale-out will write over is its own, without figures.
RecordUnsized(m) ==
  /\ pc[m] = "finish" => scale[m].recorded
  /\ pc[m] \in {"bootstrap", "finish"} /\ scale[m].recorded /\ scale[m].name \in Name =>
       ~nodes[scale[m].name].sized

\* The invariant behind the figures.
FiguresKnown(m) == RowsSized /\ CopiesCurrent(m) /\ RecordUnsized(m)

\* Where nothing is written and no copy is taken, the figures stay what they were.
LEMMA FiguresFrame ==
  ASSUME NEW m \in Manager, FiguresKnown(m), UNCHANGED nodes,
         pc'[m] = "upsert" => pc[m] = "upsert" /\ sync'[m] = sync[m],
         pc'[m] \in {"bootstrap", "finish"} => pc'[m] = pc[m] /\ scale'[m] = scale[m]
  PROVE  FiguresKnown(m)'
BY DEF FiguresKnown, RowsSized, CopiesCurrent, RecordUnsized

\* The writes of a node sync drop no figures.
LEMMA SyncKeepsFigures ==
  ASSUME Typed, NEW m \in Manager, FiguresKnown(m), NEW n \in Name, SyncWrites(m, n)
  PROVE  /\ \A k \in Name \ {n} : nodes'[k] = nodes[k]
         /\ nodes[n].sized => nodes'[n].sized
         /\ nodes'[n].status # "absent"
         /\ n \in sync[m].todo => n \notin sync[m].gone
<1> DEFINE copy == sync[m].existing[n]
<1>0. nodes \in [Name -> Row] /\ sync \in [Manager -> SyncType]
  BY DEF Typed
<1>1. CASE n \in sync[m].todo /\ Sync!CanUpsert(m, n) /\ WriteNode(n, Sync!Upserted(m, n))
  <2>1. (copy.tracked /\ nodes[n] = copy) \/ nodes[n].status = "absent"
    BY <1>1 DEF FiguresKnown, CopiesCurrent, SyncWrites, Sync!CanUpsert, Sync!CanCreate
  <2>2. nodes[n].sized => Sync!Upserted(m, n).sized
    BY <1>0, <2>1, SyncRowsTyped DEF FiguresKnown, RowsSized
  <2>3. Sync!Upserted(m, n).status # "absent"
    BY <1>0, SyncRowsTyped DEF Sync!MapLXDStatus
  <2>4. n \notin sync[m].gone
    BY <1>1, <2>1 DEF FiguresKnown, CopiesCurrent, SyncWrites
  <2> QED BY <1>0, <1>1, <2>2, <2>3, <2>4 DEF WriteNode
<1>2. CASE n \in sync[m].gone /\ sync[m].todo = {} /\ WriteNode(n, Sync!Offline(m, n))
  <2>1. nodes[n] = copy
    BY <1>2 DEF FiguresKnown, CopiesCurrent, SyncWrites
  <2>2. nodes[n].sized => Sync!Offline(m, n).sized
    BY <1>0, <2>1, SyncRowsTyped
  <2>3. Sync!Offline(m, n).status # "absent"
    BY <1>0, SyncRowsTyped
  <2> QED BY <1>0, <1>2, <2>2, <2>3 DEF WriteNode
<1> QED BY <1>1, <1>2 DEF SyncWrites

\* Figures that were known stay known.
FiguresStay == \A n \in Name : nodes[n].sized => nodes'[n].sized

\* The members a Sync fetched.
Seen(m) == Sync!Present(sync[m].fetched)

\* What the listing of a node sync takes: copies of rows, and of the others nothing.
LEMMA Listing ==
  ASSUME sync \in [Manager -> SyncType], NEW S, pc \in [Manager -> S],
         NEW m \in Manager, Sync!ListExisting(m)
  PROVE  \E indexed \in SUBSET Name :
           /\ \A n \in indexed : nodes[n].status # "absent"
           /\ \A n \in Name : nodes[n].status # "absent" /\ nodes[n].tracked => n \in indexed
           /\ sync'[m].existing = [n \in Name |-> IF n \in indexed THEN nodes[n] ELSE Sync!NoRow]
           /\ sync'[m].fetched = sync[m].fetched
           /\ sync'[m].todo = Seen(m)
           /\ sync'[m].gone = {n \in indexed : nodes[n].tracked => n \notin Seen(m)}
           /\ UNCHANGED nodes /\ pc' = [pc EXCEPT ![m] = "upsert"]
           /\ \A k \in Manager \ {m} : sync'[k] = sync[k]
<1>1. PICK keeper \in Sync!Keepers :
        LET indexed == Sync!IndexByLXDName(keeper)
            seen    == Sync!Present(sync[m].fetched)
        IN  sync' = [sync EXCEPT
              ![m].existing = [n \in Name |-> IF n \in indexed THEN nodes[n] ELSE Sync!NoRow],
              ![m].todo = seen,
              ![m].gone = {n \in indexed : nodes[n].tracked => n \notin seen}]
  BY DEF Sync!ListExisting
<1> DEFINE indexed == Sync!IndexByLXDName(keeper)
           seen    == Seen(m)
<1>2. sync' = [sync EXCEPT
        ![m].existing = [n \in Name |-> IF n \in indexed THEN nodes[n] ELSE Sync!NoRow],
        ![m].todo = seen,
        ![m].gone = {n \in indexed : nodes[n].tracked => n \notin seen}]
  BY <1>1 DEF Seen
<1>3. /\ indexed \subseteq Name
      /\ \A n \in indexed : nodes[n].status # "absent"
      /\ \A n \in Name : nodes[n].status # "absent" /\ nodes[n].tracked => n \in indexed
  BY DEF Sync!IndexByLXDName, Sync!Rows
<1>4. UNCHANGED nodes /\ pc' = [pc EXCEPT ![m] = "upsert"]
  BY DEF Sync!ListExisting
<1> HIDE DEF indexed, seen
<1>5. /\ sync'[m].existing = [n \in Name |-> IF n \in indexed THEN nodes[n] ELSE Sync!NoRow]
      /\ sync'[m].fetched = sync[m].fetched
      /\ sync'[m].todo = seen
      /\ sync'[m].gone = {n \in indexed : nodes[n].tracked => n \notin seen}
      /\ \A k \in Manager \ {m} : sync'[k] = sync[k]
  BY <1>2 DEF SyncType
<1> QED BY <1>3, <1>4, <1>5 DEF seen

\* A node sync keeps all of it.
LEMMA SyncFigures ==
  ASSUME Typed, NEW m \in Manager, FiguresKnown(m), Sync!SyncStep(m)
  PROVE  FiguresStay /\ FiguresKnown(m)'
<1>0. nodes \in [Name -> Row] /\ sync \in [Manager -> SyncType] /\ pc \in [Manager -> Step]
  BY DEF Typed
<1> DEFINE Goal == FiguresStay /\ FiguresKnown(m)'
<1>1. ASSUME UNCHANGED nodes, pc'[m] \notin {"upsert", "bootstrap", "finish"} PROVE Goal
  BY <1>1, FiguresFrame DEF FiguresStay
<1>2. ASSUME NEW n \in Name, SyncWrites(m, n) PROVE FiguresStay /\ RowsSized'
  <2>1. /\ \A k \in Name \ {n} : nodes'[k] = nodes[k]
        /\ nodes[n].sized => nodes'[n].sized
        /\ nodes'[n].status # "absent"
    BY <1>2, SyncKeepsFigures
  <2> QED BY <2>1 DEF FiguresStay, FiguresKnown, RowsSized
<1>3. FiguresStay /\ RowsSized'
  <2>1. CASE UNCHANGED nodes
    BY <2>1 DEF FiguresStay, FiguresKnown, RowsSized
  <2> QED BY <1>2, <2>1, OneNodeWrite
<1>4. CASE Sync!FetchMembers(m) \/ Sync!FetchFails(m) \/ Sync!SyncReturns(m)
  BY <1>0, <1>1, <1>4 DEF Sync!FetchMembers, Sync!FetchFails, Sync!SyncReturns
<1>5. CASE \E n \in Name : Sync!UpsertFails(m, n)
  <2>1. pc'[m] = "done"
    BY <1>0, <1>5 DEF Sync!UpsertFails
  <2> QED BY <1>3, <2>1 DEF FiguresKnown, CopiesCurrent, RecordUnsized
<1>6. CASE Sync!ListExisting(m)
  <2>1. PICK indexed \in SUBSET Name :
          /\ \A n \in indexed : nodes[n].status # "absent"
          /\ \A n \in Name : nodes[n].status # "absent" /\ nodes[n].tracked => n \in indexed
          /\ sync'[m].existing = [n \in Name |-> IF n \in indexed THEN nodes[n] ELSE Sync!NoRow]
          /\ sync'[m].fetched = sync[m].fetched
          /\ sync'[m].todo = Seen(m)
          /\ sync'[m].gone = {n \in indexed : nodes[n].tracked => n \notin Seen(m)}
          /\ UNCHANGED nodes /\ pc' = [pc EXCEPT ![m] = "upsert"]
          /\ \A k \in Manager \ {m} : sync'[k] = sync[k]
    BY <1>0, <1>6, Listing
  <2>2. CopiesCurrent(m)'
    BY <2>1 DEF CopiesCurrent, Sync!NoRow
  <2> QED BY <1>0, <1>3, <2>1, <2>2 DEF FiguresKnown, RecordUnsized
<1>7. ASSUME NEW n \in Name,
             Sync!UpsertMember(m, n) \/ Sync!MarkOffline(m, n) \/ Sync!MarkOfflineFails(m, n)
      PROVE  Goal
  <2>1. /\ pc[m] = "upsert" /\ pc' = pc
        /\ sync'[m].existing = sync[m].existing
        /\ \/ /\ sync'[m].todo = sync[m].todo \ {n} /\ sync'[m].gone = sync[m].gone
              /\ SyncWrites(m, n) /\ n \in sync[m].todo
           \/ /\ sync'[m].gone = sync[m].gone \ {n} /\ sync'[m].todo = sync[m].todo
              /\ sync[m].todo = {} /\ (UNCHANGED nodes \/ SyncWrites(m, n))
    BY <1>0, <1>7 DEF Sync!UpsertMember, Sync!MarkOffline, Sync!MarkOfflineFails, Sync!WriteNode,
       Sync!LostWrite, WriteNode, SyncWrites, SyncType
  <2>2. \A k \in Name \ {n} : nodes'[k] = nodes[k]
    BY <2>1, SyncKeepsFigures
  <2>3. n \notin sync'[m].todo /\ n \notin sync'[m].gone
    BY <2>1, SyncKeepsFigures
  <2>4. sync'[m].todo \subseteq sync[m].todo /\ sync'[m].gone \subseteq sync[m].gone
    BY <2>1
  <2>5. CopiesCurrent(m)'
    BY <2>1, <2>2, <2>3, <2>4 DEF FiguresKnown, CopiesCurrent
  <2> QED BY <1>3, <2>1, <2>5 DEF FiguresKnown, RecordUnsized
<1>8. QED
  BY <1>4, <1>5, <1>6, <1>7 DEF Sync!SyncStep

\* A scale-out writes over no figures: its row is new, or has none.
LEMMA ScaleOutFigures ==
  ASSUME Typed, NEW m \in Manager, FiguresKnown(m), Scale!ScaleOutStep(m)
  PROVE  FiguresStay /\ FiguresKnown(m)'
<1>0. nodes \in [Name -> Row] /\ scale \in [Manager -> ScaleType] /\ pc \in [Manager -> Step]
  BY DEF Typed
<1> DEFINE Goal == FiguresStay /\ FiguresKnown(m)'
<1>1. ASSUME UNCHANGED nodes, pc'[m] \notin {"upsert", "bootstrap", "finish"} PROVE Goal
  BY <1>1, FiguresFrame DEF FiguresStay
<1>2. CASE \/ Scale!SkipScaleOut(m) \/ Scale!PassGuard(m) \/ Scale!ProvisionFails(m)
           \/ \E n \in Name : Scale!ProvisionServer(m, n)
  BY <1>0, <1>1, <1>2 DEF Scale!SkipScaleOut, Scale!PassGuard, Scale!ProvisionFails,
     Scale!ProvisionServer, Scale!Leave
<1> DEFINE name == scale[m].name
<1>3. ASSUME NEW row \in Row, ~row.sized, row.status # "absent", WriteNode(name, row),
             name \in Name => ~nodes[name].sized
      PROVE  /\ FiguresStay /\ RowsSized'
             /\ name \in Name => ~nodes'[name].sized
  BY <1>0, <1>3 DEF FiguresStay, FiguresKnown, RowsSized, WriteNode
<1>4. CASE Scale!RecordServer(m) \/ Scale!RecordFails(m)
  <2> DEFINE row == Scale!ScaleOutRow("provisioning")
  <2>1. row \in Row /\ ~row.sized /\ row.status # "absent"
    BY DEF Scale!ScaleOutRow, Row, NodeStatus
  <2>2. Scale!CanCreate(name, row) /\ name \in Name => ~nodes[name].sized
    BY DEF Scale!CanCreate, FiguresKnown, RowsSized
  <2>3. UNCHANGED nodes \/ (Scale!CanCreate(name, row) /\ WriteNode(name, row))
    BY <1>4 DEF Scale!RecordServer, Scale!RecordFails, Scale!LostWrite, Scale!WriteNode, WriteNode
  <2>4. PICK b \in BOOLEAN : Scale!AfterRecord(m, b) /\ (b => Scale!RecordServer(m))
    BY <1>4 DEF Scale!RecordServer, Scale!RecordFails
  <2>5. FiguresStay /\ RowsSized'
    <3>1. CASE UNCHANGED nodes
      BY <3>1 DEF FiguresStay, FiguresKnown, RowsSized
    <3>2. CASE Scale!CanCreate(name, row) /\ WriteNode(name, row)
      <4> HIDE DEF row
      <4> QED BY <1>3, <2>1, <2>2, <3>2
    <3> QED BY <2>3, <3>1, <3>2
  <2>6. /\ pc'[m] \in {"bootstrap", "idle"}
        /\ pc'[m] = "bootstrap" => scale'[m].recorded = b /\ scale'[m].name = name
    BY <1>0, <2>4 DEF Scale!AfterRecord, Scale!Leave, ScaleType
  <2>7. Scale!RecordServer(m) /\ name \in Name => ~nodes'[name].sized
    <3> SUFFICES ASSUME Scale!RecordServer(m), name \in Name PROVE ~nodes'[name].sized
      OBVIOUS
    <3>1. nodes' = [nodes EXCEPT ![name] = row]
      BY DEF Scale!RecordServer, Scale!WriteNode
    <3>2. nodes'[name] = row
      BY <1>0, <3>1
    <3> QED BY <2>1, <3>2
  <2> QED BY <2>4, <2>5, <2>6, <2>7 DEF FiguresKnown, CopiesCurrent, RecordUnsized
<1>5. CASE Scale!BootstrapReady(m) \/ Scale!BootstrapFails(m)
  <2>1. PICK b \in BOOLEAN : Scale!Bootstrapped(m, b)
    BY <1>5 DEF Scale!BootstrapReady, Scale!BootstrapFails
  <2>2. UNCHANGED nodes /\ pc[m] = "bootstrap"
    BY <1>5 DEF Scale!BootstrapReady, Scale!BootstrapFails
  <2>3. /\ pc'[m] \in {"finish", "idle"}
        /\ pc'[m] = "finish" => /\ scale[m].recorded /\ scale'[m].recorded
                                /\ scale'[m].name = name
    BY <1>0, <2>1 DEF Scale!Bootstrapped, Scale!Leave, ScaleType
  <2> QED BY <2>2, <2>3 DEF FiguresStay, FiguresKnown, RowsSized, CopiesCurrent, RecordUnsized
<1>6. CASE Scale!FinishScaleOut(m) \/ Scale!FinishFails(m)
  <2>1. Scale!Outcome(m) \in Row /\ ~Scale!Outcome(m).sized /\ Scale!Outcome(m).status # "absent"
    BY DEF Scale!Outcome, Scale!ScaleOutRow, Row, NodeStatus
  <2>2. name \in Name => ~nodes[name].sized
    BY <1>6 DEF FiguresKnown, RecordUnsized, Scale!FinishScaleOut, Scale!FinishFails
  <2>3. UNCHANGED nodes \/ WriteNode(name, Scale!Outcome(m))
    BY <1>6 DEF Scale!FinishScaleOut, Scale!FinishFails, Scale!LostWrite, Scale!WriteNode, WriteNode
  <2>4. FiguresStay /\ RowsSized'
    <3>1. CASE UNCHANGED nodes
      BY <3>1 DEF FiguresStay, FiguresKnown, RowsSized
    <3> QED BY <1>3, <2>1, <2>2, <2>3, <3>1
  <2>5. pc'[m] = "idle"
    BY <1>0, <1>6 DEF Scale!FinishScaleOut, Scale!FinishFails, Scale!Leave
  <2> QED BY <2>4, <2>5 DEF FiguresKnown, CopiesCurrent, RecordUnsized
<1>7. QED
  BY <1>2, <1>4, <1>5, <1>6 DEF Scale!ScaleOutStep

\* Every step of the loop keeps the figures: with one manager, nobody else writes.
LEMMA FiguresStep ==
  ASSUME IsFiniteSet(Name), OneManager, Typed, NEW m \in Manager, FiguresKnown(m), [Next]_vars
  PROVE  FiguresStay /\ FiguresKnown(m)'
<1> DEFINE Goal == FiguresStay /\ FiguresKnown(m)'
<1>0. /\ nodes \in [Name -> Row] /\ sync \in [Manager -> SyncType]
      /\ scale \in [Manager -> ScaleType] /\ pc \in [Manager -> Step]
  BY DEF Typed
<1>1. ASSUME UNCHANGED nodes, pc'[m] \notin {"upsert", "bootstrap", "finish"} PROVE Goal
  BY <1>1, FiguresFrame DEF FiguresStay
<1>2. ASSUME PassStep(m) PROVE Goal
  <2>1. CASE StartPass(m) \/ NodesSynced(m) \/ StartScheduling(m) \/ StartScaleOut(m)
    BY <1>0, <1>1, <2>1 DEF StartPass, NodesSynced, StartScheduling, StartScaleOut, AfterNodeSync,
       AfterScheduling
  <2>2. CASE SyncNodes(m)
    BY <2>2, SyncFigures DEF SyncNodes
  <2>3. CASE SyncInstances(m)
    <3>1. /\ UNCHANGED nodes
          /\ Moves(m, {"hosted", "locate", "tracked", "track"},
                      {"locate", "tracked", "track", "recorded"})
      BY <2>3, InstanceSyncFrame DEF SyncInstances, Typed
    <3> QED BY <1>0, <1>1, <3>1 DEF Moves
  <2>4. CASE ScheduleInstances(m)
    <3>1. UNCHANGED nodes /\ Moves(m, {"schedule", "list", "loop"}, {"list", "loop", "scheduled"})
      BY <2>4, PlacementFrame DEF ScheduleInstances, Typed
    <3> QED BY <1>0, <1>1, <3>1 DEF Moves
  <2>5. CASE ExecuteScaleOut(m)
    BY <2>5, ScaleOutFigures DEF ExecuteScaleOut
  <2> QED BY <1>2, <2>1, <2>2, <2>3, <2>4, <2>5 DEF PassStep
<1>3. ASSUME NEW k \in Manager, PassStep(k) PROVE Goal
  BY <1>2, <1>3 DEF OneManager
<1>4. ASSUME NEW k \in Manager, Crash(k) PROVE Goal
  <2>1. k = m
    BY DEF OneManager
  <2> QED BY <1>0, <1>1, <1>4, <2>1 DEF Crash
<1>5. CASE LXDChanges \/ InstancesChange \/ UNCHANGED vars
  <2>1. UNCHANGED <<nodes, pc, sync, scale>>
    BY <1>5 DEF LXDChanges, MemberChange, InstancesChange, Insts!HostedChange, vars, shared, locals, world
  <2> QED BY <2>1, FiguresFrame DEF FiguresStay
<1>6. QED
  BY <1>3, <1>4, <1>5 DEF Next

\* sync.go:193-196 in the whole loop: with one manager, figures once known survive
\* every later step, whatever call fails and wherever the process crashes.
THEOREM KnownCapacityIsKept ==
  ASSUME IsFiniteSet(Name), OneManager
  PROVE  Spec => CapacityKept
<1> DEFINE Inv == Typed /\ \A m \in Manager : FiguresKnown(m)
<1>1. Init => Inv
  <2>1. ASSUME Init, NEW m \in Manager PROVE FiguresKnown(m)
    BY <2>1 DEF Init, FiguresKnown, RowsSized, CopiesCurrent, RecordUnsized, NoRow
  <2> QED BY <2>1, InitTyped
<1>2. Inv /\ [Next]_vars => Inv'
  BY TypedStep, FiguresStep
<1>3. Inv /\ [Next]_vars => [\A n \in Name : nodes[n].sized => nodes'[n].sized]_vars
  BY FiguresStep, ManagerAssumption DEF FiguresStay
<1> QED BY <1>1, <1>2, <1>3, PTL DEF Spec, CapacityKept

-----------------------------------------------------------------------------
(* What no pass overcommits, with one manager.                              *)

\* What a pass knows of the rows it schedules by.
Informed(m) == Needed(m) /\ PP!MissedFew(m) /\ FiguresKnown(m)

\* The scheduler's sums are those of its proofs, before and after a step.
LEMMA AllocatedIs ==
  ASSUME NEW t, NEW x, NEW n, NEW d
  PROVE  PP!Allocated(x, n, d) = Allocated(x, n, d) /\ PP!CapacityOf(t, n, d) = CapacityOf(t, n, d)
         /\ PP!Dim = Dim
BY DEF PP!Allocated, Allocated, PP!LimitOf, LimitOf, PP!MapThenSumSet, MapThenSumSet,
       PP!MapThenFoldSet, MapThenFoldSet, PP!CapacityOf, CapacityOf, PP!Dim, Dim

\* The figures of a node are naturals, and what is requested of it too.
LEMMA FiguresNat ==
  ASSUME NEW t, NEW x, NEW n \in Name, NEW d \in Dim
  PROVE  CapacityOf(t, n, d) \in Nat /\ Allocated(x, n, d) \in Nat
<1>1. CapacityOf(t, n, d) \in Nat
  BY CapacityAssumption DEF CapacityOf
<1>2. PP!Allocated(x, n, d) \in Nat
  BY PlacementAssumed, AllocatedIs, PP!AllocatedNat
<1> QED BY <1>1, <1>2, AllocatedIs

\* Figures that stay known do not shrink.
LEMMA CapacityGrows ==
  ASSUME FiguresStay, NEW n \in Name, NEW d \in Dim
  PROVE  CapacityOf(nodes, n, d) <= CapacityOf(nodes', n, d)
<1>1. Capacity[n][d] \in Nat
  BY CapacityAssumption
<1> QED BY <1>1 DEF CapacityOf, FiguresStay

\* A step outside of the instance sync and the placement leaves the instances alone.
LEMMA InstancesWritten ==
  ASSUME Next
  PROVE  \/ UNCHANGED instances
         \/ \E m \in Manager : SyncInstances(m) \/ ScheduleInstances(m)
BY DEF Next, PassStep, StartPass, SyncNodes, NodesSynced, StartScheduling,
       StartScaleOut, ExecuteScaleOut, Crash, LXDChanges, InstancesChange, locals, world,
       Insts!HostedChange

\* Of the instance sync only the steps that record write them.
LEMMA RecordedInTrack ==
  ASSUME NEW m \in Manager, SyncInstances(m), instances' # instances
  PROVE  pc[m] = "track"
BY DEF SyncInstances, Insts!SyncStep, Insts!FetchInstances, Insts!ListLocations,
       Insts!ListTracked, Insts!ListingFails, Insts!RecordInstance, Insts!RecordFails,
       Insts!MarkUnknown, Insts!MarkUnknownFails, Insts!InstancesSynced

\* What the local list misses stays with the faults: with one manager only its own
\* placement step writes while it schedules.
LEMMA MissedFewStep ==
  ASSUME IsFiniteSet(Name), OneManager, Typed, NEW m \in Manager, PP!MissedFew(m), [Next]_vars
  PROVE  PP!MissedFew(m)'
<1>0. /\ instances \in [Inst -> InstRow] /\ place \in [Manager -> PlaceLocal]
      /\ pc \in [Manager -> Step] /\ faults \in Nat
  BY TypedIs DEF Typed, PlaceType
<1>1. ASSUME ScheduleInstances(m) PROVE PP!MissedFew(m)'
  <2>1. PP!PlacementStep(m)
    BY <1>1, PlacementStepIs DEF ScheduleInstances
  <2>2. instances \in [Inst -> PP!InstRow] /\ place \in PP!PlaceType
    BY <1>0, TypesAre DEF PlaceType
  <2> QED BY <1>0, <2>1, <2>2, PlacementAssumed, PP!MissedStep
<1>2. ASSUME pc'[m] # "loop" PROVE PP!MissedFew(m)'
  BY <1>2 DEF PP!MissedFew
<1>3. ASSUME PassStep(m), ~ ScheduleInstances(m) PROVE pc'[m] # "loop"
  <2>1. CASE StartPass(m) \/ NodesSynced(m) \/ StartScheduling(m) \/ StartScaleOut(m)
    BY <1>0, <2>1 DEF StartPass, NodesSynced, StartScheduling, StartScaleOut, AfterNodeSync, AfterScheduling
  <2>2. CASE SyncNodes(m)
    <3>1. Moves(m, {"members", "existing", "upsert"}, {"existing", "upsert", "done"})
      BY <2>2, NodeSyncFrame DEF SyncNodes, Typed
    <3> QED BY <1>0, <3>1 DEF Moves
  <2>3. CASE SyncInstances(m)
    <3>1. Moves(m, {"hosted", "locate", "tracked", "track"},
                   {"locate", "tracked", "track", "recorded"})
      BY <2>3, InstanceSyncFrame DEF SyncInstances, Typed
    <3> QED BY <1>0, <3>1 DEF Moves
  <2>4. CASE ExecuteScaleOut(m)
    <3>1. Moves(m, {"guard", "provision", "record", "bootstrap", "finish"},
                   {"provision", "record", "bootstrap", "finish", "idle"})
      BY <2>4, ScaleOutFrame DEF ExecuteScaleOut, Typed
    <3> QED BY <1>0, <3>1 DEF Moves
  <2> QED BY <1>3, <2>1, <2>2, <2>3, <2>4 DEF PassStep
<1>4. ASSUME NEW k \in Manager, PassStep(k) PROVE PP!MissedFew(m)'
  BY <1>1, <1>2, <1>3, <1>4 DEF OneManager
<1>5. ASSUME NEW k \in Manager, Crash(k) PROVE PP!MissedFew(m)'
  <2>1. k = m
    BY DEF OneManager
  <2> QED BY <1>0, <1>2, <1>5, <2>1 DEF Crash
<1>6. CASE LXDChanges \/ InstancesChange \/ UNCHANGED vars
  <2>1. UNCHANGED <<instances, place, pc, faults>>
    BY <1>6 DEF LXDChanges, MemberChange, InstancesChange, Insts!HostedChange, vars, shared, locals, world
  <2>2. UNCHANGED PP!Missed(m)
    BY <2>1 DEF PP!Missed
  <2> QED BY <2>1, <2>2 DEF PP!MissedFew
<1>7. QED
  BY <1>4, <1>5, <1>6 DEF Next

\* A step that mirrors nothing commits no more of a node than it had, or no more than
\* its capacity.
LEMMA NothingOvercommitted ==
  ASSUME IsFiniteSet(Name), OneManager, Typed, NEW m \in Manager, Informed(m), Next,
         pc[m] # "track", ~ SQLStore \/ faults = 0,
         NEW n \in Name, Overcommitted(n)'
  PROVE  Overcommitted(n)
<1>1. PICK d \in Dim : Allocated(instances', n, d) > CapacityOf(nodes', n, d)
  BY DEF Overcommitted
<1>2. FiguresStay
  BY FiguresStep DEF Informed
<1>3. CapacityOf(nodes, n, d) <= CapacityOf(nodes', n, d)
  BY <1>2, CapacityGrows
<1>4. /\ CapacityOf(nodes, n, d) \in Nat /\ CapacityOf(nodes', n, d) \in Nat
      /\ Allocated(instances, n, d) \in Nat /\ Allocated(instances', n, d) \in Nat
  BY FiguresNat
<1>5. \/ Allocated(instances', n, d) = Allocated(instances, n, d)
      \/ Allocated(instances', n, d) <= CapacityOf(nodes, n, d)
  <2>1. CASE UNCHANGED instances
    BY <2>1
  <2>2. ASSUME NEW k \in Manager, SyncInstances(k), instances' # instances PROVE FALSE
    BY <2>2, RecordedInTrack DEF OneManager
  <2>3. ASSUME NEW k \in Manager, ScheduleInstances(k)
        PROVE  \/ Allocated(instances', n, d) = Allocated(instances, n, d)
               \/ Allocated(instances', n, d) <= CapacityOf(nodes, n, d)
    <3>1. k = m
      BY DEF OneManager
    <3>2. PP!PlacementStep(m)
      BY <2>3, <3>1, PlacementStepIs DEF ScheduleInstances
    <3>3. /\ instances \in [Inst -> PP!InstRow] /\ place \in PP!PlaceType /\ faults \in Nat
          /\ PP!Planned(m) /\ PP!MissedFew(m)
      BY TypedIs, TypesAre DEF Typed, Informed, Needed
    <3>4. d \in PP!Dim
      BY AllocatedIs
    <3>5. \/ PP!Allocated(instances', n, d) = PP!Allocated(instances, n, d)
          \/ PP!Allocated(instances', n, d) <= PP!CapacityOf(nodes, n, d)
      BY <3>2, <3>3, <3>4, PlacementAssumed, PP!StepStaysWithin
    <3> QED BY <3>5, AllocatedIs
  <2> QED BY <2>1, <2>2, <2>3, InstancesWritten
<1>6. Allocated(instances, n, d) > CapacityOf(nodes, n, d)
  BY <1>1, <1>3, <1>4, <1>5
<1> QED BY <1>6 DEF Overcommitted

\* What a pass knows is an invariant of the loop.
LEMMA KnownInvariant ==
  ASSUME IsFiniteSet(Name), OneManager
  PROVE  Spec => [](Typed /\ \A m \in Manager : Informed(m))
<1> DEFINE Inv == Typed /\ \A m \in Manager : Informed(m)
<1>1. Init => Inv
  <2>1. ASSUME Init, NEW m \in Manager PROVE Informed(m)
    <3>1. Outside(m) /\ pc[m] \notin {"guard", "provision", "loop"}
      BY <2>1 DEF Init, Outside
    <3>2. Needed(m) /\ PP!MissedFew(m)
      BY <3>1, OutsideIsPlanned DEF Needed, PP!MissedFew
    <3>3. FiguresKnown(m)
      BY <2>1 DEF Init, FiguresKnown, RowsSized, CopiesCurrent, RecordUnsized, NoRow
    <3> QED BY <3>2, <3>3 DEF Informed
  <2> QED BY <2>1, InitTyped
<1>2. Inv /\ [Next]_vars => Inv'
  <2>1. ASSUME Inv, [Next]_vars, NEW m \in Manager PROVE Informed(m)'
    BY <2>1, NeededStep, MissedFewStep, FiguresStep DEF Informed
  <2> QED BY <2>1, TypedStep
<1> QED BY <1>1, <1>2, PTL DEF Spec

\* ADR-006, orchestrator.go:331-338: in the whole loop, whatever else fails or
\* crashes, a node becomes overcommitted only where the table follows LXD, or after a
\* placement whose answer a database may have lost.
THEOREM OnlyLXDOvercommits ==
  ASSUME IsFiniteSet(Name), OneManager
  PROVE  Spec => OvercommitOnlyMirrored
<1> DEFINE Inv == Typed /\ \A m \in Manager : Informed(m)
           Mirrored == \A n \in Name : Overcommitted(n)' /\ ~Overcommitted(n) =>
                         \/ \E m \in Manager : pc[m] = "track"
                         \/ SQLStore /\ faults > 0
<1>1. ASSUME Inv, Next PROVE Mirrored
  <2> SUFFICES ASSUME NEW n \in Name, Overcommitted(n)', ~Overcommitted(n),
                      \A m \in Manager : pc[m] # "track", ~ (SQLStore /\ faults > 0)
               PROVE  FALSE
    OBVIOUS
  <2>1. PICK m \in Manager : TRUE
    BY ManagerAssumption
  <2>2. ~ SQLStore \/ faults = 0
    BY <1>1 DEF Typed
  <2> QED BY <1>1, <2>1, <2>2, NothingOvercommitted
<1>2. Inv /\ [Next]_vars =>
        [\A n \in Name : Overcommitted(n)' /\ ~Overcommitted(n) =>
           \/ \E m \in Manager : pc[m] = "track"
           \/ SQLStore /\ faults > 0]_vars
  BY <1>1
<1> QED BY <1>2, KnownInvariant, PTL DEF Spec, OvercommitOnlyMirrored

\* Without an instance syncer no pass mirrors instances.
NoMirror == \A m \in Manager : pc[m] \notin {"hosted", "locate", "tracked", "track", "recorded"}

LEMMA NoMirrorStep ==
  ASSUME IsFiniteSet(Name), ~HasInstanceSyncer, Typed, NoMirror, [Next]_vars
  PROVE  NoMirror'
<1> DEFINE Mirror == {"hosted", "locate", "tracked", "track", "recorded"}
<1>0. pc \in [Manager -> Step]
  BY DEF Typed
<1>1. ASSUME NEW m \in Manager, NEW From, NEW To, Moves(m, From, To), Mirror \cap To = {}
      PROVE  NoMirror'
  BY <1>0, <1>1 DEF Moves, NoMirror
<1>2. ASSUME NEW m \in Manager, SyncNodes(m) \/ ScheduleInstances(m) \/ ExecuteScaleOut(m)
      PROVE  NoMirror'
  <2>1. \/ Moves(m, {"members", "existing", "upsert"}, {"existing", "upsert", "done"})
        \/ Moves(m, {"schedule", "list", "loop"}, {"list", "loop", "scheduled"})
        \/ Moves(m, {"guard", "provision", "record", "bootstrap", "finish"},
                    {"provision", "record", "bootstrap", "finish", "idle"})
    BY <1>2, NodeSyncFrame, PlacementFrame, ScaleOutFrame
       DEF SyncNodes, ScheduleInstances, ExecuteScaleOut, Typed
  <2> QED BY <1>1, <2>1
<1>3. ASSUME NEW m \in Manager, SyncInstances(m) PROVE FALSE
  BY <1>3, InstanceSyncFrame DEF SyncInstances, Typed, Moves, NoMirror
<1>4. ASSUME NEW m \in Manager,
             StartPass(m) \/ NodesSynced(m) \/ StartScheduling(m) \/ StartScaleOut(m) \/ Crash(m)
      PROVE  NoMirror'
  BY <1>0, <1>4 DEF StartPass, NodesSynced, AfterNodeSync, StartScheduling, StartScaleOut,
     AfterScheduling, Crash, NoMirror
<1>5. CASE LXDChanges \/ InstancesChange \/ UNCHANGED vars
  BY <1>5 DEF LXDChanges, MemberChange, InstancesChange, Insts!HostedChange, vars, shared, NoMirror
<1> QED BY <1>2, <1>3, <1>4, <1>5 DEF Next, PassStep

\* ADR-006: one manager that places instances on the in-memory store, and mirrors none,
\* never has a node with less than its instances request, whatever fails or crashes.
THEOREM PlacementNeverOvercommits ==
  ASSUME IsFiniteSet(Name), OneManager, ~HasInstanceSyncer, ~SQLStore
  PROVE  Spec => [](\A n \in Name : ~Overcommitted(n))
<1> DEFINE Inv   == Typed /\ \A m \in Manager : Informed(m)
           Room  == \A n \in Name : ~Overcommitted(n)
<1>1. Init => NoMirror /\ Room
  <2>1. Init => NoMirror
    BY DEF Init, NoMirror
  <2>2. ASSUME Init, NEW n \in Name, NEW d \in Dim
        PROVE  Allocated(instances, n, d) <= CapacityOf(nodes, n, d)
    <3>1. \A i \in Inst : instances[i].node # n
      BY <2>2, NameAssumption DEF Init, WaitingRow, NoInst, NoName
    <3>2. Allocated(instances, n, d) = 0
      BY <3>1, PlacementAssumed, PP!NothingAllocated, AllocatedIs
    <3> QED BY <3>2, FiguresNat
  <2>3. ASSUME Init, NEW n \in Name PROVE ~Overcommitted(n)
    <3>1. ASSUME NEW d \in Dim PROVE ~(Allocated(instances, n, d) > CapacityOf(nodes, n, d))
      <4>1. Allocated(instances, n, d) <= CapacityOf(nodes, n, d)
        BY <2>2, <2>3
      <4>2. Allocated(instances, n, d) \in Nat /\ CapacityOf(nodes, n, d) \in Nat
        BY FiguresNat
      <4> QED BY <4>1, <4>2
    <3> QED BY <3>1 DEF Overcommitted
  <2> QED BY <2>1, <2>3
<1>2. Inv /\ NoMirror /\ Room /\ [Next]_vars => NoMirror' /\ Room'
  <2> SUFFICES ASSUME Inv, NoMirror, Room, [Next]_vars PROVE NoMirror' /\ Room'
    OBVIOUS
  <2>1. NoMirror'
    BY NoMirrorStep
  <2>2. PICK m \in Manager : TRUE
    BY ManagerAssumption
  <2>3. CASE Next
    <3>1. ASSUME NEW n \in Name, Overcommitted(n)' PROVE FALSE
      <4>1. Informed(m) /\ pc[m] # "track"
        BY DEF NoMirror
      <4> QED BY <2>3, <3>1, <4>1, NothingOvercommitted
    <3> QED BY <2>1, <3>1
  <2>4. CASE UNCHANGED vars
    <3>1. ASSUME NEW n \in Name, NEW d \in Dim
          PROVE  /\ Allocated(instances', n, d) = Allocated(instances, n, d)
                 /\ CapacityOf(nodes', n, d) = CapacityOf(nodes, n, d)
      BY <2>4 DEF vars, shared, world
    <3> QED BY <2>1, <3>1 DEF Overcommitted
  <2> QED BY <2>3, <2>4
<1> QED BY <1>1, <1>2, KnownInvariant, PTL DEF Spec

-----------------------------------------------------------------------------
(* The node sync on its own: Syncers of any number of managers, over any    *)
(* finite set of names, with the steps that surround a Sync in NodeSync.    *)

\* The types of the node sync.
SyncTyped ==
  /\ nodes \in [Name -> Row] /\ members \in [Name -> MemberStatus \cup {"absent"}]
  /\ pc \in [Manager -> Sync!Step] /\ faults \in 0 .. MaxFaults /\ changes \in 0 .. MaxChanges
  /\ sync \in [Manager -> SyncType]

\* They are its type invariant.
LEMMA SyncTypedIs == Sync!TypeOK <=> SyncTyped
BY TypesAre DEF Sync!TypeOK, Sync!SharedTypeOK, Sync!Row, Row, Sync!NodeStatus, NodeStatus,
   Sync!MemberStatus, MemberStatus, SyncTyped

\* Every row of a table that only Syncers write bears the name of its member, and
\* so does every copy: ListNodes loses none of them.
AllTracked ==
  /\ \A n \in Name : nodes[n].status # "absent" => nodes[n].tracked
  /\ \A m \in Manager, n \in Name :
       sync[m].existing[n].status # "absent" => sync[m].existing[n].tracked
  /\ \A m \in Manager : pc[m] = "upsert" =>
       \A n \in sync[m].gone : sync[m].existing[n].status # "absent"

\* What the Sync of a manager that runs alone has brought about: members that are
\* done agree, and rows that are neither seen nor to be marked are offline.
Mirroring(m) ==
  /\ pc[m] = "upsert" =>
       /\ sync[m].todo \subseteq Seen(m) /\ sync[m].gone \cap Seen(m) = {}
       /\ \A n \in Seen(m) \ sync[m].todo :
            nodes[n].status = Sync!MapLXDStatus(sync[m].fetched[n])
       /\ \A n \in Name \ (Seen(m) \cup sync[m].gone \cup sync[m].unmarked) :
            nodes[n].status \in {"offline", "absent"}
  /\ pc[m] = "done" /\ sync[m] # Sync!NothingFetched =>
       \A n \in Name \ sync[m].unmarked : Sync!Agrees(nodes[n], sync[m].fetched[n])

\* No other manager runs.
OthersOff(m) == \A k \in Manager \ {m} : pc[k] = "off"

\* The inductive invariant of the node sync.
SyncInv == SyncTyped /\ AllTracked /\ \A m \in Manager : OthersOff(m) => Mirroring(m)

\* A row that agrees with the status of a member, seen or not.
LEMMA AgreesIs ==
  ASSUME NEW row \in Row, NEW s \in MemberStatus \cup {"absent"},
         \/ s # "absent" /\ row.status = Sync!MapLXDStatus(s)
         \/ s = "absent" /\ row.status \in {"offline", "absent"}
  PROVE  Sync!Agrees(row, s)
BY DEF Sync!Agrees, Sync!MapLXDStatus, MemberStatus, Row

\* The invariant holds when no Syncer has run.
LEMMA SyncInit == Sync!Init => SyncInv
<1> SUFFICES ASSUME Sync!Init PROVE SyncInv
  OBVIOUS
<1>1. SyncTyped
  BY BoundAssumption, NothingTyped DEF Sync!Init, SyncTyped, Sync!NoRow, Row, MemberStatus, Sync!Step
<1>2. AllTracked
  BY DEF Sync!Init, AllTracked, Sync!NoRow, Sync!NothingFetched
<1>3. \A m \in Manager : Mirroring(m)
  BY DEF Sync!Init, Mirroring
<1> QED BY <1>1, <1>2, <1>3 DEF SyncInv

\* Every step of the Syncers keeps the types.
LEMMA SyncTypedStep ==
  ASSUME IsFiniteSet(Name), SyncTyped, [Sync!Next]_(Sync!vars)
  PROVE  SyncTyped'
<1>1. ASSUME NEW m \in Manager, Sync!Tick(m) \/ Sync!RestOfPass(m) \/ Sync!Crash(m)
      PROVE  SyncTyped'
  <2>1. UNCHANGED <<nodes, members, changes>> /\ FaultsMore
    BY <1>1, FaultsGrow DEF Sync!Tick, Sync!RestOfPass, Sync!Crash, SyncTyped
  <2>2. pc' \in [Manager -> Sync!Step]
    BY <1>1 DEF Sync!Tick, Sync!RestOfPass, Sync!Crash, SyncTyped, Sync!Step
  <2>3. sync' \in [Manager -> SyncType]
    BY <1>1, NothingTyped DEF Sync!Tick, Sync!RestOfPass, Sync!Crash, SyncTyped
  <2> QED BY <2>1, <2>2, <2>3 DEF SyncTyped, FaultsMore
<1>2. ASSUME NEW m \in Manager, Sync!SyncStep(m) PROVE SyncTyped'
  <2>1. /\ UNCHANGED <<members, changes>> /\ FaultsMore
        /\ Moves(m, {"members", "existing", "upsert"}, {"existing", "upsert", "done"})
    BY <1>2, NodeSyncFrame DEF SyncTyped
  <2>2. nodes' \in [Name -> Row] /\ sync' \in [Manager -> SyncType]
    BY <1>2, NodeSyncTyped DEF SyncTyped
  <2>3. pc' \in [Manager -> Sync!Step]
    BY <2>1 DEF Moves, SyncTyped, Sync!Step
  <2> QED BY <2>1, <2>2, <2>3 DEF SyncTyped, FaultsMore
<1>3. ASSUME NEW n \in Name, Sync!MemberChange(n, Name), UNCHANGED sync PROVE SyncTyped'
  <2>1. members' \in [Name -> MemberStatus \cup {"absent"}] /\ changes' \in 0 .. MaxChanges
        /\ UNCHANGED <<nodes, pc, faults>>
    BY <1>3, BoundAssumption DEF Sync!MemberChange, SyncTyped, Sync!MemberStatus, MemberStatus
  <2> QED BY <1>3, <2>1 DEF SyncTyped
<1>4. CASE UNCHANGED Sync!vars
  BY <1>4 DEF Sync!vars, Sync!shared, SyncTyped
<1>5. QED
  BY <1>1, <1>2, <1>3, <1>4 DEF Sync!Next

\* No write of a Syncer loses the name of a member.
LEMMA WritesTracked ==
  ASSUME SyncTyped, AllTracked, NEW m \in Manager, NEW n \in Name, SyncWrites(m, n)
  PROVE  \A k \in Name : nodes'[k].status # "absent" => nodes'[k].tracked
<1>1. nodes \in [Name -> Row]
  BY DEF SyncTyped
<1>2. CASE WriteNode(n, Sync!Upserted(m, n))
  BY <1>1, <1>2, SyncRowsTyped DEF WriteNode, SyncTyped, AllTracked
<1>3. CASE n \in sync[m].gone /\ WriteNode(n, Sync!Offline(m, n))
  <2>1. sync[m].existing[n].tracked
    BY <1>3 DEF AllTracked, SyncWrites
  <2>2. Sync!Offline(m, n).tracked
    BY <2>1, SyncRowsTyped DEF SyncTyped
  <2> QED BY <1>1, <1>3, <2>2 DEF WriteNode, AllTracked
<1> QED BY <1>2, <1>3 DEF SyncWrites

\* A step of a Sync keeps the copies of its manager tracked.
LEMMA CopiesTracked ==
  ASSUME SyncTyped, AllTracked, NEW m \in Manager, Sync!SyncStep(m)
  PROVE  /\ \A k \in Manager \ {m} : pc'[k] = pc[k] /\ sync'[k] = sync[k]
         /\ \A n \in Name : sync'[m].existing[n].status # "absent" => sync'[m].existing[n].tracked
         /\ pc'[m] = "upsert" => \A n \in sync'[m].gone : sync'[m].existing[n].status # "absent"
<1> DEFINE Goal ==
      /\ \A k \in Manager \ {m} : pc'[k] = pc[k] /\ sync'[k] = sync[k]
      /\ \A n \in Name : sync'[m].existing[n].status # "absent" => sync'[m].existing[n].tracked
      /\ pc'[m] = "upsert" => \A n \in sync'[m].gone : sync'[m].existing[n].status # "absent"
<1>0. sync \in [Manager -> SyncType] /\ pc \in [Manager -> Sync!Step]
  BY DEF SyncTyped
<1>1. CASE Sync!FetchMembers(m)
  <2>1. /\ \A k \in Manager \ {m} : pc'[k] = pc[k] /\ sync'[k] = sync[k]
        /\ sync'[m].existing = sync[m].existing /\ pc'[m] = "existing"
    BY <1>0, <1>1 DEF Sync!FetchMembers, SyncType
  <2> QED BY <2>1 DEF AllTracked
<1>2. CASE Sync!FetchFails(m) \/ \E n \in Name : Sync!UpsertFails(m, n)
  <2>1. /\ \A k \in Manager \ {m} : pc'[k] = pc[k] /\ sync'[k] = sync[k]
        /\ sync'[m] = Sync!NothingFetched /\ pc'[m] = "done"
    BY <1>0, <1>2 DEF Sync!FetchFails, Sync!UpsertFails
  <2> QED BY <2>1 DEF Sync!NothingFetched, Sync!NoRow
<1>3. CASE Sync!SyncReturns(m)
  BY <1>0, <1>3 DEF Sync!SyncReturns, AllTracked
<1>4. CASE Sync!ListExisting(m)
  <2>1. PICK indexed \in SUBSET Name :
          /\ \A n \in indexed : nodes[n].status # "absent"
          /\ \A n \in Name : nodes[n].status # "absent" /\ nodes[n].tracked => n \in indexed
          /\ sync'[m].existing = [n \in Name |-> IF n \in indexed THEN nodes[n] ELSE Sync!NoRow]
          /\ sync'[m].fetched = sync[m].fetched
          /\ sync'[m].todo = Seen(m)
          /\ sync'[m].gone = {n \in indexed : nodes[n].tracked => n \notin Seen(m)}
          /\ UNCHANGED nodes /\ pc' = [pc EXCEPT ![m] = "upsert"]
          /\ \A k \in Manager \ {m} : sync'[k] = sync[k]
    BY <1>0, <1>4, Listing
  <2>2. \A k \in Manager \ {m} : pc'[k] = pc[k]
    BY <1>0, <2>1
  <2> QED BY <2>1, <2>2 DEF AllTracked, Sync!NoRow
<1>5. ASSUME NEW n \in Name,
             Sync!UpsertMember(m, n) \/ Sync!MarkOffline(m, n) \/ Sync!MarkOfflineFails(m, n)
      PROVE  Goal
  <2>1. /\ \A k \in Manager \ {m} : pc'[k] = pc[k] /\ sync'[k] = sync[k]
        /\ sync'[m].existing = sync[m].existing /\ sync'[m].gone \subseteq sync[m].gone
        /\ pc[m] = "upsert"
    <3>1. CASE Sync!UpsertMember(m, n)
      BY <1>0, <3>1 DEF Sync!UpsertMember, SyncType
    <3>2. CASE Sync!MarkOffline(m, n)
      BY <1>0, <3>2 DEF Sync!MarkOffline, SyncType
    <3>3. CASE Sync!MarkOfflineFails(m, n)
      <4>1. pc[m] = "upsert" /\ pc' = pc
            /\ sync' = [sync EXCEPT ![m].gone = @ \ {n}, ![m].unmarked = @ \cup {n}]
        BY <3>3 DEF Sync!MarkOfflineFails
      <4> QED BY <1>0, <4>1 DEF SyncType
    <3> QED BY <1>5, <3>1, <3>2, <3>3
  <2> QED BY <2>1 DEF AllTracked
<1>6. QED
  BY <1>1, <1>2, <1>3, <1>4, <1>5 DEF Sync!SyncStep

\* Every step keeps every row and every copy tracked, however many Syncers run.
LEMMA AllTrackedStep ==
  ASSUME SyncTyped, AllTracked, [Sync!Next]_(Sync!vars)
  PROVE  AllTracked'
<1>0. sync \in [Manager -> SyncType] /\ pc \in [Manager -> Sync!Step]
  BY DEF SyncTyped
<1>1. ASSUME NEW m \in Manager, Sync!Tick(m) \/ Sync!RestOfPass(m) \/ Sync!Crash(m)
      PROVE  AllTracked'
  <2>1. /\ UNCHANGED nodes /\ pc'[m] # "upsert" /\ \A k \in Manager \ {m} : pc'[k] = pc[k]
        /\ sync' = sync \/ sync' = [sync EXCEPT ![m] = Sync!NothingFetched]
    BY <1>0, <1>1 DEF Sync!Tick, Sync!RestOfPass, Sync!Crash
  <2>2. \A n \in Name : Sync!NothingFetched.existing[n].status = "absent"
    BY DEF Sync!NothingFetched, Sync!NoRow
  <2> QED BY <1>0, <2>1, <2>2 DEF AllTracked
<1>2. ASSUME NEW m \in Manager, Sync!SyncStep(m) PROVE AllTracked'
  <2>1. \A n \in Name : nodes'[n].status # "absent" => nodes'[n].tracked
    <3>1. CASE UNCHANGED nodes
      BY <3>1 DEF AllTracked
    <3> QED BY <1>2, <3>1, OneNodeWrite, WritesTracked
  <2> QED BY <1>2, <2>1, CopiesTracked DEF AllTracked
<1>3. CASE (\E n \in Name : Sync!MemberChange(n, Name) /\ UNCHANGED sync) \/ UNCHANGED Sync!vars
  BY <1>3 DEF Sync!MemberChange, Sync!vars, Sync!shared, AllTracked
<1>4. QED
  BY <1>1, <1>2, <1>3 DEF Sync!Next

\* A Sync that runs alone goes on towards the view of its members.
LEMMA MirroringSync ==
  ASSUME SyncTyped, AllTracked, NEW m \in Manager, Mirroring(m), Sync!SyncStep(m)
  PROVE  Mirroring(m)'
<1>0. /\ sync \in [Manager -> SyncType] /\ pc \in [Manager -> Sync!Step]
      /\ nodes \in [Name -> Row]
  BY DEF SyncTyped
<1>1. CASE Sync!FetchMembers(m)
  BY <1>0, <1>1 DEF Sync!FetchMembers, Mirroring
<1>2. CASE Sync!FetchFails(m) \/ \E n \in Name : Sync!UpsertFails(m, n)
  <2>1. pc'[m] = "done" /\ sync'[m] = Sync!NothingFetched
    BY <1>0, <1>2 DEF Sync!FetchFails, Sync!UpsertFails
  <2>2. Sync!NothingFetched' = Sync!NothingFetched
    BY DEF Sync!NothingFetched, Sync!NoRow
  <2> QED BY <2>1, <2>2 DEF Mirroring
<1>3. CASE Sync!ListExisting(m)
  <2>1. PICK indexed \in SUBSET Name :
          /\ \A n \in indexed : nodes[n].status # "absent"
          /\ \A n \in Name : nodes[n].status # "absent" /\ nodes[n].tracked => n \in indexed
          /\ sync'[m].existing = [n \in Name |-> IF n \in indexed THEN nodes[n] ELSE Sync!NoRow]
          /\ sync'[m].fetched = sync[m].fetched
          /\ sync'[m].todo = Seen(m)
          /\ sync'[m].gone = {n \in indexed : nodes[n].tracked => n \notin Seen(m)}
          /\ UNCHANGED nodes /\ pc' = [pc EXCEPT ![m] = "upsert"]
          /\ \A k \in Manager \ {m} : sync'[k] = sync[k]
    BY <1>0, <1>3, Listing
  <2>2. Seen(m)' = Seen(m)
    BY <2>1 DEF Seen, Sync!Present
  <2>3. sync'[m].gone = indexed \ Seen(m)
    BY <2>1 DEF AllTracked
  <2>4. \A n \in Name \ indexed : nodes[n].status = "absent"
    BY <2>1 DEF AllTracked
  <2>5. pc'[m] = "upsert"
    BY <1>0, <2>1
  <2> QED BY <2>1, <2>2, <2>3, <2>4, <2>5 DEF Mirroring
<1>4. CASE Sync!SyncReturns(m)
  <2>1. /\ pc[m] = "upsert" /\ sync[m].todo = {} /\ sync[m].gone = {}
        /\ pc'[m] = "done" /\ UNCHANGED <<nodes, sync>>
    BY <1>0, <1>4 DEF Sync!SyncReturns
  <2>2. ASSUME NEW n \in Name \ sync[m].unmarked
        PROVE  Sync!Agrees(nodes[n], sync[m].fetched[n])
    <3>1. nodes[n] \in Row /\ sync[m].fetched[n] \in MemberStatus \cup {"absent"}
      BY <1>0 DEF SyncType
    <3>2. n \in Seen(m) <=> sync[m].fetched[n] # "absent"
      BY DEF Seen, Sync!Present
    <3>3. \/ n \in Seen(m) /\ nodes[n].status = Sync!MapLXDStatus(sync[m].fetched[n])
          \/ n \notin Seen(m) /\ nodes[n].status \in {"offline", "absent"}
      BY <2>1 DEF Mirroring
    <3> QED BY <3>1, <3>2, <3>3, AgreesIs
  <2>3. \A n \in Name \ sync'[m].unmarked : Sync!Agrees(nodes[n], sync[m].fetched[n])
    BY <2>1, <2>2
  <2>4. \A n \in Name \ sync'[m].unmarked : Sync!Agrees(nodes'[n], sync'[m].fetched[n])
    BY <2>1, <2>3
  <2> QED BY <2>1, <2>4 DEF Mirroring
<1>5. ASSUME NEW n \in Name, Sync!UpsertMember(m, n) PROVE Mirroring(m)'
  <2>1. /\ pc[m] = "upsert" /\ pc' = pc /\ n \in sync[m].todo
        /\ nodes' = [nodes EXCEPT ![n] = Sync!Upserted(m, n)]
        /\ sync' = [sync EXCEPT ![m].todo = @ \ {n}]
    BY <1>5 DEF Sync!UpsertMember, Sync!WriteNode
  <2>2. /\ sync'[m].todo = sync[m].todo \ {n} /\ sync'[m].gone = sync[m].gone
        /\ sync'[m].unmarked = sync[m].unmarked /\ sync'[m].fetched = sync[m].fetched
    BY <1>0, <2>1 DEF SyncType
  <2>3. Seen(m)' = Seen(m)
    BY <2>2 DEF Seen, Sync!Present
  <2>4. nodes'[n].status = Sync!MapLXDStatus(sync[m].fetched[n])
        /\ \A k \in Name \ {n} : nodes'[k] = nodes[k]
    BY <1>0, <2>1, SyncRowsTyped
  <2> QED BY <2>1, <2>2, <2>3, <2>4 DEF Mirroring
<1>6. ASSUME NEW n \in Name, Sync!MarkOffline(m, n) \/ Sync!MarkOfflineFails(m, n)
      PROVE  Mirroring(m)'
  <2>1. /\ pc[m] = "upsert" /\ pc' = pc /\ n \in sync[m].gone
        /\ \/ /\ nodes' = [nodes EXCEPT ![n] = Sync!Offline(m, n)]
              /\ sync' = [sync EXCEPT ![m].gone = @ \ {n}]
           \/ /\ nodes' = nodes \/ nodes' = [nodes EXCEPT ![n] = Sync!Offline(m, n)]
              /\ sync' = [sync EXCEPT ![m].gone = @ \ {n}, ![m].unmarked = @ \cup {n}]
    BY <1>6 DEF Sync!MarkOffline, Sync!MarkOfflineFails, Sync!LostWrite, Sync!WriteNode
  <2>2. /\ sync'[m].todo = sync[m].todo /\ sync'[m].gone = sync[m].gone \ {n}
        /\ sync'[m].fetched = sync[m].fetched
        /\ \/ sync'[m].unmarked = sync[m].unmarked /\ nodes'[n].status = "offline"
           \/ sync'[m].unmarked = sync[m].unmarked \cup {n}
    <3>1. CASE /\ nodes' = [nodes EXCEPT ![n] = Sync!Offline(m, n)]
               /\ sync' = [sync EXCEPT ![m].gone = @ \ {n}]
      BY <1>0, <3>1, SyncRowsTyped DEF SyncType
    <3>2. CASE sync' = [sync EXCEPT ![m].gone = @ \ {n}, ![m].unmarked = @ \cup {n}]
      BY <1>0, <3>2 DEF SyncType
    <3> QED BY <2>1, <3>1, <3>2
  <2>3. Seen(m)' = Seen(m)
    BY <2>2 DEF Seen, Sync!Present
  <2>4. \A k \in Name \ {n} : nodes'[k] = nodes[k]
    BY <1>0, <2>1
  <2>5. pc[m] = "upsert" /\ pc'[m] = "upsert" /\ n \notin Seen(m)
    BY <2>1 DEF Mirroring
  <2>6. \A k \in Seen(m) \ sync[m].todo : nodes'[k].status = Sync!MapLXDStatus(sync[m].fetched[k])
    BY <2>4, <2>5 DEF Mirroring, Seen, Sync!Present
  <2>7. \A k \in Name \ (Seen(m) \cup sync'[m].gone \cup sync'[m].unmarked) :
          nodes'[k].status \in {"offline", "absent"}
    BY <2>2, <2>4, <2>5 DEF Mirroring
  <2> QED BY <2>2, <2>3, <2>5, <2>6, <2>7 DEF Mirroring
<1>7. QED
  BY <1>1, <1>2, <1>3, <1>4, <1>5, <1>6 DEF Sync!SyncStep

\* A manager that is not deployed never starts.
LEMMA OffStays ==
  ASSUME SyncTyped, [Sync!Next]_(Sync!vars), NEW m \in Manager, OthersOff(m)'
  PROVE  OthersOff(m)
<1>0. pc \in [Manager -> Sync!Step]
  BY DEF SyncTyped
<1>1. ASSUME NEW k \in Manager, Sync!Tick(k) \/ Sync!RestOfPass(k) \/ Sync!Crash(k)
      PROVE  \A j \in Manager : pc'[j] = "off" => pc[j] = "off"
  BY <1>0, <1>1 DEF Sync!Tick, Sync!RestOfPass, Sync!Crash
<1>2. ASSUME NEW k \in Manager, Sync!SyncStep(k)
      PROVE  \A j \in Manager : pc'[j] = "off" => pc[j] = "off"
  <2>1. pc' = pc \/ \E s \in {"existing", "upsert", "done"} : pc' = [pc EXCEPT ![k] = s]
    BY <1>2 DEF Sync!SyncStep, Sync!FetchMembers, Sync!FetchFails, Sync!ListExisting, Sync!SyncReturns,
       Sync!UpsertMember, Sync!UpsertFails, Sync!MarkOffline, Sync!MarkOfflineFails
  <2> QED BY <1>0, <2>1
<1>3. CASE (\E n \in Name : Sync!MemberChange(n, Name) /\ UNCHANGED sync) \/ UNCHANGED Sync!vars
  BY <1>3 DEF Sync!MemberChange, Sync!vars, Sync!shared, OthersOff
<1>4. QED
  BY <1>1, <1>2, <1>3 DEF Sync!Next, OthersOff

\* The invariant of the Syncers is inductive.
LEMMA SyncInvStep ==
  ASSUME IsFiniteSet(Name), SyncInv, [Sync!Next]_(Sync!vars)
  PROVE  SyncInv'
<1>0. pc \in [Manager -> Sync!Step] /\ sync \in [Manager -> SyncType]
  BY DEF SyncInv, SyncTyped
<1>1. ASSUME NEW m \in Manager, OthersOff(m)' PROVE Mirroring(m)'
  <2>1. OthersOff(m) /\ Mirroring(m)
    BY <1>1, OffStays DEF SyncInv
  <2>2. ASSUME NEW k \in Manager, Sync!Tick(k) \/ Sync!RestOfPass(k) \/ Sync!Crash(k)
        PROVE  Mirroring(m)'
    <3>1. k = m
      BY <2>1, <2>2 DEF OthersOff, Sync!Tick, Sync!RestOfPass, Sync!Crash
    <3>2. pc'[m] \notin {"upsert", "done"}
      BY <1>0, <2>2, <3>1 DEF Sync!Tick, Sync!RestOfPass, Sync!Crash
    <3> QED BY <3>2 DEF Mirroring
  <2>3. ASSUME NEW k \in Manager, Sync!SyncStep(k) PROVE Mirroring(m)'
    <3>1. pc[k] # "off"
      BY <2>3 DEF Sync!SyncStep, Sync!FetchMembers, Sync!FetchFails, Sync!ListExisting, Sync!SyncReturns,
         Sync!UpsertMember, Sync!UpsertFails, Sync!MarkOffline, Sync!MarkOfflineFails
    <3>2. k = m
      BY <2>1, <3>1 DEF OthersOff
    <3> QED BY <2>1, <2>3, <3>2, MirroringSync DEF SyncInv
  <2>4. CASE (\E n \in Name : Sync!MemberChange(n, Name) /\ UNCHANGED sync) \/ UNCHANGED Sync!vars
    <3>1. UNCHANGED <<nodes, pc, sync>>
      BY <2>4 DEF Sync!MemberChange, Sync!vars, Sync!shared
    <3>2. Sync!NothingFetched' = Sync!NothingFetched
      BY DEF Sync!NothingFetched, Sync!NoRow
    <3> QED BY <2>1, <3>1, <3>2 DEF Mirroring, Seen, Sync!Present
  <2> QED BY <2>2, <2>3, <2>4 DEF Sync!Next
<1>2. SyncTyped' /\ AllTracked'
  BY SyncTypedStep, AllTrackedStep DEF SyncInv
<1> QED BY <1>1, <1>2 DEF SyncInv

\* sync.go, Sync: however many managers sync at a time, every variable of NodeSync
\* stays within its declared range.
THEOREM NodeSyncTypeCorrect ==
  ASSUME IsFiniteSet(Name)
  PROVE  Sync!Spec => []Sync!TypeOK
<1>1. SyncInv /\ [Sync!Next]_(Sync!vars) => SyncInv'
  BY SyncInvStep
<1>2. SyncInv => Sync!TypeOK
  BY SyncTypedIs DEF SyncInv
<1> QED BY <1>1, <1>2, SyncInit, PTL DEF Sync!Spec

\* sync.go:13-21: when the Sync of a manager that runs alone returns nil, every member
\* it fetched has a row with its status and every other row is offline, but for the
\* marks it logged as failed.
THEOREM SyncShowsMembers ==
  ASSUME IsFiniteSet(Name)
  PROVE  Sync!Spec => []Sync!SyncedView
<1>1. SyncInv /\ [Sync!Next]_(Sync!vars) => SyncInv'
  BY SyncInvStep
<1>2. SyncInv => Sync!SyncedView
  BY DEF SyncInv, OthersOff, Mirroring, Sync!SyncedView
<1> QED BY <1>1, <1>2, SyncInit, PTL DEF Sync!Spec
=============================================================================
