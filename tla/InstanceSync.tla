---------------------------- MODULE InstanceSync ----------------------------
(***************************************************************************)
(* inventory.InstanceSyncer.Sync: mirror the instances LXD hosts into the   *)
(* instance table.  The LXD instances, the node rows (to turn a location    *)
(* into a NodeID) and the instance rows are fetched one after the other;    *)
(* then each hosted instance is created or updated, and each row LXD no     *)
(* longer knows becomes unknown and loses its node, from the copies of the  *)
(* listing.                                                                 *)
(***************************************************************************)
EXTENDS InstanceState

VARIABLES
  hosted,  \* LXD: the status and the location of every instance
  isync    \* local state of Sync: what each manager fetched and listed

vars == <<shared, instances, hosted, isync>>

Step == {"hosted", "locate", "tracked", "track", "recorded", "idle", "off"}

LXDStatus == {"Running", "Stopped", "Frozen", "Error"}
HostedRow == [status : LXDStatus \cup {"absent"}, location : Name \cup {NoName}]
NotHosted == [status |-> "absent", location |-> NoName]
Hosted(list) == {i \in Inst : list[i].status # "absent"}

\* The row of a member, as a node sync writes it.
MemberRow == [status |-> "online", tracked |-> TRUE, sized |-> TRUE]

NothingListed ==
  [fetched  |-> [i \in Inst |-> NotHosted],  \* lxdInstances
   located  |-> {},      \* the keys of nodeIDByLXDName
   existing |-> [i \in Inst |-> NoInst],     \* the copies in byName
   todo     |-> {},      \* instances not upserted yet
   gone     |-> {},      \* copies whose instance LXD no longer returns
   unmarked |-> {}]      \* marks that failed, which Sync only logs

\* mapLXDInstanceStatus: an unrecognised status is unknown.
MapLXDInstanceStatus(s) ==
  CASE s = "Running" -> "running" [] s = "Stopped" -> "stopped"
    [] s = "Frozen" -> "frozen"   [] OTHER -> "unknown"

-----------------------------------------------------------------------------
\* Phase 1: ListInstances of the LXD client.
FetchInstances(m) ==
  /\ pc[m] = "hosted"
  /\ isync' = [isync EXCEPT ![m].fetched = hosted]
  /\ pc' = [pc EXCEPT ![m] = "locate"]
  /\ UNCHANGED <<nodes, members, faults, changes, instances, hosted>>

\* Phase 2: ListNodes.  A row without LXDMemberName resolves no location.
ListLocations(m) ==
  /\ pc[m] = "locate"
  /\ isync' = [isync EXCEPT ![m].located = {n \in Rows(nodes) : nodes[n].tracked}]
  /\ pc' = [pc EXCEPT ![m] = "tracked"]
  /\ UNCHANGED <<nodes, members, faults, changes, instances, hosted>>

\* Phase 3: ListInstances of the repository.
ListTracked(m) ==
  /\ pc[m] = "tracked"
  /\ LET seen == Hosted(isync[m].fetched)
     IN  isync' = [isync EXCEPT ![m].existing = instances,
                                ![m].todo = seen,
                                ![m].gone = Known(instances) \ seen]
  /\ pc' = [pc EXCEPT ![m] = "track"]
  /\ UNCHANGED <<nodes, members, faults, changes, instances, hosted>>

\* One of the three cannot be read: nothing is touched.
ListingFails(m) ==
  /\ pc[m] \in {"hosted", "locate", "tracked"}
  /\ Failing(1)
  /\ pc' = [pc EXCEPT ![m] = "recorded"]
  /\ isync' = [isync EXCEPT ![m] = NothingListed]
  /\ UNCHANGED <<nodes, members, changes, instances, hosted>>

\* Mutant: a location nobody knows is taken for a node.
RawLocation(m, i) == isync[m].fetched[i].location

\* The NodeID of a location, "" when no row has this member name.
NodeOf(m, i) ==
  IF isync[m].fetched[i].location \in isync[m].located
    THEN isync[m].fetched[i].location ELSE NoName

\* Mutant: the record is built anew, as for a new instance.
RecordAnew(m, i) ==
  [status |-> MapLXDInstanceStatus(isync[m].fetched[i].status),
   node |-> NodeOf(m, i), limited |-> FALSE]

\* Status and NodeID of the copy are replaced; a new record has no limits.
Recorded(m, i) ==
  [isync[m].existing[i] EXCEPT !.status = MapLXDInstanceStatus(isync[m].fetched[i].status),
                               !.node = NodeOf(m, i)]

\* Phase 4: UpdateInstance of a row of the listing, else CreateInstance.
CanRecord(m, i) ==
  IF isync[m].existing[i].status # "absent"
    THEN RowAllowed(Recorded(m, i)) ELSE CanInsert(i, Recorded(m, i))

RecordInstance(m, i) ==
  /\ pc[m] = "track" /\ i \in isync[m].todo /\ CanRecord(m, i)
  /\ WriteInst(i, Recorded(m, i))
  /\ isync' = [isync EXCEPT ![m].todo = @ \ {i}]
  /\ UNCHANGED <<nodes, members, pc, faults, changes, hosted>>

\* An error of the repository ends Sync.
RecordFails(m, i) ==
  /\ pc[m] = "track" /\ i \in isync[m].todo
  /\ IF CanRecord(m, i) THEN Failing(1) /\ LostInst(i, Recorded(m, i))
                        ELSE UNCHANGED <<instances, faults>>
  /\ pc' = [pc EXCEPT ![m] = "recorded"]
  /\ isync' = [isync EXCEPT ![m] = NothingListed]
  /\ UNCHANGED <<nodes, members, changes, hosted>>

\* Mutant: the row keeps its node.
OnlyUnknown(m, i) == [isync[m].existing[i] EXCEPT !.status = "unknown"]

Unknown(m, i) == [isync[m].existing[i] EXCEPT !.status = "unknown", !.node = NoName]

\* Phase 5: a copy whose instance is gone.
MarkUnknown(m, i) ==
  /\ pc[m] = "track" /\ isync[m].todo = {} /\ i \in isync[m].gone
  /\ RowAllowed(Unknown(m, i))
  /\ WriteInst(i, Unknown(m, i))
  /\ isync' = [isync EXCEPT ![m].gone = @ \ {i}]
  /\ UNCHANGED <<nodes, members, pc, faults, changes, hosted>>

\* A mark that fails is logged, and the others go on.
MarkUnknownFails(m, i) ==
  /\ pc[m] = "track" /\ isync[m].todo = {} /\ i \in isync[m].gone
  /\ IF RowAllowed(Unknown(m, i)) THEN Failing(1) /\ LostInst(i, Unknown(m, i))
                                  ELSE UNCHANGED <<instances, faults>>
  /\ isync' = [isync EXCEPT ![m].gone = @ \ {i}, ![m].unmarked = @ \cup {i}]
  /\ UNCHANGED <<nodes, members, pc, changes, hosted>>

\* Sync returns nil.
InstancesSynced(m) ==
  /\ pc[m] = "track" /\ isync[m].todo = {} /\ isync[m].gone = {}
  /\ pc' = [pc EXCEPT ![m] = "recorded"]
  /\ UNCHANGED <<nodes, members, faults, changes, instances, hosted, isync>>

SyncStep(m) ==
  \/ FetchInstances(m) \/ ListLocations(m) \/ ListTracked(m) \/ ListingFails(m)
  \/ \E i \in Inst : \/ RecordInstance(m, i) \/ RecordFails(m, i)
                     \/ MarkUnknown(m, i) \/ MarkUnknownFails(m, i)
  \/ InstancesSynced(m)

\* LXD stops, freezes, moves, loses or gains an instance on a member in Homes.
HostedChange(i, Homes) ==
  /\ changes < MaxChanges
  /\ \E row \in {NotHosted} \cup [status : LXDStatus, location : Homes] :
       /\ row # hosted[i]
       /\ hosted' = [hosted EXCEPT ![i] = row]
  /\ changes' = changes + 1
  /\ UNCHANGED <<nodes, members, pc, faults, instances>>

-----------------------------------------------------------------------------
(* Instance syncers on their own, as in NodeSync; the node table gains rows *)
(* and loses none, which is what the node syncs do to it.                   *)

Tick(m) ==
  /\ pc[m] = "idle"
  /\ pc' = [pc EXCEPT ![m] = "hosted"]
  /\ UNCHANGED <<nodes, members, faults, changes, instances, hosted, isync>>

RestOfPass(m) ==
  /\ pc[m] = "recorded"
  /\ pc' = [pc EXCEPT ![m] = "idle"]
  /\ isync' = [isync EXCEPT ![m] = NothingListed]
  /\ UNCHANGED <<nodes, members, faults, changes, instances, hosted>>

Crash(m) ==
  /\ pc[m] \notin {"idle", "off"}
  /\ Failing(1)
  /\ pc' = [pc EXCEPT ![m] = "idle"]
  /\ isync' = [isync EXCEPT ![m] = NothingListed]
  /\ UNCHANGED <<nodes, members, changes, instances, hosted>>

\* A node sync creates the row of a member.
NodeAppears(n) ==
  /\ changes < MaxChanges
  /\ CanCreate(n, MemberRow)
  /\ WriteNode(n, MemberRow)
  /\ changes' = changes + 1
  /\ UNCHANGED <<members, pc, faults, instances, hosted, isync>>

Init ==
  /\ nodes \in [Name -> {NoRow, MemberRow}]
  /\ members = [n \in Name |-> "Online"]
  /\ pc \in [Manager -> {"idle", "off"}] /\ \E m \in Manager : pc[m] = "idle"
  /\ faults = 0 /\ changes = 0
  /\ instances \in [Inst -> {NoInst, WaitingRow}]
  /\ hosted \in [Inst -> {NotHosted} \cup [status : {"Running"}, location : Name]]
  /\ isync = [m \in Manager |-> NothingListed]

Next ==
  \/ \E m \in Manager : Tick(m) \/ SyncStep(m) \/ RestOfPass(m) \/ Crash(m)
  \/ \E i \in Inst : HostedChange(i, Name) /\ UNCHANGED isync
  \/ \E n \in Name : NodeAppears(n)

\* The ticker keeps firing and a started pass runs on; faults and changes of
\* LXD need not happen.
Fairness == \A m \in Manager : WF_vars(Tick(m) \/ SyncStep(m) \/ RestOfPass(m))

Spec     == Init /\ [][Next]_vars
FairSpec == Spec /\ Fairness

-----------------------------------------------------------------------------
LocalsOK ==
  /\ InstancesOK
  /\ hosted \in [Inst -> HostedRow]
  /\ isync \in [Manager ->
       [fetched : [Inst -> HostedRow], located : SUBSET Name, existing : [Inst -> InstRow],
        todo : SUBSET Inst, gone : SUBSET Inst, unmarked : SUBSET Inst]]

\* Every variable stays within its declared range.
TypeOK == SharedTypeOK(Step) /\ LocalsOK

\* The row of an instance LXD hosts has its status, and its node when the
\* location is one of `known`; any other row is unknown and on no node.
Shows(row, host, known) ==
  IF host.status = "absent"
    THEN row.status \in {"absent", "unknown"} /\ row.node = NoName
    ELSE /\ row.status = MapLXDInstanceStatus(host.status)
         /\ row.node = IF host.location \in known THEN host.location ELSE NoName

\* instance_sync.go:13-27: when the Sync of a manager that runs alone returns
\* nil, the table shows what it fetched, but for the marks it logged as failed.
InstancesView ==
  \A m \in Manager :
    /\ pc[m] = "recorded" /\ isync[m] # NothingListed
    /\ \A k \in Manager \ {m} : pc[k] = "off"
    => \A i \in Inst \ isync[m].unmarked :
         Shows(instances[i], isync[m].fetched[i], isync[m].located)

\* instance_sync.go:29-30: whatever crashes, failing calls, stale listings and other
\* managers there were, once LXD and the node table are quiet the instance table
\* shows LXD and keeps doing so.
EventuallyShown ==
  <>[](\A i \in Inst : Shows(instances[i], hosted[i], {n \in Rows(nodes) : nodes[n].tracked}))

\* instance_sync.go:141-144: no sync, however stale its copies, loses the limits
\* the scheduler counts with.
LimitsKept == [][\A i \in Inst : instances[i].limited => instances'[i].limited]_vars
=============================================================================
