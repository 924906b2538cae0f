---------------------------- MODULE Orchestrator ----------------------------
(***************************************************************************)
(* orchestrator.Run and reconcileCluster for one cluster: on each tick a    *)
(* manager syncs the node inventory and the instance inventory, places the  *)
(* instances that wait for a node, and scales out when one found no         *)
(* capacity.  NodeSync, InstanceSync, Placement and ScaleOut work on one    *)
(* node table, one instance table, one LXD cluster and one provider; this   *)
(* module runs their steps in the order of reconcileCluster, with crashes,  *)
(* and with LXD members and instances that come and go.                     *)
(***************************************************************************)
EXTENDS Scheduler

CONSTANTS
  Seed,               \* members of the LXD cluster at the start
  Running,            \* instances LXD runs on a seed at the start
  HasNodeSyncer,      \* the options the orchestrator was built with
  HasInstanceSyncer,
  HasBootstrap

ASSUME OptionAssumption == {HasNodeSyncer, HasInstanceSyncer, HasBootstrap} \subseteq BOOLEAN
ASSUME SeedAssumption   == Seed \subseteq Name /\ Seed # {} /\ Running \subseteq Inst

VARIABLES sync, hosted, isync, place, servers, scale

Sync  == INSTANCE NodeSync
Insts == INSTANCE InstanceSync
Plan  == INSTANCE Placement
Scale == INSTANCE ScaleOut

locals == <<sync, isync, place, scale>>
world  == <<instances, hosted, servers>>
vars   == <<shared, world, locals>>

Step == Sync!Step \cup Insts!Step \cup Plan!Step \cup Scale!Step

-----------------------------------------------------------------------------
\* Where a pass goes on: the first of its steps that is configured.
AfterNodeSync == IF HasInstanceSyncer THEN "hosted" ELSE "schedule"

\* The ticker fires and ListClusters returns the cluster.
StartPass(m) ==
  /\ pc[m] = "idle"
  /\ pc' = [pc EXCEPT ![m] = IF HasNodeSyncer THEN "members" ELSE AfterNodeSync]
  /\ UNCHANGED <<nodes, members, faults, changes, locals, world>>

SyncNodes(m) == Sync!SyncStep(m) /\ UNCHANGED <<isync, place, scale, world>>

\* Mutant: a failed sync ends the pass.
AbortOnSyncError(m) ==
  /\ pc[m] = "done"
  /\ pc' = [pc EXCEPT ![m] = IF sync[m] = Sync!NothingFetched THEN "idle" ELSE AfterNodeSync]
  /\ sync' = [sync EXCEPT ![m] = Sync!NothingFetched]
  /\ UNCHANGED <<nodes, members, faults, changes, isync, place, scale, world>>

\* An error of the node sync is only logged: the pass goes on in any case.
NodesSynced(m) ==
  /\ pc[m] = "done"
  /\ pc' = [pc EXCEPT ![m] = AfterNodeSync]
  /\ sync' = [sync EXCEPT ![m] = Sync!NothingFetched]
  /\ UNCHANGED <<nodes, members, faults, changes, isync, place, scale, world>>

SyncInstances(m) == Insts!SyncStep(m) /\ UNCHANGED <<sync, place, scale, servers>>

\* And so is an error of the instance sync.
StartScheduling(m) ==
  /\ pc[m] = "recorded"
  /\ pc' = [pc EXCEPT ![m] = "schedule"]
  /\ isync' = [isync EXCEPT ![m] = Insts!NothingListed]
  /\ UNCHANGED <<nodes, members, faults, changes, sync, place, scale, world>>

ScheduleInstances(m) ==
  Plan!PlacementStep(m) /\ UNCHANGED <<sync, isync, scale, hosted, servers>>

\* Mutant: every pass with a provider scales out.
AlwaysScaleOut(m) == "guard"

AfterScheduling(m) == IF place[m].scaleOutRequired THEN "guard" ELSE "idle"

StartScaleOut(m) ==
  /\ pc[m] = "scheduled"
  /\ pc' = [pc EXCEPT ![m] = AfterScheduling(m)]
  /\ place' = [place EXCEPT ![m] = Plan!NotScheduling]
  /\ UNCHANGED <<nodes, members, faults, changes, sync, isync, scale, world>>

ExecuteScaleOut(m) ==
  Scale!ScaleOutStep(m) /\ UNCHANGED <<sync, isync, place, instances, hosted>>

PassStep(m) ==
  \/ StartPass(m) \/ SyncNodes(m) \/ NodesSynced(m) \/ SyncInstances(m)
  \/ StartScheduling(m) \/ ScheduleInstances(m) \/ StartScaleOut(m) \/ ExecuteScaleOut(m)

\* The process ends at any point of the pass (main does not wait for Run) and
\* is started again; nothing but the repositories, LXD and the servers is left.
Crash(m) ==
  /\ pc[m] # "idle"
  /\ Failing(1)
  /\ pc' = [pc EXCEPT ![m] = "idle"]
  /\ sync' = [sync EXCEPT ![m] = Sync!NothingFetched]
  /\ isync' = [isync EXCEPT ![m] = Insts!NothingListed]
  /\ place' = [place EXCEPT ![m] = Plan!NotScheduling]
  /\ scale' = [scale EXCEPT ![m] = Scale!NoScaleOut]
  /\ UNCHANGED <<nodes, members, changes, world>>

\* Members that are servers or seeds fail, leave and return.
LXDChanges ==
  \E n \in Name : MemberChange(n, servers \cup Seed) /\ UNCHANGED <<locals, world>>

\* Instances are made, stopped, moved and deleted in LXD.
InstancesChange ==
  /\ HasInstanceSyncer
  /\ \E i \in Inst : Insts!HostedChange(i, Present(members))
  /\ UNCHANGED <<locals, servers>>

Init ==
  /\ nodes = [n \in Name |-> NoRow]
  /\ members = [n \in Name |-> IF n \in Seed THEN "Online" ELSE "absent"]
  /\ pc = [m \in Manager |-> "idle"] /\ faults = 0 /\ changes = 0
  /\ sync = [m \in Manager |-> Sync!NothingFetched]
  /\ instances = [i \in Inst |-> IF i \in Running THEN NoInst ELSE WaitingRow]
  /\ \E home \in Seed :
       hosted = [i \in Inst |-> IF i \in Running THEN [status |-> "Running", location |-> home]
                                                ELSE Insts!NotHosted]
  /\ isync = [m \in Manager |-> Insts!NothingListed]
  /\ place = [m \in Manager |-> Plan!NotScheduling]
  /\ servers = {}
  /\ scale = [m \in Manager |-> Scale!NoScaleOut]

Next == (\E m \in Manager : PassStep(m) \/ Crash(m)) \/ LXDChanges \/ InstancesChange

\* The ticker keeps firing and a pass runs on; no fault has to happen.
Fairness == \A m \in Manager : WF_vars(PassStep(m))

Spec     == Init /\ [][Next]_vars
FairSpec == Spec /\ Fairness

-----------------------------------------------------------------------------
\* Every variable stays within its declared range.
TypeOK ==
  /\ SharedTypeOK(Step)
  /\ Sync!LocalsOK /\ Insts!LocalsOK /\ Plan!LocalsOK /\ Scale!LocalsOK

\* orchestrator.go:249-257, ADR-006: when a server is provisioned, an instance
\* without a node fits on no node of the table as it is at that moment.
ScaleOutJustified ==
  [][servers' # servers =>
       \E i \in Inst : Waiting(i) /\ Eligible(nodes, instances, i) = {}]_vars

\* Some dimension of a node has less than its instances request.
Overcommitted(n) == \E d \in Dim : Allocated(instances, n, d) > CapacityOf(nodes, n, d)

\* ADR-006, orchestrator.go:331-338: whatever a pass syncs, places or provisions, a
\* node becomes overcommitted only in a step that mirrors where LXD runs an
\* instance, or after a placement whose answer a database may have lost.
OvercommitOnlyMirrored ==
  [][\A n \in Name : Overcommitted(n)' /\ ~Overcommitted(n) =>
       \/ \E m \in Manager : pc[m] = "track"
       \/ SQLStore /\ faults > 0]_vars

\* orchestrator.go:347-349: however many passes find capacity missing, no more than one
\* server per manager is no member yet, and one more for each fault or departure.
OneAttemptAtATime ==
  Cardinality({n \in servers : members[n] = "absent"}) <= Cardinality(Manager) + faults + changes

\* orchestrator.go:229-230: whatever step fails, and for however long, an
\* instance for which there is room does not wait for ever.
PendingServed ==
  \A i \in Inst : ~<>[](Waiting(i) /\ Eligible(nodes, instances, i) # {})

\* orchestrator.go:201-202: the node of a scale-out becomes capacity the scheduler
\* can place workloads on.
ScaleOutAddsCapacity ==
  \A n \in Name : n \in servers ~> (nodes[n].status = "online" /\ nodes[n].sized)

\* applyResources (sync.go:193-196) in the whole loop: figures once known survive
\* any later step, whatever resource endpoint fails in it.
CapacityKept == [][\A n \in Name : nodes[n].sized => nodes'[n].sized]_vars

\* 0001_initial_schema.up.sql:92, which the in-memory store does not enforce: the
\* node of an instance is one of the node table, whatever listing it was taken from.
InstancesOnRows == \A i \in Inst : instances[i].node \in Rows(nodes) \cup {NoName}

\* instance_sync.go:141-144 in the whole loop: the sync and the scheduler both write
\* whole rows from their own copies, and neither loses a row or the limits of one.
InstancesStay ==
  [][\A i \in Inst : instances[i].status # "absent" =>
       instances'[i].status # "absent" /\ instances'[i].limited = instances[i].limited]_vars

\* model.go:89-91, instance_sync.go:31-33: an instance that LXD no longer shows is
\* not scheduled until a later sync has confirmed it.
UnknownNotScheduled ==
  [][\A i \in Inst : instances[i].status = "unknown" => ~Plan!Placed(i)]_vars
=============================================================================
