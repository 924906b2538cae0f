---------------------------- MODULE ClusterState ----------------------------
(***************************************************************************)
(* The state the components of one managed cluster share: the node table   *)
(* of the persistence layer, the membership list of the LXD cluster, and    *)
(* the program counter of each manager process, whose reconcile goroutine   *)
(* walks through a pass (orchestrator.reconcileCluster) one repository,     *)
(* LXD or provider call at a time.                                          *)
(*                                                                         *)
(* A row of the node table is keyed by its Name, unique in a cluster        *)
(* (memory.NodeStore, UNIQUE (cluster_id, name)), which also stands for its *)
(* ID: no code of the repository renames a node.  Names are naturals, and   *)
(* their order is the order of the IDs.  Three facts about a row matter:    *)
(*   status   its NodeStatus constant, "absent" when there is no row;       *)
(*   tracked  LXDMemberName is the row's own name (TRUE) or "" (FALSE);     *)
(*   sized    its CPU, memory and disk figures are known (non-zero).        *)
(***************************************************************************)
EXTENDS Integers, FiniteSets

CONSTANTS
  Manager,        \* manager processes, each running the reconcile loop
  Name,           \* names of nodes, LXD members and cloud servers
  SQLStore,       \* TRUE: the PostgreSQL repositories; FALSE: the in-memory ones
  MaxFaults,      \* bound on failing calls and crashes in a behaviour
  MaxChanges      \* bound on changes LXD makes on its own

ASSUME ManagerAssumption == IsFiniteSet(Manager) /\ Manager # {}
ASSUME NameAssumption    == Name \subseteq Nat \ {0}
ASSUME StoreAssumption   == SQLStore \in BOOLEAN
ASSUME BoundAssumption   == MaxFaults \in Nat /\ MaxChanges \in Nat

VARIABLES
  nodes,    \* persistence.NodeRepository, the rows of this cluster
  members,  \* LXD: the cluster members and their status
  pc,       \* where each manager is in its reconcile pass
  faults,   \* faults so far
  changes   \* membership changes so far

shared == <<nodes, members, pc, faults, changes>>

NoName == 0

NodeStatus   == {"provisioning", "online", "offline", "draining", "error"}
MemberStatus == {"Online", "Evacuating", "Offline"}

Row     == [status : NodeStatus \cup {"absent"}, tracked : BOOLEAN, sized : BOOLEAN]
NoRow   == [status |-> "absent", tracked |-> FALSE, sized |-> FALSE]
Rows(table)   == {n \in Name : table[n].status # "absent"}
Present(list) == {n \in Name : list[n] # "absent"}

WithStatus(status) == {n \in Name : nodes[n].status = status}

-----------------------------------------------------------------------------
(* The node repository.                                                     *)

\* CreateNode: a name in use is ErrConflict, and the CHECKs of the SQL schema
\* refuse a row with zero capacity.
CanCreate(n, row) ==
  /\ nodes[n].status = "absent"
  /\ SQLStore => row.sized

\* UpdateNode replaces the whole row by the caller's copy.
WriteNode(n, row) == nodes' = [nodes EXCEPT ![n] = row]

\* A write that returned an error: the in-memory store did nothing, a database
\* may have committed before the answer was lost.
LostWrite(n, row) == UNCHANGED nodes \/ (SQLStore /\ WriteNode(n, row))

-----------------------------------------------------------------------------
(* Faults and the environment.                                              *)

\* k calls of this step fail.
Failing(k) == faults + k <= MaxFaults /\ faults' = faults + k

\* LXD changes the status of a member, loses it, or gains one that `Joins`
\* allows, without any manager asking for it.
MemberChange(n, Joins) ==
  /\ changes < MaxChanges
  /\ \E s \in (MemberStatus \cup {"absent"}) \ {members[n]} :
       /\ members[n] = "absent" => n \in Joins /\ s = "Online"
       /\ members' = [members EXCEPT ![n] = s]
  /\ changes' = changes + 1
  /\ UNCHANGED <<nodes, pc, faults>>

SharedTypeOK(Step) ==
  /\ nodes \in [Name -> Row]
  /\ members \in [Name -> MemberStatus \cup {"absent"}]
  /\ pc \in [Manager -> Step]
  /\ faults \in 0 .. MaxFaults
  /\ changes \in 0 .. MaxChanges
=============================================================================
