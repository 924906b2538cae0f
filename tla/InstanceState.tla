--------------------------- MODULE InstanceState ---------------------------
(***************************************************************************)
(* The instance table of the persistence layer, beside the node table.      *)
(* A row is keyed by the name of the instance (UNIQUE (cluster_id, name)),  *)
(* which no code changes and which also stands for its ID.  Of a row        *)
(*   status   is its Status, "absent" when there is no row;                 *)
(*   node     is its NodeID, or NoName;                                     *)
(*   limited  says that its CPU, memory and disk limits are set.            *)
(***************************************************************************)
EXTENDS ClusterState

CONSTANT Inst  \* names of the instances of the cluster

ASSUME InstAssumption == IsFiniteSet(Inst)

VARIABLE instances  \* persistence.InstanceRepository, the rows of this cluster

\* The InstanceStatus constants, and the status the schema gives a new row.
InstStatus == {"pending", "running", "stopped", "frozen", "unknown"}

InstRow   == [status : InstStatus \cup {"absent"}, node : Name \cup {NoName}, limited : BOOLEAN]
NoInst    == [status |-> "absent", node |-> NoName, limited |-> FALSE]
Known(table) == {i \in Inst : table[i].status # "absent"}

\* An instance without a node: it waits for the scheduler.
Waiting(i) == instances[i].status # "absent" /\ instances[i].node = NoName

\* The CHECKs of the SQL schema: positive limits, and a list of statuses.
RowAllowed(row) == SQLStore => row.limited /\ row.status \notin {"frozen", "unknown"}

\* CreateInstance and UpdateInstance, of the whole row.
CanInsert(i, row) == instances[i].status = "absent" /\ RowAllowed(row)
WriteInst(i, row) == instances' = [instances EXCEPT ![i] = row]

\* A write that returned an error; a database may have committed it.
LostInst(i, row) == UNCHANGED instances \/ (SQLStore /\ WriteInst(i, row))

\* What the table holds beside what the loop writes: an instance that waits to be
\* placed, with its limits.
WaitingRow == [status |-> "pending", node |-> NoName, limited |-> TRUE]

InstancesOK == instances \in [Inst -> InstRow]
=============================================================================
