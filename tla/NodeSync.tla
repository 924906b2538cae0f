------------------------------ MODULE NodeSync ------------------------------
(***************************************************************************)
(* inventory.Syncer.Sync: mirror the LXD membership list into the node      *)
(* table.  Everything is fetched from LXD first; then the rows are listed;  *)
(* then each member is created or updated, and each row whose member is     *)
(* gone is marked offline, from the copies taken at the listing.  Every     *)
(* repository call is a step of its own: other managers, LXD and crashes    *)
(* come in between.                                                         *)
(***************************************************************************)
EXTENDS ClusterState

VARIABLE sync  \* local state of Sync: what each manager fetched and listed

vars == <<shared, sync>>

Step == {"members", "existing", "upsert", "done", "idle", "off"}

NothingFetched ==
  [fetched   |-> [n \in Name |-> "absent"],  \* member list (md.info.Status)
   resources |-> {},      \* members whose resource figures were available
   existing  |-> [n \in Name |-> NoRow],     \* the copies in byLXDName
   todo      |-> {},      \* members not upserted yet
   gone      |-> {},      \* copies whose member LXD no longer returns
   unmarked  |-> {}]      \* marks that failed, which Sync only logs

\* Mutant: the figures are dropped on a failed fetch.
ZeroResources(row, available) == [row EXCEPT !.sized = available]

\* mapLXDStatus: an unrecognised status is offline.
MapLXDStatus(s) ==
  CASE s = "Online" -> "online" [] s = "Evacuating" -> "draining" [] OTHER -> "offline"

\* applyResources: figures that could not be fetched leave the old ones.
ApplyResources(row, available) == [row EXCEPT !.sized = @ \/ available]

-----------------------------------------------------------------------------
\* GetClusterMembers, then GetNodeResources of each; a member whose figures
\* fail is kept without them.
FetchMembers(m) ==
  /\ pc[m] = "members"
  /\ \E lost \in SUBSET Present(members) :
       /\ Failing(Cardinality(lost))
       /\ sync' = [sync EXCEPT ![m].fetched = members,
                               ![m].resources = Present(members) \ lost]
  /\ pc' = [pc EXCEPT ![m] = "existing"]
  /\ UNCHANGED <<nodes, members, changes>>

\* LXD, or the listing of the rows, cannot be reached: nothing is touched.
FetchFails(m) ==
  /\ pc[m] \in {"members", "existing"}
  /\ Failing(1)
  /\ pc' = [pc EXCEPT ![m] = "done"]
  /\ sync' = [sync EXCEPT ![m] = NothingFetched]
  /\ UNCHANGED <<nodes, members, changes>>

\* ListNodes, indexed by LXDMemberName: rows without one share the key "", and
\* the row listed last keeps it.
IndexByLXDName(keeper) ==
  {n \in Rows(nodes) : nodes[n].tracked} \cup (keeper \cap Rows(nodes))

Keepers ==
  LET untracked == {n \in Rows(nodes) : ~nodes[n].tracked}
  IN  IF untracked = {} THEN {{}} ELSE {{n} : n \in untracked}

ListExisting(m) ==
  /\ pc[m] = "existing"
  /\ \E keeper \in Keepers :
       LET indexed == IndexByLXDName(keeper)
           seen    == Present(sync[m].fetched)
       IN  sync' = [sync EXCEPT
             ![m].existing = [n \in Name |-> IF n \in indexed THEN nodes[n] ELSE NoRow],
             ![m].todo = seen,
             ![m].gone = {n \in indexed : nodes[n].tracked => n \notin seen}]
  /\ pc' = [pc EXCEPT ![m] = "upsert"]
  /\ UNCHANGED <<nodes, members, faults, changes>>

\* The row of a member: the copy from the listing, updated, or a new one.
Upserted(m, n) ==
  ApplyResources([sync[m].existing[n] EXCEPT !.status = MapLXDStatus(sync[m].fetched[n]),
                                             !.tracked = TRUE],
                 n \in sync[m].resources)

\* UpdateNode of a row the listing had under this member name, else CreateNode.
CanUpsert(m, n) == sync[m].existing[n].tracked \/ CanCreate(n, Upserted(m, n))

UpsertMember(m, n) ==
  /\ pc[m] = "upsert" /\ n \in sync[m].todo /\ CanUpsert(m, n)
  /\ WriteNode(n, Upserted(m, n))
  /\ sync' = [sync EXCEPT ![m].todo = @ \ {n}]
  /\ UNCHANGED <<members, pc, faults, changes>>

\* An error of the repository ends Sync: the row cannot be created (ErrConflict,
\* CHECK), or the call fails.
UpsertFails(m, n) ==
  /\ pc[m] = "upsert" /\ n \in sync[m].todo
  /\ IF CanUpsert(m, n) THEN Failing(1) /\ LostWrite(n, Upserted(m, n))
                        ELSE UNCHANGED <<nodes, faults>>
  /\ pc' = [pc EXCEPT ![m] = "done"]
  /\ sync' = [sync EXCEPT ![m] = NothingFetched]
  /\ UNCHANGED <<members, changes>>

\* Mutant: the status of the copy is not changed.
MarkNothing(m, n) == sync[m].existing[n]

Offline(m, n) == [sync[m].existing[n] EXCEPT !.status = "offline"]

\* Phase 4, once every member is upserted: a copy whose member is gone.
MarkOffline(m, n) ==
  /\ pc[m] = "upsert" /\ sync[m].todo = {} /\ n \in sync[m].gone
  /\ WriteNode(n, Offline(m, n))
  /\ sync' = [sync EXCEPT ![m].gone = @ \ {n}]
  /\ UNCHANGED <<members, pc, faults, changes>>

\* A mark that fails is logged, and the others go on.
MarkOfflineFails(m, n) ==
  /\ pc[m] = "upsert" /\ sync[m].todo = {} /\ n \in sync[m].gone
  /\ Failing(1) /\ LostWrite(n, Offline(m, n))
  /\ sync' = [sync EXCEPT ![m].gone = @ \ {n}, ![m].unmarked = @ \cup {n}]
  /\ UNCHANGED <<members, pc, changes>>

\* Mutant: phase 4 is left after any number of marks.
ReturnEarly(m) ==
  /\ pc[m] = "upsert" /\ sync[m].todo = {}
  /\ pc' = [pc EXCEPT ![m] = "done"]
  /\ UNCHANGED <<nodes, members, faults, changes, sync>>

\* Sync returns nil.
SyncReturns(m) ==
  /\ pc[m] = "upsert" /\ sync[m].todo = {} /\ sync[m].gone = {}
  /\ pc' = [pc EXCEPT ![m] = "done"]
  /\ UNCHANGED <<nodes, members, faults, changes, sync>>

SyncStep(m) ==
  \/ FetchMembers(m) \/ FetchFails(m) \/ ListExisting(m) \/ SyncReturns(m)
  \/ \E n \in Name : \/ UpsertMember(m, n) \/ UpsertFails(m, n)
                     \/ MarkOffline(m, n) \/ MarkOfflineFails(m, n)

-----------------------------------------------------------------------------
(* Syncers on their own: a tick starts each pass, the rest of a pass does   *)
(* nothing to the node table, and a manager may crash at any step.  A       *)
(* manager that is "off" from the start is not deployed.                    *)

Tick(m) ==
  /\ pc[m] = "idle"
  /\ pc' = [pc EXCEPT ![m] = "members"]
  /\ UNCHANGED <<nodes, members, faults, changes, sync>>

RestOfPass(m) ==
  /\ pc[m] = "done"
  /\ pc' = [pc EXCEPT ![m] = "idle"]
  /\ sync' = [sync EXCEPT ![m] = NothingFetched]
  /\ UNCHANGED <<nodes, members, faults, changes>>

\* The process dies and is restarted; its locals are gone.
Crash(m) ==
  /\ pc[m] \notin {"idle", "off"}
  /\ Failing(1)
  /\ pc' = [pc EXCEPT ![m] = "idle"]
  /\ sync' = [sync EXCEPT ![m] = NothingFetched]
  /\ UNCHANGED <<nodes, members, changes>>

Init ==
  /\ nodes = [n \in Name |-> NoRow]
  /\ members \in [Name -> {"absent", "Online"}]
  /\ pc \in [Manager -> {"idle", "off"}] /\ \E m \in Manager : pc[m] = "idle"
  /\ faults = 0 /\ changes = 0
  /\ sync = [m \in Manager |-> NothingFetched]

Next ==
  \/ \E m \in Manager : Tick(m) \/ SyncStep(m) \/ RestOfPass(m) \/ Crash(m)
  \/ \E n \in Name : MemberChange(n, Name) /\ UNCHANGED sync

\* The ticker keeps firing and a started pass runs on; faults and membership
\* changes need not happen.
Fairness == \A m \in Manager : WF_vars(Tick(m) \/ SyncStep(m) \/ RestOfPass(m))

Spec     == Init /\ [][Next]_vars
FairSpec == Spec /\ Fairness

-----------------------------------------------------------------------------
LocalsOK ==
  sync \in [Manager ->
    [fetched : [Name -> MemberStatus \cup {"absent"}], resources : SUBSET Name,
     existing : [Name -> Row], todo : SUBSET Name, gone : SUBSET Name,
     unmarked : SUBSET Name]]

\* Every variable stays within its declared range.
TypeOK == SharedTypeOK(Step) /\ LocalsOK

\* The row of a member in status s: an online row for an Online member only, a
\* draining one for an Evacuating member, and offline, or no row, otherwise.
Agrees(row, s) ==
  /\ row.status = "online" <=> s = "Online"
  /\ row.status = "draining" <=> s = "Evacuating"
  /\ s \notin {"Online", "Evacuating"} => row.status \in {"offline", "absent"}
  /\ row.status = "absent" => s = "absent"

\* sync.go:13-21: when the Sync of a manager that runs alone returns nil, every
\* fetched member has a row with its status, and every other row is offline, but
\* for the marks it logged as failed, whatever the table was before.
SyncedView ==
  \A m \in Manager :
    pc[m] = "done" /\ sync[m] # NothingFetched /\ (\A k \in Manager \ {m} : pc[k] = "off") =>
    \A n \in Name \ sync[m].unmarked : Agrees(nodes[n], sync[m].fetched[n])

\* The table holds what LXD reports now.
Mirrored == \A n \in Name : Agrees(nodes[n], members[n])

\* sync.go:23-24: whatever crashes, failing calls, stale listings and other
\* managers there were, once LXD is quiet the table converges to it and stays.
EventuallyMirrored == <>[]Mirrored
=============================================================================
