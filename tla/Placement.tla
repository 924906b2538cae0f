----------------------------- MODULE Placement -----------------------------
(***************************************************************************)
(* orchestrator.scheduleCluster: list the nodes and the instances once,     *)
(* then ask the scheduler for a node for each instance without one, record  *)
(* each placement in the repository and in the local list, and report       *)
(* whether some instance found no capacity.                                 *)
(***************************************************************************)
EXTENDS Scheduler

VARIABLE place  \* local state of scheduleCluster in each manager

vars == <<shared, instances, place>>

Step == {"schedule", "list", "loop", "scheduled", "idle"}

NotScheduling ==
  [nodes     |-> [n \in Name |-> NoRow],     \* the node list
   instances |-> [i \in Inst |-> NoInst],    \* the instance list, kept up to date
   todo      |-> {},                         \* instances the loop has not reached
   scaleOutRequired |-> FALSE]

-----------------------------------------------------------------------------
ListNodesToSchedule(m) ==
  /\ pc[m] = "schedule"
  /\ place' = [place EXCEPT ![m].nodes = nodes]
  /\ pc' = [pc EXCEPT ![m] = "list"]
  /\ UNCHANGED <<nodes, members, faults, changes, instances>>

\* The loop skips the instances the list shows on a node.
ListInstancesToSchedule(m) ==
  /\ pc[m] = "list"
  /\ place' = [place EXCEPT ![m].instances = instances,
                            ![m].todo = {i \in Inst : Waiting(i)}]
  /\ pc' = [pc EXCEPT ![m] = "loop"]
  /\ UNCHANGED <<nodes, members, faults, changes, instances>>

\* Either listing fails: no scale-out is asked for.
ListFails(m) ==
  /\ pc[m] \in {"schedule", "list"}
  /\ Failing(1)
  /\ pc' = [pc EXCEPT ![m] = "scheduled"]
  /\ place' = [place EXCEPT ![m] = NotScheduling]
  /\ UNCHANGED <<nodes, members, changes, instances>>

Chosen(m, i) == Schedule(place[m].nodes, place[m].instances, i)

\* The copy of the row, with the node that was chosen.
PlacedRow(m, i) == [place[m].instances[i] EXCEPT !.node = Chosen(m, i)]

\* Mutants: the local list is not refreshed; a placement that could not be
\* recorded asks for a scale-out; the loop ends at the first ErrNoCapacity.
PlaceUnrefreshed(m, i) ==
  /\ pc[m] = "loop" /\ i \in place[m].todo /\ Chosen(m, i) # NoName
  /\ WriteInst(i, PlacedRow(m, i))
  /\ place' = [place EXCEPT ![m].todo = @ \ {i}]
  /\ UNCHANGED <<nodes, members, pc, faults, changes>>

ScaleOutOnFailure(m, i) ==
  /\ pc[m] = "loop" /\ i \in place[m].todo /\ Chosen(m, i) # NoName
  /\ Failing(1)
  /\ place' = [place EXCEPT ![m].todo = @ \ {i}, ![m].scaleOutRequired = TRUE]
  /\ UNCHANGED <<nodes, members, pc, changes, instances>>

BreakOnNoCapacity(m, i) ==
  /\ pc[m] = "loop" /\ i \in place[m].todo /\ Chosen(m, i) = NoName
  /\ place' = [place EXCEPT ![m].todo = {}, ![m].scaleOutRequired = TRUE]
  /\ UNCHANGED <<nodes, members, pc, faults, changes, instances>>

\* UpdateInstance succeeds; the local list is refreshed for the next instance.
PlaceInstance(m, i) ==
  /\ pc[m] = "loop" /\ i \in place[m].todo /\ Chosen(m, i) # NoName
  /\ WriteInst(i, PlacedRow(m, i))
  /\ place' = [place EXCEPT ![m].todo = @ \ {i}, ![m].instances[i] = PlacedRow(m, i)]
  /\ UNCHANGED <<nodes, members, pc, faults, changes>>

\* UpdateInstance returns an error, logged; a database may have committed.  The
\* loop continues without the placement.
PlaceFails(m, i) ==
  /\ pc[m] = "loop" /\ i \in place[m].todo /\ Chosen(m, i) # NoName
  /\ Failing(1)
  /\ LostInst(i, PlacedRow(m, i))
  /\ place' = [place EXCEPT ![m].todo = @ \ {i}]
  /\ UNCHANGED <<nodes, members, pc, changes>>

\* ErrNoCapacity.
NoCapacity(m, i) ==
  /\ pc[m] = "loop" /\ i \in place[m].todo /\ Chosen(m, i) = NoName
  /\ place' = [place EXCEPT ![m].todo = @ \ {i}, ![m].scaleOutRequired = TRUE]
  /\ UNCHANGED <<nodes, members, pc, faults, changes, instances>>

ScheduleReturns(m) ==
  /\ pc[m] = "loop" /\ place[m].todo = {}
  /\ pc' = [pc EXCEPT ![m] = "scheduled"]
  /\ UNCHANGED <<nodes, members, faults, changes, instances, place>>

PlacementStep(m) ==
  \/ ListNodesToSchedule(m) \/ ListInstancesToSchedule(m) \/ ListFails(m) \/ ScheduleReturns(m)
  \/ \E i \in Inst : PlaceInstance(m, i) \/ PlaceFails(m, i) \/ NoCapacity(m, i)

-----------------------------------------------------------------------------
(* Scheduling on its own.  Before a pass reaches it, the inventory syncs    *)
(* have left some node table and moved instances anywhere, also onto nodes  *)
(* that are full.  The SQL schema holds no row without capacity.            *)

NodeTables ==
  [Name -> {NoRow} \cup [status : {"online", "offline"}, tracked : {TRUE},
                         sized : IF SQLStore THEN {TRUE} ELSE BOOLEAN]]

Resync(m) ==
  /\ pc[m] = "idle" /\ changes < MaxChanges
  /\ nodes' \in NodeTables
  /\ instances' \in [Inst -> [status : {"running"}, node : Rows(nodes') \cup {NoName},
                            limited : IF SQLStore THEN {TRUE} ELSE BOOLEAN]]
  /\ changes' = changes + 1
  /\ pc' = [pc EXCEPT ![m] = "schedule"]
  /\ place' = [place EXCEPT ![m] = NotScheduling]
  /\ UNCHANGED <<members, faults>>

RestOfPass(m) ==
  /\ pc[m] = "scheduled"
  /\ pc' = [pc EXCEPT ![m] = "idle"]
  /\ UNCHANGED <<nodes, members, faults, changes, instances, place>>

Init ==
  /\ nodes = [n \in Name |-> NoRow] /\ members = [n \in Name |-> "absent"]
  /\ instances = [i \in Inst |-> NoInst]
  /\ pc = [m \in Manager |-> "idle"] /\ faults = 0 /\ changes = 0
  /\ place = [m \in Manager |-> NotScheduling]

Next == \E m \in Manager : Resync(m) \/ PlacementStep(m) \/ RestOfPass(m)

Spec == Init /\ [][Next]_vars

-----------------------------------------------------------------------------
LocalsOK ==
  /\ InstancesOK
  /\ place \in [Manager ->
       [nodes : [Name -> Row], instances : [Inst -> InstRow],
        todo : SUBSET Inst, scaleOutRequired : BOOLEAN]]

\* A failed write of the SQL store may have committed; of the other one, never.
LostAnswers == IF SQLStore THEN faults ELSE 0

\* The rows as if the instances of some set were on no node, and where i fits when
\* as many others as there may be lost answers are not counted.
Without(hidden) ==
  [j \in Inst |-> IF j \in hidden THEN [instances[j] EXCEPT !.node = NoName] ELSE instances[j]]

FitsBut(i, n) ==
  \E hidden \in SUBSET (Inst \ {i}) :
    Cardinality(hidden) <= LostAnswers /\ n \in Eligible(nodes, Without(hidden), i)

Placed(i) == instances'[i].node # instances[i].node /\ \E m \in Manager : pc[m] = "loop"

\* orchestrator.go:331-338: however many instances a pass places, each lands on
\* a node that, by the stored rows at that moment, is online, sized and has
\* room for it in every dimension: a pass never overcommits a node.  Only the local
\* list does not count a placement whose answer was lost (321-325): on the SQL store
\* there is room but for that many others, each lost answer hiding one and no more.
PlacementFits == [][\A i \in Inst : Placed(i) => FitsBut(i, instances'[i].node)]_vars

\* ADR-006: a placement goes to a fullest node that has room, by the stored
\* rows and not by the ones the pass began with.
PlacedOnFullest ==
  [][\A i \in Inst : Placed(i) =>
       \A n \in Eligible(nodes, instances, i) :
         LET chosen == instances'[i].node
         IN  Score(instances, n) * Volume(chosen) <= Score(instances, chosen) * Volume(n)]_vars

\* orchestrator.go:272-273: a pass asks for a scale-out only when, at its end,
\* some instance without a node fits nowhere.
ScaleOutRequiredIsReal ==
  \A m \in Manager : pc[m] = "scheduled" /\ place[m].scaleOutRequired =>
    \E i \in Inst : Waiting(i) /\ Eligible(nodes, instances, i) = {}

\* And it leaves no instance that fits somewhere without a node, unless a
\* listing or the recording of its placement failed.
NothingLeftOut ==
  \A m \in Manager : pc[m] = "scheduled" /\ faults = 0 =>
    \A i \in Inst : Waiting(i) =>
      Eligible(nodes, instances, i) = {} /\ place[m].scaleOutRequired
=============================================================================
