------------------------------ MODULE ScaleOut ------------------------------
(***************************************************************************)
(* orchestrator.executeScaleOut: check that no node is being provisioned,   *)
(* provision a server at the hyperscaler, record a node for it, run the     *)
(* bootstrap workflow on it, and record the outcome.  Each call is a step;  *)
(* the process may crash between any two of them and its locals are lost.   *)
(***************************************************************************)
EXTENDS ClusterState

CONSTANT HasBootstrap  \* a NodeBootstrapRunner is configured

ASSUME BootstrapAssumption == HasBootstrap \in BOOLEAN

VARIABLES
  servers,  \* hyperscaler: the cloud servers that exist, by name
  scale     \* local state of executeScaleOut in each manager

vars == <<shared, servers, scale>>

Step == {"guard", "provision", "record", "bootstrap", "finish", "idle"}

NoScaleOut == [name     |-> NoName,  \* nodeName, of the spec and of the record
               recorded |-> FALSE,   \* nodeRecord # nil
               ready    |-> FALSE]   \* result.Ready

Unused == {n \in Name : nodes[n].status = "absent" /\ members[n] = "absent" /\ n \notin servers}

ScaleOutRow(status) == [status |-> status, tracked |-> FALSE, sized |-> FALSE]

Leave(m) ==
  /\ pc' = [pc EXCEPT ![m] = "idle"]
  /\ scale' = [scale EXCEPT ![m] = NoScaleOut]

-----------------------------------------------------------------------------
\* Step 1 finds a node being provisioned, or cannot list the nodes.
SkipScaleOut(m) ==
  /\ pc[m] = "guard"
  /\ \/ WithStatus("provisioning") # {} /\ UNCHANGED faults
     \/ Failing(1)
  /\ Leave(m)
  /\ UNCHANGED <<nodes, members, changes, servers>>

\* Mutant: the list of nodes is not looked at.
NoGuard(m) ==
  /\ pc[m] = "guard"
  /\ pc' = [pc EXCEPT ![m] = "provision"]
  /\ UNCHANGED <<nodes, members, faults, changes, servers, scale>>

PassGuard(m) ==
  /\ pc[m] = "guard" /\ WithStatus("provisioning") = {}
  /\ pc' = [pc EXCEPT ![m] = "provision"]
  /\ UNCHANGED <<nodes, members, faults, changes, servers, scale>>

\* Step 2 finds the configuration incomplete, or ProvisionServer fails: the
\* provider's quota is used up (the bound on servers: no name is left), it
\* refuses, or its answer is lost after it made the server.
ProvisionFails(m) ==
  /\ pc[m] = "provision"
  /\ \/ Unused = {} /\ UNCHANGED <<servers, faults>>
     \/ Failing(1) /\ UNCHANGED servers
     \/ Failing(1) /\ \E n \in Unused : servers' = servers \cup {n}
  /\ Leave(m)
  /\ UNCHANGED <<nodes, members, changes>>

\* Mutant: a retry makes a second server.
ProvisionTwice(m, n) ==
  /\ pc[m] = "provision" /\ n \in Unused
  /\ \E k \in Unused : servers' = servers \cup {n, k}
  /\ scale' = [scale EXCEPT ![m].name = n]
  /\ pc' = [pc EXCEPT ![m] = "record"]
  /\ UNCHANGED <<nodes, members, faults, changes>>

\* Steps 2 and 3.  generateNodeName's random suffix is a name not in use.
ProvisionServer(m, n) ==
  /\ pc[m] = "provision" /\ n \in Unused
  /\ servers' = servers \cup {n}
  /\ scale' = [scale EXCEPT ![m].name = n]
  /\ pc' = [pc EXCEPT ![m] = "record"]
  /\ UNCHANGED <<nodes, members, faults, changes>>

\* Without a bootstrap runner the scale-out ends here.
AfterRecord(m, recorded) ==
  IF HasBootstrap
    THEN /\ pc' = [pc EXCEPT ![m] = "bootstrap"]
         /\ scale' = [scale EXCEPT ![m].recorded = recorded]
    ELSE Leave(m)

\* Step 4: the row has no LXDMemberName and no capacity figures.
RecordServer(m) ==
  LET row == ScaleOutRow("provisioning")
  IN  /\ pc[m] = "record" /\ CanCreate(scale[m].name, row)
      /\ WriteNode(scale[m].name, row)
      /\ AfterRecord(m, TRUE)
      /\ UNCHANGED <<members, faults, changes, servers>>

\* CreateNode refuses the row, or fails: logged, and the bootstrap goes on.
RecordFails(m) ==
  LET row == ScaleOutRow("provisioning")
  IN  /\ pc[m] = "record"
      /\ IF CanCreate(scale[m].name, row) THEN Failing(1) /\ LostWrite(scale[m].name, row)
                                          ELSE UNCHANGED <<nodes, faults>>
      /\ AfterRecord(m, FALSE)
      /\ UNCHANGED <<members, changes, servers>>

\* Mutant: the outcome is only logged.
LogOutcome(m, ready) == Leave(m)

\* Step 5.  Without a record only the outcome is logged.
Bootstrapped(m, ready) ==
  IF scale[m].recorded
    THEN /\ scale' = [scale EXCEPT ![m].ready = ready]
         /\ pc' = [pc EXCEPT ![m] = "finish"]
    ELSE Leave(m)

Join(n) ==
  members' = [members EXCEPT ![n] = IF @ = "absent" THEN "Online" ELSE @]

\* Mutant: Ready without waiting for the join.
ReadyWithoutJoin(m) ==
  /\ pc[m] = "bootstrap"
  /\ Bootstrapped(m, TRUE)
  /\ UNCHANGED <<nodes, members, faults, changes, servers>>

\* The workflow is Ready once the seed lists the joiner as a member.
BootstrapReady(m) ==
  /\ pc[m] = "bootstrap"
  /\ Join(scale[m].name)
  /\ Bootstrapped(m, TRUE)
  /\ UNCHANGED <<nodes, faults, changes, servers>>

\* It fails before the join, or with the join under way or done.
BootstrapFails(m) ==
  /\ pc[m] = "bootstrap"
  /\ Failing(1)
  /\ UNCHANGED members \/ Join(scale[m].name)
  /\ Bootstrapped(m, FALSE)
  /\ UNCHANGED <<nodes, changes, servers>>

\* Mutant: the result is not looked at.
AlwaysOnline(m) == ScaleOutRow("online")

\* UpdateNode of the copy CreateNode returned.
Outcome(m) == ScaleOutRow(IF scale[m].ready THEN "online" ELSE "error")

FinishScaleOut(m) ==
  /\ pc[m] = "finish"
  /\ WriteNode(scale[m].name, Outcome(m))
  /\ Leave(m)
  /\ UNCHANGED <<members, faults, changes, servers>>

FinishFails(m) ==
  /\ pc[m] = "finish"
  /\ Failing(1) /\ LostWrite(scale[m].name, Outcome(m))
  /\ Leave(m)
  /\ UNCHANGED <<members, changes, servers>>

ScaleOutStep(m) ==
  \/ SkipScaleOut(m) \/ PassGuard(m) \/ ProvisionFails(m)
  \/ \E n \in Name : ProvisionServer(m, n)
  \/ RecordServer(m) \/ RecordFails(m) \/ BootstrapReady(m) \/ BootstrapFails(m)
  \/ FinishScaleOut(m) \/ FinishFails(m)

-----------------------------------------------------------------------------
(* Scale-out on its own: a pass of any manager may find capacity missing.   *)

Demand(m) ==
  /\ pc[m] = "idle"
  /\ pc' = [pc EXCEPT ![m] = "guard"]
  /\ UNCHANGED <<nodes, members, faults, changes, servers, scale>>

Crash(m) ==
  /\ pc[m] # "idle"
  /\ Failing(1)
  /\ Leave(m)
  /\ UNCHANGED <<nodes, members, changes, servers>>

Init ==
  /\ nodes = [n \in Name |-> NoRow]
  /\ members = [n \in Name |-> "absent"]
  /\ pc = [m \in Manager |-> "idle"]
  /\ faults = 0 /\ changes = 0
  /\ servers = {} /\ scale = [m \in Manager |-> NoScaleOut]

Next == \E m \in Manager : Demand(m) \/ ScaleOutStep(m) \/ Crash(m)

\* A pass that started runs on.
Fairness == \A m \in Manager : WF_vars(ScaleOutStep(m))

Spec     == Init /\ [][Next]_vars
FairSpec == Spec /\ Fairness

-----------------------------------------------------------------------------
LocalsOK ==
  /\ servers \subseteq Name
  /\ scale \in [Manager -> [name : Name \cup {NoName}, recorded : BOOLEAN, ready : BOOLEAN]]

\* Every variable stays within its declared range.
TypeOK == SharedTypeOK(Step) /\ LocalsOK

\* orchestrator.go:347-349, the anti-duplication guard: however managers
\* interleave, fail and crash, no more nodes are provisioning than there are
\* managers; a single manager never has two.
ProvisioningBounded == Cardinality(WithStatus("provisioning")) <= Cardinality(Manager)

\* model.go:19-21: a node a scale-out put online is a member of the LXD cluster.
OnlineIsMember == \A n \in WithStatus("online") : members[n] # "absent"

\* A cloud server whose name no node record bears.
Unrecorded == {n \in servers : nodes[n].status = "absent"}

\* orchestrator.go:356-358: every server without a record is in the hands of a
\* scale-out about to record it, or is the trace of a fault of its own: none
\* is forgotten in a run in which every call succeeds.
ServersAccounted ==
  Cardinality(Unrecorded \ {scale[m].name : m \in {k \in Manager : pc[k] = "record"}}) <= faults

\* orchestrator.go:356-358: what a manager bootstraps is recorded, so that
\* later passes are aware of it.
ProvisionedIsRecorded ==
  \A m \in Manager : pc[m] \in {"bootstrap", "finish"} => nodes[scale[m].name].status # "absent"

\* model.go:8-10: unless a fault hits its scale-out, a provisioning node ends
\* online or in error, and so never keeps the guard closed.
ProvisioningResolves ==
  \A n \in Name :
    nodes[n].status = "provisioning" ~> (nodes[n].status \in {"online", "error"} \/ faults > 0)
=============================================================================
