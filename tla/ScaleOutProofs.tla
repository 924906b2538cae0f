--------------------------- MODULE ScaleOutProofs ---------------------------
(***************************************************************************)
(* For any set of managers, any names, either kind of store and any number  *)
(* of faults: a scale-out keeps its types, never has more provisioning      *)
(* nodes than there are managers, and puts only cluster members online.     *)
(***************************************************************************)
EXTENDS ScaleOut, FiniteSetTheorems, TLAPS

Provisioning == WithStatus("provisioning")

\* Managers that passed the guard and have not recorded a server yet.
Pending == {m \in Manager : pc[m] \in {"provision", "record"}}

\* The inductive invariant behind the guard: a manager that found no
\* provisioning node holds a ticket, which CreateNode turns into a row.
Tickets ==
  /\ IsFiniteSet(Provisioning)
  /\ Cardinality(Provisioning) + Cardinality(Pending) <= Cardinality(Manager)

\* A scale-out past the provider knows its server; one whose workflow was Ready
\* has seen it join.
Joined ==
  \A m \in Manager :
    /\ pc[m] \in {"record", "bootstrap", "finish"} => scale[m].name \in Name
    /\ pc[m] = "finish" /\ scale[m].ready => members[scale[m].name] # "absent"

-----------------------------------------------------------------------------
(* Types.                                                                   *)

\* The rows a scale-out writes are rows.
LEMMA RowsTyped ==
  /\ ScaleOutRow("provisioning") \in Row
  /\ \A m \in Manager : Outcome(m) \in Row
BY DEF ScaleOutRow, Outcome, Row, NodeStatus

\* The initial state is well typed.
LEMMA InitTypeOK == Init => TypeOK
<1> SUFFICES ASSUME Init PROVE TypeOK
  OBVIOUS
<1>1. nodes \in [Name -> Row]
  BY DEF Init, NoRow, Row, NodeStatus
<1>2. members \in [Name -> MemberStatus \cup {"absent"}] /\ pc \in [Manager -> Step]
  BY DEF Init, Step
<1>3. faults \in 0 .. MaxFaults /\ changes \in 0 .. MaxChanges
  BY BoundAssumption DEF Init
<1>4. servers \subseteq Name
  BY DEF Init
<1>5. scale \in [Manager -> [name : Name \cup {NoName}, recorded : BOOLEAN, ready : BOOLEAN]]
  BY DEF Init, NoScaleOut
<1>6. QED
  BY <1>1, <1>2, <1>3, <1>4, <1>5 DEF TypeOK, SharedTypeOK, LocalsOK

ScaleType == [Manager -> [name : Name \cup {NoName}, recorded : BOOLEAN, ready : BOOLEAN]]

\* What follows the recording and the workflow keeps the types.
LEMMA LocalsTyped ==
  ASSUME pc \in [Manager -> Step], scale \in ScaleType,
         NEW m \in Manager, NEW b \in BOOLEAN
  PROVE  /\ Leave(m) => pc' \in [Manager -> Step] /\ scale' \in ScaleType
         /\ AfterRecord(m, b) => pc' \in [Manager -> Step] /\ scale' \in ScaleType
         /\ Bootstrapped(m, b) => pc' \in [Manager -> Step] /\ scale' \in ScaleType
<1>1. Leave(m) => pc' \in [Manager -> Step] /\ scale' \in ScaleType
  BY DEF Leave, NoScaleOut, ScaleType, Step
<1>2. [scale EXCEPT ![m].recorded = b] \in ScaleType
  BY DEF ScaleType
<1>3. [scale EXCEPT ![m].ready = b] \in ScaleType
  BY DEF ScaleType
<1>4. /\ [pc EXCEPT ![m] = "bootstrap"] \in [Manager -> Step]
      /\ [pc EXCEPT ![m] = "finish"] \in [Manager -> Step]
  BY DEF Step
<1>5. AfterRecord(m, b) => pc' \in [Manager -> Step] /\ scale' \in ScaleType
  BY <1>1, <1>2, <1>4 DEF AfterRecord
<1>6. Bootstrapped(m, b) => pc' \in [Manager -> Step] /\ scale' \in ScaleType
  BY <1>1, <1>3, <1>4 DEF Bootstrapped
<1>7. QED
  BY <1>1, <1>5, <1>6

\* Every step keeps the types.
LEMMA TypeStep == TypeOK /\ [Next]_vars => TypeOK'
<1> SUFFICES ASSUME TypeOK, [Next]_vars PROVE TypeOK'
  OBVIOUS
<1> USE BoundAssumption, RowsTyped
    DEF TypeOK, SharedTypeOK, LocalsOK, Step, Leave, Failing, WriteNode, LostWrite,
        NoScaleOut, Join, MemberStatus
<1>1. ASSUME NEW m \in Manager, Demand(m) PROVE TypeOK'
  BY <1>1 DEF Demand
<1>2. ASSUME NEW m \in Manager, Crash(m) PROVE TypeOK'
  BY <1>2 DEF Crash
<1>3. ASSUME NEW m \in Manager, SkipScaleOut(m) PROVE TypeOK'
  BY <1>3 DEF SkipScaleOut
<1>4. ASSUME NEW m \in Manager, PassGuard(m) PROVE TypeOK'
  BY <1>4 DEF PassGuard
<1>5. ASSUME NEW m \in Manager, ProvisionFails(m) PROVE TypeOK'
  BY <1>5 DEF ProvisionFails, Unused
<1>6. ASSUME NEW m \in Manager, NEW n \in Name, ProvisionServer(m, n) PROVE TypeOK'
  BY <1>6 DEF ProvisionServer
<1>7. ASSUME NEW m \in Manager, RecordServer(m) \/ RecordFails(m) PROVE TypeOK'
  <2>1. AfterRecord(m, TRUE) \/ AfterRecord(m, FALSE)
    BY <1>7 DEF RecordServer, RecordFails
  <2>2. pc' \in [Manager -> Step] /\ scale' \in ScaleType
    BY <2>1, LocalsTyped DEF ScaleType
  <2>3. nodes' \in [Name -> Row]
    BY <1>7 DEF RecordServer, RecordFails
  <2>4. faults' \in 0 .. MaxFaults
    <3>1. faults' = faults \/ (faults + 1 <= MaxFaults /\ faults' = faults + 1)
      BY <1>7 DEF RecordServer, RecordFails
    <3>2. faults \in 0 .. MaxFaults
      OBVIOUS
    <3>3. QED
      BY <3>1, <3>2, BoundAssumption
  <2>5. UNCHANGED <<members, changes, servers>>
    BY <1>7 DEF RecordServer, RecordFails
  <2>6. QED
    BY <2>2, <2>3, <2>4, <2>5 DEF ScaleType
<1>8. ASSUME NEW m \in Manager, BootstrapReady(m) \/ BootstrapFails(m) PROVE TypeOK'
  <2>1. Bootstrapped(m, TRUE) \/ Bootstrapped(m, FALSE)
    BY <1>8 DEF BootstrapReady, BootstrapFails
  <2>2. pc' \in [Manager -> Step] /\ scale' \in ScaleType
    BY <2>1, LocalsTyped DEF ScaleType
  <2>3. members' \in [Name -> MemberStatus \cup {"absent"}]
    BY <1>8 DEF BootstrapReady, BootstrapFails
  <2>4. faults' \in 0 .. MaxFaults
    <3>1. faults' = faults \/ (faults + 1 <= MaxFaults /\ faults' = faults + 1)
      BY <1>8 DEF BootstrapReady, BootstrapFails
    <3>2. faults \in 0 .. MaxFaults
      OBVIOUS
    <3>3. QED
      BY <3>1, <3>2, BoundAssumption
  <2>5. UNCHANGED <<nodes, changes, servers>>
    BY <1>8 DEF BootstrapReady, BootstrapFails
  <2>6. QED
    BY <2>2, <2>3, <2>4, <2>5 DEF ScaleType
<1>9. ASSUME NEW m \in Manager, FinishScaleOut(m) PROVE TypeOK'
  BY <1>9 DEF FinishScaleOut
<1>10. ASSUME NEW m \in Manager, FinishFails(m) PROVE TypeOK'
  BY <1>10 DEF FinishFails
<1>11. CASE UNCHANGED vars
  BY <1>11 DEF vars, shared
<1>12. QED
  BY <1>1, <1>2, <1>3, <1>4, <1>5, <1>6, <1>7, <1>8, <1>9, <1>10, <1>11 DEF Next, ScaleOutStep

\* executeScaleOut: every variable stays within its declared range.
THEOREM TypeCorrect == Spec => []TypeOK
  BY InitTypeOK, TypeStep, PTL DEF Spec

-----------------------------------------------------------------------------
(* The guard.                                                               *)

\* Nobody is added to the rows or to the pending managers.
LEMMA TicketsShrink ==
  ASSUME Tickets, Provisioning' \subseteq Provisioning, Pending' \subseteq Pending
  PROVE  Tickets'
<1>1. IsFiniteSet(Provisioning) /\ IsFiniteSet(Pending)
  <2>1. Pending \subseteq Manager
    BY DEF Pending
  <2>2. QED
    BY <2>1, ManagerAssumption, FS_Subset DEF Tickets
<1>2. /\ IsFiniteSet(Provisioning') /\ Cardinality(Provisioning') <= Cardinality(Provisioning)
      /\ IsFiniteSet(Pending') /\ Cardinality(Pending') <= Cardinality(Pending)
  BY <1>1, FS_Subset
<1>3. /\ Cardinality(Provisioning) \in Nat /\ Cardinality(Pending) \in Nat
      /\ Cardinality(Provisioning') \in Nat /\ Cardinality(Pending') \in Nat
      /\ Cardinality(Manager) \in Nat
  BY <1>1, <1>2, ManagerAssumption, FS_CardinalityType
<1>4. QED
  BY <1>2, <1>3 DEF Tickets

\* A pending manager turns its ticket into a row.
LEMMA TicketToRow ==
  ASSUME Tickets, NEW m \in Pending, NEW n,
         Provisioning' \subseteq Provisioning \cup {n}, Pending' = Pending \ {m}
  PROVE  Tickets'
<1>1. IsFiniteSet(Provisioning) /\ IsFiniteSet(Pending)
  <2>1. Pending \subseteq Manager
    BY DEF Pending
  <2>2. QED
    BY <2>1, ManagerAssumption, FS_Subset DEF Tickets
<1>2. /\ IsFiniteSet(Pending \ {m})
      /\ Cardinality(Pending \ {m}) = Cardinality(Pending) - 1
  BY <1>1, FS_RemoveElement
<1>3. /\ IsFiniteSet(Provisioning \cup {n})
      /\ Cardinality(Provisioning \cup {n}) <= Cardinality(Provisioning) + 1
  <2>1. Cardinality(Provisioning) \in Nat
    BY <1>1, FS_CardinalityType
  <2>2. /\ IsFiniteSet(Provisioning \cup {n})
        /\ Cardinality(Provisioning \cup {n}) =
             IF n \in Provisioning THEN Cardinality(Provisioning)
                                  ELSE Cardinality(Provisioning) + 1
    BY <1>1, FS_AddElement
  <2>3. QED
    BY <2>1, <2>2
<1>4. /\ IsFiniteSet(Provisioning')
      /\ Cardinality(Provisioning') <= Cardinality(Provisioning \cup {n})
  BY <1>3, FS_Subset
<1>5. /\ Cardinality(Provisioning) \in Nat /\ Cardinality(Pending) \in Nat
      /\ Cardinality(Provisioning') \in Nat /\ Cardinality(Provisioning \cup {n}) \in Nat
      /\ Cardinality(Manager) \in Nat
  BY <1>1, <1>3, <1>4, ManagerAssumption, FS_CardinalityType
<1>6. QED
  BY <1>2, <1>3, <1>4, <1>5 DEF Tickets

\* The guard passed: no row is being provisioned, and no more managers are
\* pending than there are.
LEMMA TicketIssued ==
  ASSUME Provisioning = {}, Provisioning' = Provisioning
  PROVE  Tickets'
<1>1. Pending' \subseteq Manager
  BY DEF Pending
<1>2. IsFiniteSet(Pending') /\ Cardinality(Pending') <= Cardinality(Manager)
  BY <1>1, ManagerAssumption, FS_Subset
<1>3. Cardinality(Pending') \in Nat /\ Cardinality(Manager) \in Nat
  BY <1>2, ManagerAssumption, FS_CardinalityType
<1>4. QED
  BY <1>2, <1>3, FS_EmptySet DEF Tickets

\* What writing a row with some status does to the provisioning rows.
LEMMA RowWritten ==
  ASSUME nodes \in [Name -> Row], NEW n, NEW row, WriteNode(n, row)
  PROVE  /\ Provisioning' \subseteq Provisioning \cup {n}
         /\ row.status # "provisioning" => Provisioning' \subseteq Provisioning
BY DEF WriteNode, Provisioning, WithStatus

\* Who leaves executeScaleOut is not pending any more.
LEMMA LeaveEndsPending ==
  ASSUME NEW S, pc \in [Manager -> S], NEW m \in Manager, Leave(m)
  PROVE  Pending' = Pending \ {m}
BY DEF Leave, Pending

\* Every step of executeScaleOut keeps the tickets.
LEMMA ScaleOutTickets ==
  ASSUME nodes \in [Name -> Row], NEW S, pc \in [Manager -> S], Tickets,
         NEW m \in Manager, ScaleOutStep(m)
  PROVE  Tickets'
<1>1. ASSUME UNCHANGED nodes PROVE Provisioning' = Provisioning
  BY <1>1 DEF Provisioning, WithStatus
<1>2. CASE SkipScaleOut(m) \/ ProvisionFails(m)
  <2>1. Leave(m) /\ UNCHANGED nodes
    BY <1>2 DEF SkipScaleOut, ProvisionFails
  <2>2. QED
    BY <2>1, <1>1, LeaveEndsPending, TicketsShrink
<1>3. CASE PassGuard(m)
  BY <1>1, <1>3, TicketIssued DEF PassGuard, Provisioning
<1>4. ASSUME NEW n \in Name, ProvisionServer(m, n) PROVE Tickets'
  <2>1. Pending' = Pending
    BY <1>4 DEF ProvisionServer, Pending
  <2>2. QED
    BY <2>1, <1>1, <1>4, TicketsShrink DEF ProvisionServer
<1>5. CASE RecordServer(m) \/ RecordFails(m)
  <2>1. m \in Pending
    BY <1>5 DEF RecordServer, RecordFails, Pending
  <2>2. AfterRecord(m, TRUE) \/ AfterRecord(m, FALSE)
    BY <1>5 DEF RecordServer, RecordFails
  <2>3. Pending' = Pending \ {m}
    BY <2>2, LeaveEndsPending DEF AfterRecord, Pending
  <2>4. WriteNode(scale[m].name, ScaleOutRow("provisioning")) \/ UNCHANGED nodes
    BY <1>5 DEF RecordServer, RecordFails, LostWrite
  <2>5. Provisioning' \subseteq Provisioning \cup {scale[m].name}
    BY <1>1, <2>4, RowWritten
  <2>6. QED
    BY <2>1, <2>3, <2>5, TicketToRow
<1>6. CASE BootstrapReady(m) \/ BootstrapFails(m)
  <2>1. Bootstrapped(m, TRUE) \/ Bootstrapped(m, FALSE)
    BY <1>6 DEF BootstrapReady, BootstrapFails
  <2>2. Pending' \subseteq Pending
    BY <2>1, LeaveEndsPending DEF Bootstrapped, Pending
  <2>3. UNCHANGED nodes
    BY <1>6 DEF BootstrapReady, BootstrapFails
  <2>4. QED
    BY <1>1, <2>2, <2>3, TicketsShrink
<1>7. CASE FinishScaleOut(m) \/ FinishFails(m)
  <2>1. Leave(m) /\ (WriteNode(scale[m].name, Outcome(m)) \/ UNCHANGED nodes)
    BY <1>7 DEF FinishScaleOut, FinishFails, LostWrite
  <2>2. Outcome(m).status # "provisioning"
    BY DEF Outcome, ScaleOutRow
  <2>3. Provisioning' \subseteq Provisioning
    BY <1>1, <2>1, <2>2, RowWritten
  <2>4. QED
    BY <2>1, <2>3, LeaveEndsPending, TicketsShrink
<1>8. QED
  BY <1>2, <1>3, <1>4, <1>5, <1>6, <1>7 DEF ScaleOutStep

\* And so do the steps that surround it here.
LEMMA TicketsStep == TypeOK /\ Tickets /\ [Next]_vars => Tickets'
<1> SUFFICES ASSUME TypeOK, Tickets, [Next]_vars PROVE Tickets'
  OBVIOUS
<1>0. pc \in [Manager -> Step] /\ nodes \in [Name -> Row]
  BY DEF TypeOK, SharedTypeOK
<1>1. ASSUME UNCHANGED nodes PROVE Provisioning' = Provisioning
  BY <1>1 DEF Provisioning, WithStatus
<1>2. ASSUME NEW m \in Manager, Demand(m) PROVE Tickets'
  <2>1. Pending' = Pending
    BY <1>0, <1>2 DEF Demand, Pending
  <2>2. QED
    BY <2>1, <1>1, <1>2, TicketsShrink DEF Demand
<1>3. ASSUME NEW m \in Manager, Crash(m) PROVE Tickets'
  <2>1. Leave(m) /\ UNCHANGED nodes
    BY <1>3 DEF Crash
  <2>2. QED
    BY <1>0, <2>1, <1>1, LeaveEndsPending, TicketsShrink
<1>4. ASSUME NEW m \in Manager, ScaleOutStep(m) PROVE Tickets'
  BY <1>0, <1>4, ScaleOutTickets
<1>5. CASE UNCHANGED vars
  <2>1. Provisioning' = Provisioning /\ Pending' = Pending
    BY <1>5 DEF vars, shared, Provisioning, WithStatus, Pending
  <2>2. QED
    BY <2>1, TicketsShrink
<1>6. QED
  BY <1>2, <1>3, <1>4, <1>5 DEF Next

\* Where nothing is provisioning and nobody is pending, there are tickets enough.
LEMMA TicketsInit ==
  ASSUME Provisioning = {}, Pending = {}
  PROVE  Tickets
BY FS_EmptySet, ManagerAssumption, FS_CardinalityType DEF Tickets

\* The tickets are an invariant of the specification.
THEOREM TicketsInvariant == Spec => [](TypeOK /\ Tickets)
<1>1. Init => Tickets
  <2> SUFFICES ASSUME Init PROVE Tickets
    OBVIOUS
  <2>1. Provisioning = {}
    BY DEF Init, Provisioning, WithStatus, NoRow
  <2>2. Pending = {}
    BY DEF Init, Pending
  <2>3. QED
    BY <2>1, <2>2, TicketsInit
<1>2. QED
  BY <1>1, InitTypeOK, TypeStep, TicketsStep, PTL DEF Spec

\* No more rows than tickets.
LEMMA TicketsBound == Tickets => ProvisioningBounded
<1> SUFFICES ASSUME Tickets PROVE ProvisioningBounded
  OBVIOUS
<1>1. Pending \subseteq Manager
  BY DEF Pending
<1>2. IsFiniteSet(Pending) /\ IsFiniteSet(Provisioning)
  BY <1>1, ManagerAssumption, FS_Subset DEF Tickets
<1>3. /\ Cardinality(Pending) \in Nat /\ Cardinality(Provisioning) \in Nat
      /\ Cardinality(Manager) \in Nat
  BY <1>2, ManagerAssumption, FS_CardinalityType
<1>4. QED
  BY <1>3 DEF Tickets, ProvisioningBounded, Provisioning

\* orchestrator.go:347-349, the anti-duplication guard.
THEOREM ProvisioningIsBounded == Spec => []ProvisioningBounded
  BY TicketsBound, TicketsInvariant, PTL

-----------------------------------------------------------------------------
(* Online nodes.                                                            *)

\* Every step keeps what a scale-out knows of its server, and online nodes stay
\* members.
LEMMA JoinedStep ==
  TypeOK /\ Joined /\ OnlineIsMember /\ [Next]_vars => Joined' /\ OnlineIsMember'
<1> SUFFICES ASSUME TypeOK, Joined, OnlineIsMember, [Next]_vars
             PROVE  Joined' /\ OnlineIsMember'
  OBVIOUS
<1>0. /\ pc \in [Manager -> Step] /\ nodes \in [Name -> Row]
      /\ members \in [Name -> MemberStatus \cup {"absent"}]
      /\ scale \in ScaleType
  BY DEF TypeOK, SharedTypeOK, LocalsOK, ScaleType
<1>1. ASSUME NEW m \in Manager, Leave(m), UNCHANGED members PROVE Joined'
  BY <1>0, <1>1 DEF Leave, Joined, Step, ScaleType, NoScaleOut
<1>2. ASSUME UNCHANGED <<nodes, members>> PROVE OnlineIsMember'
  BY <1>2 DEF OnlineIsMember, WithStatus
<1>3. ASSUME NEW m \in Manager, Demand(m) \/ PassGuard(m) PROVE Joined' /\ OnlineIsMember'
  <2>1. Joined'
    BY <1>0, <1>3 DEF Demand, PassGuard, Joined, Step
  <2>2. QED
    BY <2>1, <1>2, <1>3 DEF Demand, PassGuard
<1>4. ASSUME NEW m \in Manager, Crash(m) \/ SkipScaleOut(m) \/ ProvisionFails(m)
      PROVE  Joined' /\ OnlineIsMember'
  <2>1. Leave(m) /\ UNCHANGED <<nodes, members>>
    BY <1>4 DEF Crash, SkipScaleOut, ProvisionFails
  <2>2. QED
    BY <2>1, <1>1, <1>2
<1>5. ASSUME NEW m \in Manager, NEW n \in Name, ProvisionServer(m, n)
      PROVE  Joined' /\ OnlineIsMember'
  <2>1. Joined'
    BY <1>0, <1>5 DEF ProvisionServer, Joined, Step, ScaleType
  <2>2. QED
    BY <2>1, <1>2, <1>5 DEF ProvisionServer
<1>6. ASSUME NEW m \in Manager, RecordServer(m) \/ RecordFails(m)
      PROVE  Joined' /\ OnlineIsMember'
  <2>1. AfterRecord(m, TRUE) \/ AfterRecord(m, FALSE)
    BY <1>6 DEF RecordServer, RecordFails
  <2>2. UNCHANGED members /\ pc[m] = "record"
    BY <1>6 DEF RecordServer, RecordFails
  <2>3. Joined'
    <3>1. CASE HasBootstrap
      BY <1>0, <2>1, <2>2, <3>1 DEF AfterRecord, Joined, Step, ScaleType
    <3>2. CASE ~HasBootstrap
      BY <1>1, <2>1, <2>2, <3>2 DEF AfterRecord
    <3>3. QED
      BY <3>1, <3>2
  <2>4. WriteNode(scale[m].name, ScaleOutRow("provisioning")) \/ UNCHANGED nodes
    BY <1>6 DEF RecordServer, RecordFails, LostWrite
  <2>5. OnlineIsMember'
    BY <1>0, <2>2, <2>4 DEF WriteNode, OnlineIsMember, WithStatus, ScaleOutRow
  <2>6. QED
    BY <2>3, <2>5
<1>7. ASSUME NEW m \in Manager, BootstrapReady(m) \/ BootstrapFails(m)
      PROVE  Joined' /\ OnlineIsMember'
  <2>1. scale[m].name \in Name /\ UNCHANGED nodes
    BY <1>7 DEF BootstrapReady, BootstrapFails, Joined
  <2>2. \A n \in Name : members[n] # "absent" => members'[n] # "absent"
    BY <1>0, <1>7 DEF BootstrapReady, BootstrapFails, Join
  <2>3. \/ Bootstrapped(m, TRUE) /\ members'[scale[m].name] # "absent"
        \/ Bootstrapped(m, FALSE)
    BY <1>0, <1>7, <2>1 DEF BootstrapReady, BootstrapFails, Join, MemberStatus
  <2>4. \A k \in Manager \ {m} : pc'[k] = pc[k] /\ scale'[k] = scale[k]
    BY <1>0, <2>3 DEF Bootstrapped, Leave, ScaleType
  <2>5. ASSUME NEW k \in Manager \ {m}
        PROVE  /\ pc'[k] \in {"record", "bootstrap", "finish"} => scale'[k].name \in Name
               /\ pc'[k] = "finish" /\ scale'[k].ready => members'[scale'[k].name] # "absent"
    BY <2>2, <2>4 DEF Joined
  <2>6. /\ pc'[m] \in {"record", "bootstrap", "finish"} => scale'[m].name \in Name
        /\ pc'[m] = "finish" /\ scale'[m].ready => members'[scale'[m].name] # "absent"
    BY <1>0, <2>1, <2>3 DEF Bootstrapped, Leave, ScaleType, Step, NoScaleOut
  <2>7. OnlineIsMember'
    BY <2>1, <2>2 DEF OnlineIsMember, WithStatus
  <2>8. QED
    BY <2>5, <2>6, <2>7 DEF Joined
<1>8. ASSUME NEW m \in Manager, FinishScaleOut(m) \/ FinishFails(m)
      PROVE  Joined' /\ OnlineIsMember'
  <2>1. /\ Leave(m) /\ UNCHANGED members /\ pc[m] = "finish"
        /\ WriteNode(scale[m].name, Outcome(m)) \/ UNCHANGED nodes
    BY <1>8 DEF FinishScaleOut, FinishFails, LostWrite
  <2>2. Outcome(m).status = "online" => members[scale[m].name] # "absent"
    BY <2>1 DEF Outcome, ScaleOutRow, Joined
  <2>3. OnlineIsMember'
    BY <1>0, <2>1, <2>2 DEF WriteNode, OnlineIsMember, WithStatus
  <2>4. QED
    BY <1>1, <2>1, <2>3
<1>9. CASE UNCHANGED vars
  BY <1>2, <1>9 DEF vars, shared, Joined
<1>10. QED
  BY <1>3, <1>4, <1>5, <1>6, <1>7, <1>8, <1>9 DEF Next, ScaleOutStep

\* model.go:19-21: a node that a scale-out put online is a cluster member.
THEOREM OnlineNodesAreMembers == Spec => []OnlineIsMember
<1>1. Init => Joined /\ OnlineIsMember
  BY DEF Init, Joined, OnlineIsMember, WithStatus, NoRow
<1>2. QED
  BY <1>1, InitTypeOK, TypeStep, JoinedStep, PTL DEF Spec
-----------------------------------------------------------------------------
(* Servers.                                                                 *)

\* The names of the servers that a scale-out is about to record.
InHand == {scale[m].name : m \in {k \in Manager : pc[k] = "record"}}

\* The servers that ServersAccounted counts, and its bound on them.
Forgotten == Unrecorded \ InHand
Accounted == IsFiniteSet(Forgotten) /\ Cardinality(Forgotten) <= faults

\* A step that forgets no server keeps the bound.
LEMMA NothingForgotten ==
  ASSUME Accounted, faults \in Nat, faults' \in Nat, faults <= faults', Forgotten' \subseteq Forgotten
  PROVE  Accounted'
<1>1. IsFiniteSet(Forgotten') /\ Cardinality(Forgotten') <= Cardinality(Forgotten)
  BY FS_Subset DEF Accounted
<1>2. Cardinality(Forgotten) \in Nat /\ Cardinality(Forgotten') \in Nat
  BY <1>1, FS_CardinalityType DEF Accounted
<1>3. QED
  BY <1>1, <1>2 DEF Accounted

\* A fault that forgets one server keeps it too.
LEMMA OneForgotten ==
  ASSUME Accounted, faults \in Nat, faults' = faults + 1, NEW n, Forgotten' \subseteq Forgotten \cup {n}
  PROVE  Accounted'
<1>1. /\ IsFiniteSet(Forgotten \cup {n})
      /\ Cardinality(Forgotten \cup {n}) =
           IF n \in Forgotten THEN Cardinality(Forgotten) ELSE Cardinality(Forgotten) + 1
  BY FS_AddElement DEF Accounted
<1>2. IsFiniteSet(Forgotten') /\ Cardinality(Forgotten') <= Cardinality(Forgotten \cup {n})
  BY <1>1, FS_Subset
<1>3. /\ Cardinality(Forgotten) \in Nat /\ Cardinality(Forgotten') \in Nat
      /\ Cardinality(Forgotten \cup {n}) \in Nat
  BY <1>1, <1>2, FS_CardinalityType DEF Accounted
<1>4. QED
  BY <1>1, <1>2, <1>3 DEF Accounted

\* A scale-out past the provider has a name for its server.
Named == \A m \in Manager : pc[m] \in {"record", "bootstrap", "finish"} => scale[m].name \in Name

\* It keeps the name until it leaves.
LEMMA ScaleOutNames ==
  ASSUME NEW S, pc \in [Manager -> S], scale \in ScaleType, Named, NEW m \in Manager, ScaleOutStep(m)
  PROVE  Named'
<1>1. CASE SkipScaleOut(m) \/ PassGuard(m) \/ ProvisionFails(m) \/ FinishScaleOut(m) \/ FinishFails(m)
  <2>1. Leave(m) \/ (UNCHANGED scale /\ pc' = [pc EXCEPT ![m] = "provision"])
    BY <1>1 DEF SkipScaleOut, PassGuard, ProvisionFails, FinishScaleOut, FinishFails
  <2> QED BY <2>1 DEF Leave, Named, ScaleType
<1>2. ASSUME NEW n \in Name, ProvisionServer(m, n) PROVE Named'
  BY <1>2 DEF ProvisionServer, Named, ScaleType
<1>3. CASE RecordServer(m) \/ RecordFails(m)
  <2>1. pc[m] = "record" /\ (AfterRecord(m, TRUE) \/ AfterRecord(m, FALSE))
    BY <1>3 DEF RecordServer, RecordFails
  <2> QED BY <2>1 DEF AfterRecord, Leave, Named, ScaleType
<1>4. CASE BootstrapReady(m) \/ BootstrapFails(m)
  <2>1. pc[m] = "bootstrap" /\ (Bootstrapped(m, TRUE) \/ Bootstrapped(m, FALSE))
    BY <1>4 DEF BootstrapReady, BootstrapFails
  <2> QED BY <2>1 DEF Bootstrapped, Leave, Named, ScaleType
<1>5. QED
  BY <1>1, <1>2, <1>3, <1>4 DEF ScaleOutStep

\* A record that is not deleted stays: no step of a scale-out empties a row.
LEMMA RowsStay ==
  ASSUME nodes \in [Name -> Row], NEW n \in Name, NEW row, WriteNode(n, row), row.status # "absent",
         UNCHANGED servers
  PROVE  Unrecorded' = Unrecorded \ {n}
BY DEF WriteNode, Unrecorded

\* A process that dies forgets the server it had in hand, for a fault.
LEMMA CrashAccounted ==
  ASSUME NEW S, pc \in [Manager -> S], scale \in ScaleType, faults \in Nat, Accounted,
         NEW m \in Manager, Leave(m), UNCHANGED <<nodes, servers>>, faults' = faults + 1
  PROVE  Accounted'
<1>1. \A k \in Manager \ {m} : pc'[k] = pc[k] /\ scale'[k] = scale[k]
  BY DEF Leave, ScaleType
<1>2. Unrecorded' = Unrecorded
  BY DEF Unrecorded
<1>3. InHand \subseteq InHand' \cup {scale[m].name}
  BY <1>1 DEF InHand
<1> QED BY <1>2, <1>3, OneForgotten DEF Forgotten

\* Every step of a scale-out keeps the bound, if the store refuses no record: the server
\* a manager makes is in its hands until its row is there.
LEMMA ScaleOutAccounted ==
  ASSUME ~SQLStore, nodes \in [Name -> Row], NEW S, pc \in [Manager -> S], scale \in ScaleType,
         servers \subseteq Name, faults \in Nat, Named, Accounted, NEW m \in Manager, ScaleOutStep(m)
  PROVE  Accounted'
<1>f. faults' \in Nat /\ faults <= faults'
  <2>1. UNCHANGED faults \/ faults' = faults + 1
    BY DEF ScaleOutStep, SkipScaleOut, PassGuard, ProvisionFails,
           ProvisionServer, RecordServer, RecordFails, BootstrapReady, BootstrapFails,
           FinishScaleOut, FinishFails, Failing
  <2>2. QED
    BY <2>1
\* Steps of a scale-out that records nothing.
<1>1. ASSUME pc[m] # "record", Unrecorded' \subseteq Unrecorded,
             \A k \in Manager \ {m} : pc'[k] = pc[k] /\ scale'[k] = scale[k]
      PROVE  Accounted'
  <2>1. InHand \subseteq InHand'
    BY <1>1 DEF InHand
  <2>2. QED
    BY <1>1, <1>f, <2>1, NothingForgotten DEF Forgotten
<1>2. CASE SkipScaleOut(m) \/ PassGuard(m) \/ BootstrapReady(m) \/ BootstrapFails(m)
  <2>1. pc[m] # "record" /\ UNCHANGED <<nodes, servers>>
    BY <1>2 DEF SkipScaleOut, PassGuard, BootstrapReady, BootstrapFails
  <2>2. \A k \in Manager \ {m} : pc'[k] = pc[k] /\ scale'[k] = scale[k]
    BY <1>2 DEF SkipScaleOut, PassGuard, BootstrapReady, BootstrapFails,
                      Bootstrapped, Leave, ScaleType
  <2>3. QED
    BY <1>1, <2>1, <2>2 DEF Unrecorded
<1>3. CASE FinishScaleOut(m) \/ FinishFails(m)
  <2>1. /\ pc[m] = "finish" /\ Leave(m) /\ UNCHANGED servers
        /\ WriteNode(scale[m].name, Outcome(m)) \/ UNCHANGED nodes
    BY <1>3 DEF FinishScaleOut, FinishFails, LostWrite
  <2>2. scale[m].name \in Name /\ Outcome(m).status # "absent"
    BY <2>1 DEF Named, Outcome, ScaleOutRow
  <2>3. Unrecorded' \subseteq Unrecorded
    <3>1. CASE WriteNode(scale[m].name, Outcome(m))
      BY <2>1, <2>2, <3>1, RowsStay
    <3>2. CASE UNCHANGED nodes
      BY <2>1, <3>2 DEF Unrecorded
    <3>3. QED
      BY <2>1, <3>1, <3>2
  <2>4. \A k \in Manager \ {m} : pc'[k] = pc[k] /\ scale'[k] = scale[k]
    BY <2>1 DEF Leave, ScaleType
  <2>5. QED
    BY <1>1, <2>1, <2>3, <2>4
\* A server whose making is answered is in hand, one whose answer is lost is a fault.
<1>4. ASSUME NEW n \in Name, ProvisionServer(m, n) PROVE Accounted'
  <2>1. Unrecorded' \subseteq Unrecorded \cup {n}
    BY <1>4 DEF ProvisionServer, Unrecorded
  <2>2. n \in InHand' /\ InHand \subseteq InHand'
    BY <1>4 DEF ProvisionServer, InHand, ScaleType
  <2>3. QED
    BY <1>f, <2>1, <2>2, NothingForgotten DEF Forgotten
<1>5. CASE ProvisionFails(m)
  <2>1. /\ pc[m] = "provision" /\ Leave(m) /\ UNCHANGED nodes
        /\ \/ UNCHANGED servers
           \/ faults' = faults + 1 /\ \E n \in Name : servers' = servers \cup {n}
    BY <1>5 DEF ProvisionFails, Failing, Unused
  <2>2. \A k \in Manager \ {m} : pc'[k] = pc[k] /\ scale'[k] = scale[k]
    BY <2>1 DEF Leave, ScaleType
  <2>3. CASE UNCHANGED servers
    BY <1>1, <2>1, <2>2, <2>3 DEF Unrecorded
  <2>4. ASSUME NEW n \in Name, servers' = servers \cup {n}, faults' = faults + 1 PROVE Accounted'
    <3>1. Unrecorded' \subseteq Unrecorded \cup {n}
      BY <2>1, <2>4 DEF Unrecorded
    <3>2. InHand \subseteq InHand'
      BY <2>1, <2>2 DEF InHand
    <3>3. QED
      BY <2>4, <3>1, <3>2, OneForgotten DEF Forgotten
  <2>5. QED
    BY <2>1, <2>3, <2>4
\* A server leaves the hands of its scale-out with its row, or by a fault.
<1>6. ASSUME pc[m] = "record",
             \A k \in Manager \ {m} : pc'[k] = pc[k] /\ scale'[k] = scale[k]
      PROVE  InHand \subseteq InHand' \cup {scale[m].name}
  BY <1>6 DEF InHand
<1>7. CASE RecordServer(m)
  <2>1. /\ pc[m] = "record" /\ UNCHANGED servers /\ AfterRecord(m, TRUE)
        /\ WriteNode(scale[m].name, ScaleOutRow("provisioning"))
    BY <1>7 DEF RecordServer
  <2>2. InHand \subseteq InHand' \cup {scale[m].name}
    BY <1>6, <2>1 DEF AfterRecord, Leave, ScaleType
  <2>3. Unrecorded' = Unrecorded \ {scale[m].name}
    BY <2>1, RowsStay DEF Named, ScaleOutRow
  <2>4. QED
    BY <1>f, <2>2, <2>3, NothingForgotten DEF Forgotten
<1>8. CASE RecordFails(m)
  <2>1. /\ pc[m] = "record" /\ UNCHANGED <<nodes, servers>> /\ AfterRecord(m, FALSE)
        /\ faults' = faults + 1 \/ nodes[scale[m].name].status # "absent"
    BY <1>8 DEF RecordFails, LostWrite, Failing, CanCreate
  <2>2. InHand \subseteq InHand' \cup {scale[m].name}
    BY <1>6, <2>1 DEF AfterRecord, Leave, ScaleType
  <2>3. Unrecorded' = Unrecorded
    BY <2>1 DEF Unrecorded
  <2>4. CASE faults' = faults + 1
    BY <2>2, <2>3, <2>4, OneForgotten DEF Forgotten
  <2>5. CASE nodes[scale[m].name].status # "absent"
    <3>1. scale[m].name \notin Unrecorded
      BY <2>5 DEF Unrecorded
    <3>2. QED
      BY <1>f, <2>2, <2>3, <3>1, NothingForgotten DEF Forgotten
  <2>6. QED
    BY <2>1, <2>4, <2>5
<1>9. QED
  BY <1>2, <1>3, <1>4, <1>5, <1>7, <1>8 DEF ScaleOutStep

\* And so do the steps that surround it here.
LEMMA AccountedStep ==
  ~SQLStore /\ TypeOK /\ Joined /\ Accounted /\ [Next]_vars => Accounted'
<1> SUFFICES ASSUME ~SQLStore, TypeOK, Joined, Accounted, [Next]_vars
             PROVE  Accounted'
  OBVIOUS
<1>0. /\ pc \in [Manager -> Step] /\ nodes \in [Name -> Row] /\ scale \in ScaleType
      /\ servers \subseteq Name /\ faults \in Nat
  BY BoundAssumption DEF TypeOK, SharedTypeOK, LocalsOK, ScaleType
<1>1. ASSUME NEW m \in Manager, Demand(m) PROVE Accounted'
  <2>1. UNCHANGED <<nodes, servers, scale, faults>> /\ pc[m] = "idle" /\ pc' = [pc EXCEPT ![m] = "guard"]
    BY <1>1 DEF Demand
  <2>2. Unrecorded' = Unrecorded /\ InHand' = InHand
    BY <1>0, <2>1 DEF Unrecorded, InHand
  <2>3. QED
    BY <1>0, <2>1, <2>2, NothingForgotten DEF Forgotten
<1>2. ASSUME NEW m \in Manager, ScaleOutStep(m) PROVE Accounted'
  <2>1. Named
    BY DEF Joined, Named
  <2>2. QED
    BY <1>0, <1>2, <2>1, ScaleOutAccounted
<1>3. ASSUME NEW m \in Manager, Crash(m) PROVE Accounted'
  BY <1>0, <1>3, CrashAccounted DEF Crash, Failing
<1>4. CASE UNCHANGED vars
  <2>1. Forgotten' = Forgotten
    BY <1>4 DEF vars, shared, Forgotten, Unrecorded, InHand
  <2>2. QED
    BY <1>0, <1>4, <2>1, NothingForgotten DEF vars, shared
<1>5. QED
  BY <1>1, <1>2, <1>3, <1>4 DEF Next

\* What ServersAccounted says of the two sets.
LEMMA AccountedBound == Accounted => ServersAccounted
  BY DEF Accounted, ServersAccounted, Forgotten, InHand

\* orchestrator.go:356-358: on a store that refuses no record, every server without
\* one is in the hands of a scale-out or the trace of a fault of its own.
THEOREM NoServerForgotten == ~SQLStore => (Spec => []ServersAccounted)
<1> SUFFICES ASSUME ~SQLStore PROVE Spec => []ServersAccounted
  OBVIOUS
<1>1. Init => Joined /\ OnlineIsMember /\ Accounted
  <2> SUFFICES ASSUME Init PROVE Joined /\ OnlineIsMember /\ Accounted
    OBVIOUS
  <2>1. Joined /\ OnlineIsMember
    BY DEF Init, Joined, OnlineIsMember, WithStatus, NoRow
  <2>2. Forgotten = {}
    BY DEF Init, Forgotten, Unrecorded
  <2>3. QED
    BY <2>1, <2>2, FS_EmptySet DEF Accounted, Init
<1>2. Accounted => ServersAccounted
  BY AccountedBound
<1>3. TypeOK /\ Joined /\ Accounted /\ [Next]_vars => Accounted'
  BY AccountedStep
<1>4. QED
  BY <1>1, <1>2, <1>3, InitTypeOK, TypeStep, JoinedStep, PTL DEF Spec
=============================================================================
