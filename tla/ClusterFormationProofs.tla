----------------------- MODULE ClusterFormationProofs -----------------------
(***************************************************************************)
(* For any runners, nodes, clients and faults: a run calls a node ready     *)
(* only when it is a member of the seed's cluster, and no join is asked for *)
(* before the seed is clustered.                                            *)
(***************************************************************************)
EXTENDS ClusterFormation, TLAPS

\* Steps after the first part of Bootstrap, and after the request of Step 2.
PastSeed == {"joiner", "joincert", "join", "joinwait", "verify"}

\* The inductive invariant: the seed founds its own cluster, an operation runs
\* only on a node that is not clustered, and a run past Step 1 left the seed
\* clustered.
Formed ==
  /\ cluster[Seed] \in {Seed, NoNode}
  /\ \A n \in Node : op[n] # NoRunner => cluster[n] = NoNode
  /\ \A r \in Runner : pc[r] \in PastSeed => cluster[Seed] # NoNode

IInv == TypeOK /\ Formed /\ ReadyIsMember

-----------------------------------------------------------------------------
(* What a step does to the cluster.                                         *)

\* A step leaves every clustered node where it is.
Grows == \A n \in Node : cluster[n] # NoNode => cluster'[n] = cluster[n]

\* The initial state has the invariant.
LEMMA InitIInv == Init => IInv
<1> SUFFICES ASSUME Init PROVE IInv
  OBVIOUS
<1>1. cluster \in [Node -> Node \cup {NoNode}] /\ faults \in 0 .. MaxFaults
  BY FaultAssumption DEF Init
<1>2. /\ op \in [Node -> Runner \cup {NoRunner, Orphan}] /\ pc \in [Runner -> Step]
      /\ result \in [Runner -> {"none", "ready", "failed"}]
      /\ cert \subseteq Runner /\ solo \subseteq Runner
  BY DEF Init, Step
<1>3. Formed
  BY DEF Init, Formed, PastSeed
<1>4. ReadyIsMember
  BY DEF Init, ReadyIsMember
<1>5. QED
  BY <1>1, <1>2, <1>3, <1>4 DEF IInv, TypeOK

\* The end of an operation clusters its node, which was not clustered, with the
\* seed or as the seed.
LEMMA FormGrows ==
  ASSUME IInv, NEW n \in Node, op[n] # NoRunner, Succeeds(n), Form(n),
         op' = [op EXCEPT ![n] = NoRunner]
  PROVE  /\ cluster' \in [Node -> Node \cup {NoNode}] /\ Grows
         /\ cluster'[Seed] \in {Seed, NoNode}
         /\ cluster'[n] # NoNode
         /\ \A k \in Node : op'[k] # NoRunner => cluster'[k] = NoNode
         /\ op' \in [Node -> Runner \cup {NoRunner, Orphan}]
<1>1. cluster \in [Node -> Node \cup {NoNode}] /\ op \in [Node -> Runner \cup {NoRunner, Orphan}]
  BY DEF IInv, TypeOK
<1>2. cluster[n] = NoNode /\ cluster[Seed] \in {Seed, NoNode} /\ Seed \in Node
  BY NodeAssumption DEF IInv, Formed
<1>3. Seed # NoNode
  BY <1>2, MarkerAssumption
<1>4. n # Seed => cluster[Seed] # NoNode
  BY DEF Succeeds, Enabled
<1>5. \A k \in Node : cluster'[k] = IF k = n THEN IF n = Seed THEN Seed ELSE cluster[Seed] ELSE cluster[k]
  BY <1>1 DEF Form
<1>6. Grows
  BY <1>2, <1>5 DEF Grows
<1>7. \A k \in Node : op'[k] # NoRunner => k # n /\ op[k] # NoRunner
  BY <1>1
<1>8. \A k \in Node : op'[k] # NoRunner => cluster'[k] = NoNode
  BY <1>5, <1>7 DEF IInv, Formed
<1>9. cluster'[n] # NoNode /\ cluster'[Seed] \in {Seed, NoNode}
  BY <1>2, <1>3, <1>4, <1>5
<1>10. cluster' \in [Node -> Node \cup {NoNode}] /\ op' \in [Node -> Runner \cup {NoRunner, Orphan}]
  BY <1>1, <1>2 DEF Form
<1>11. QED
  BY <1>6, <1>8, <1>9, <1>10

\* What a step of a run must keep for the invariant.
LEMMA Kept ==
  ASSUME IInv, NEW r \in Runner, NEW step \in Step, Goto(r, step),
         cluster' \in [Node -> Node \cup {NoNode}], cluster'[Seed] \in {Seed, NoNode}, Grows,
         op' \in [Node -> Runner \cup {NoRunner, Orphan}],
         \A n \in Node : op'[n] # NoRunner => cluster'[n] = NoNode,
         step \in PastSeed => cluster'[Seed] # NoNode,
         result' \in [Runner -> {"none", "ready", "failed"}],
         \A o \in Runner : result'[o] = "ready" =>
           result[o] = "ready" \/ (cluster'[Seed] = Seed /\ cluster'[Joiner[o]] = Seed),
         cert' \subseteq Runner, solo' \subseteq Runner, faults' \in 0 .. MaxFaults
  PROVE  IInv'
<1>1. pc \in [Runner -> Step]
  BY DEF IInv, TypeOK
<1>2. pc' \in [Runner -> Step] /\ \A o \in Runner : pc'[o] = IF o = r THEN step ELSE pc[o]
  BY <1>1 DEF Goto
<1>3. Seed \in Node /\ NoNode \notin Node /\ \A o \in Runner : Joiner[o] \in Node
  BY NodeAssumption, MarkerAssumption
<1>4. cluster[Seed] # NoNode => cluster'[Seed] # NoNode
  BY <1>3 DEF Grows
<1>5. Formed'
  BY <1>2, <1>4 DEF Formed, IInv
<1>6. \A o \in Runner : result[o] = "ready" => cluster'[Seed] = Seed /\ cluster'[Joiner[o]] = Seed
  BY <1>3 DEF IInv, ReadyIsMember, Grows
<1>7. ReadyIsMember'
  BY <1>6 DEF ReadyIsMember
<1>8. TypeOK'
  BY <1>2 DEF TypeOK
<1>9. QED
  BY <1>5, <1>7, <1>8 DEF IInv

\* The end of a run.
LEMMA ReturnTyped ==
  ASSUME IInv, NEW r \in Runner, NEW outcome \in {"ready", "failed"}, Return(r, outcome)
  PROVE  /\ Goto(r, "idle") /\ "idle" \in Step \ PastSeed
         /\ result' \in [Runner -> {"none", "ready", "failed"}]
         /\ \A o \in Runner : result'[o] = IF o = r THEN outcome ELSE result[o]
         /\ cert' \subseteq Runner
BY DEF IInv, TypeOK, Return, Step, PastSeed

\* A fault stays within the bound.
LEMMA FaultTyped == ASSUME IInv, Fault PROVE faults' \in 0 .. MaxFaults
BY FaultAssumption DEF IInv, TypeOK, Fault

\* The cluster and the operations as they are keep their part of the invariant.
LEMMA Unchanged ==
  ASSUME IInv
  PROVE  /\ cluster' = cluster => /\ cluster' \in [Node -> Node \cup {NoNode}] /\ Grows
                                  /\ cluster'[Seed] \in {Seed, NoNode}
         /\ op' = op => op' \in [Node -> Runner \cup {NoRunner, Orphan}]
         /\ op' = op /\ cluster' = cluster =>
              \A n \in Node : op'[n] # NoRunner => cluster'[n] = NoNode
         /\ cert' = cert => cert' \subseteq Runner
         /\ solo' \in {solo} \cup {solo \ {r} : r \in Runner} => solo' \subseteq Runner
         /\ faults' = faults => faults' \in 0 .. MaxFaults
         /\ result' = result => /\ result' \in [Runner -> {"none", "ready", "failed"}]
                                /\ \A o \in Runner : result'[o] = "ready" => result[o] = "ready"
BY DEF IInv, TypeOK, Formed, Grows

-----------------------------------------------------------------------------
(* The steps of a run, one lemma for each kind.                             *)

\* A run starts with no result and with nothing fetched.
LEMMA StartKeeps == ASSUME IInv, NEW r \in Runner, Start(r) PROVE IInv'
<1>1. Goto(r, "checks") /\ "checks" \in Step \ PastSeed
  BY DEF Start, Step, PastSeed
<1>2. /\ result' \in [Runner -> {"none", "ready", "failed"}]
      /\ \A o \in Runner : result'[o] = "ready" => result[o] = "ready"
  BY DEF Start, IInv, TypeOK
<1>3. solo' \subseteq Runner
  BY DEF Start
<1>4. cluster' = cluster /\ op' = op /\ cert' = cert /\ faults' = faults
  BY DEF Start
<1>5. QED
  BY <1>1, <1>2, <1>3, <1>4, Unchanged, Kept

\* A run that fails, or dies, leaves its operation to LXD.
LEMMA RunFailsKeeps == ASSUME IInv, NEW r \in Runner, RunFails(r) PROVE IInv'
<1>1. Return(r, "failed") /\ Fault /\ GiveUp(r) /\ cluster' = cluster
  BY DEF RunFails
<1>2. solo' \subseteq Runner
  BY DEF RunFails, IInv, TypeOK
<1>3. /\ op' \in [Node -> Runner \cup {NoRunner, Orphan}]
      /\ \A n \in Node : op'[n] # NoRunner => op[n] # NoRunner
  BY <1>1, MarkerAssumption DEF GiveUp, IInv, TypeOK
<1>4. \A n \in Node : op'[n] # NoRunner => cluster'[n] = NoNode
  BY <1>1, <1>3 DEF IInv, Formed
<1>5. QED
  BY <1>1, <1>2, <1>3, <1>4, Unchanged, ReturnTyped, FaultTyped, Kept

\* A read of LXD: the run goes on, past Step 1 only if the seed is clustered.
LEMMA ReadKeeps ==
  ASSUME IInv, NEW r \in Runner,
         ChecksPass(r) \/ SeedStatus(r) \/ SeedCertificate(r) \/ JoinerStatus(r)
  PROVE  IInv'
<1>1. PICK step \in Step : Goto(r, step) /\ (step \in PastSeed => cluster[Seed] # NoNode)
  <2>1. CASE ChecksPass(r)
    BY <2>1 DEF ChecksPass, Step, PastSeed
  <2>2. CASE SeedStatus(r)
    BY <2>2 DEF SeedStatus, Enabled, Step, PastSeed
  <2>3. CASE SeedCertificate(r)
    BY <2>3 DEF SeedCertificate, IInv, Formed, Step, PastSeed
  <2>4. CASE JoinerStatus(r)
    BY <2>4 DEF JoinerStatus, IInv, Formed, Step, PastSeed
  <2>5. QED
    BY <2>1, <2>2, <2>3, <2>4
<1>2. cluster' = cluster /\ op' = op /\ result' = result /\ solo' = solo /\ faults' = faults
  BY DEF ChecksPass, SeedStatus, SeedCertificate, JoinerStatus
<1>3. cert' \subseteq Runner
  BY DEF ChecksPass, SeedStatus, SeedCertificate, JoinerStatus, IInv, TypeOK
<1>4. QED
  BY <1>1, <1>2, <1>3, Unchanged, Kept

\* A request and the end of its operation, for the seed and for a joiner.
LEMMA RequestKeeps ==
  ASSUME IInv, NEW r \in Runner, NEW n \in Node, NEW step \in Step, NEW wait \in Step, NEW next \in Step,
         step \in PastSeed <=> n # Seed, wait \in PastSeed <=> n # Seed, next \in PastSeed,
         \/ RequestAccepted(r, n, step, wait) \/ RequestUnanswered(r, n, step)
         \/ RequestRefused(r, n, step, next)
         \/ OperationDone(r, n, wait, next) \/ OperationFails(r, n, wait)
  PROVE  IInv'
<1>1. cluster \in [Node -> Node \cup {NoNode}] /\ op \in [Node -> Runner \cup {NoRunner, Orphan}]
  BY DEF IInv, TypeOK
<1>2. pc[r] \in {step, wait} /\ n # Seed => cluster[Seed] # NoNode
  BY DEF IInv, Formed
<1>3. CASE RequestAccepted(r, n, step, wait)
  <2>1. /\ op' \in [Node -> Runner \cup {NoRunner, Orphan}]
        /\ \A k \in Node : op'[k] # NoRunner => cluster[k] = NoNode
    BY <1>1, <1>3 DEF RequestAccepted, Accepts, Enabled, IInv, Formed
  <2>2. /\ Goto(r, wait) /\ (wait \in PastSeed => cluster[Seed] # NoNode)
        /\ cluster' = cluster /\ cert' = cert /\ result' = result /\ solo' = solo /\ faults' = faults
    BY <1>2, <1>3 DEF RequestAccepted
  <2>3. QED
    BY <2>1, <2>2, Unchanged, Kept
<1>4. CASE RequestUnanswered(r, n, step)
  <2>1. /\ op' \in [Node -> Runner \cup {NoRunner, Orphan}]
        /\ \A k \in Node : op'[k] # NoRunner => cluster[k] = NoNode
    BY <1>1, <1>4 DEF RequestUnanswered, Accepts, Enabled, IInv, Formed
  <2>2. Return(r, "failed") /\ Fault /\ cluster' = cluster /\ solo' = solo \ {r}
    BY <1>4 DEF RequestUnanswered
  <2>3. QED
    BY <2>1, <2>2, Unchanged, ReturnTyped, FaultTyped, Kept
<1>5. CASE RequestRefused(r, n, step, next)
  <2>1. cluster' = cluster /\ op' = op /\ solo' = solo /\ faults' = faults
    BY <1>5 DEF RequestRefused
  <2>2. CASE Enabled(n) /\ r \in Tells
    <3>1. Goto(r, next) /\ cert' = cert /\ result' = result
      BY <1>5, <2>2 DEF RequestRefused
    <3>2. cluster[Seed] # NoNode
      BY <1>2, <1>5, <2>2 DEF RequestRefused, Enabled
    <3>3. QED
      BY <2>1, <3>1, <3>2, Unchanged, Kept
  <2>3. CASE ~(Enabled(n) /\ r \in Tells)
    <3>1. Return(r, "failed")
      BY <1>5, <2>3 DEF RequestRefused
    <3>2. QED
      BY <2>1, <3>1, Unchanged, ReturnTyped, Kept
  <2>4. QED
    BY <2>2, <2>3
<1>6. CASE OperationDone(r, n, wait, next)
  <2>1. /\ op[n] # NoRunner /\ Succeeds(n) /\ Form(n) /\ op' = [op EXCEPT ![n] = NoRunner]
        /\ Goto(r, next) /\ cert' = cert /\ result' = result /\ solo' = solo /\ faults' = faults
    BY <1>6, MarkerAssumption DEF OperationDone
  <2>2. cluster'[Seed] # NoNode
    <3>1. n # Seed => cluster[Seed] # NoNode
      BY <1>2, <1>6 DEF OperationDone
    <3>2. QED
      BY <2>1, <3>1, FormGrows, NodeAssumption DEF Grows
  <2>3. QED
    BY <2>1, <2>2, FormGrows, Unchanged, Kept
<1>7. CASE OperationFails(r, n, wait)
  <2>1. /\ op' \in [Node -> Runner \cup {NoRunner, Orphan}]
        /\ \A k \in Node : op'[k] # NoRunner => cluster[k] = NoNode
    BY <1>1, <1>7 DEF OperationFails, IInv, Formed
  <2>2. Return(r, "failed") /\ cluster' = cluster /\ solo' = solo \ {r} /\ (Fault \/ faults' = faults)
    BY <1>7 DEF OperationFails
  <2>3. QED
    BY <2>1, <2>2, Unchanged, ReturnTyped, FaultTyped, Kept
<1>8. QED
  BY <1>3, <1>4, <1>5, <1>6, <1>7

\* Ready is returned for a joiner the member list of the seed shows.
LEMMA VerifyKeeps == ASSUME IInv, NEW r \in Runner, Verify(r) PROVE IInv'
<1>1. PICK outcome \in {"ready", "failed"} :
        Return(r, outcome) /\ (outcome = "ready" => Verified(r))
  BY DEF Verify
<1>2. cluster' = cluster /\ op' = op /\ solo' = solo /\ faults' = faults
  BY DEF Verify
<1>3. outcome = "ready" => cluster'[Seed] = Seed /\ cluster'[Joiner[r]] = Seed
  BY <1>1, <1>2 DEF Verified, Members, Enabled, IInv, Formed
<1>4. \A o \in Runner : result'[o] = "ready" =>
        result[o] = "ready" \/ (cluster'[Seed] = Seed /\ cluster'[Joiner[o]] = Seed)
  BY <1>1, <1>3, ReturnTyped
<1>5. QED
  BY <1>1, <1>2, <1>4, Unchanged, ReturnTyped, Kept

\* The end of an operation nobody waits for.
LEMMA OrphanKeeps == ASSUME IInv, NEW n \in Node, OrphanEnds(n) PROVE IInv'
<1>1. op[n] # NoRunner /\ op' = [op EXCEPT ![n] = NoRunner]
  BY MarkerAssumption DEF OrphanEnds
<1>2. /\ cluster' \in [Node -> Node \cup {NoNode}] /\ Grows /\ cluster'[Seed] \in {Seed, NoNode}
      /\ \A k \in Node : op'[k] # NoRunner => cluster'[k] = NoNode
      /\ op' \in [Node -> Runner \cup {NoRunner, Orphan}]
  <2>1. CASE Succeeds(n) /\ Form(n)
    BY <1>1, <2>1, FormGrows
  <2>2. CASE UNCHANGED cluster
    BY <1>1, <2>2 DEF IInv, TypeOK, Formed, Grows
  <2>3. QED
    BY <2>1, <2>2 DEF OrphanEnds
<1>3. pc' = pc /\ cert' = cert /\ result' = result /\ solo' = solo /\ faults' = faults
  BY DEF OrphanEnds
<1>4. TypeOK'
  BY <1>2, <1>3 DEF IInv, TypeOK
<1>5. Seed \in Node /\ \A r \in Runner : Joiner[r] \in Node
  BY NodeAssumption
<1>6. Formed'
  BY <1>2, <1>3, <1>5 DEF IInv, Formed, Grows
<1>7. ReadyIsMember'
  <2>1. NoNode # Seed
    BY <1>5, MarkerAssumption
  <2>2. QED
    BY <1>2, <1>3, <1>5, <2>1 DEF IInv, ReadyIsMember, Grows
<1>8. QED
  BY <1>4, <1>6, <1>7 DEF IInv

-----------------------------------------------------------------------------
\* Every step of a run or of LXD keeps the invariant.
LEMMA NextKeeps == IInv /\ [Next]_vars => IInv'
<1> SUFFICES ASSUME IInv, [Next]_vars PROVE IInv'
  OBVIOUS
<1>1. ASSUME NEW r \in Runner, RunStep(r) PROVE IInv'
  <2>1. /\ Seed \in Node /\ Joiner[r] \in Node /\ Joiner[r] # Seed
        /\ {"init", "initwait", "join", "joinwait", "joiner", "verify"} \subseteq Step
        /\ {"join", "joinwait", "joiner", "verify"} \subseteq PastSeed
        /\ "init" \notin PastSeed /\ "initwait" \notin PastSeed
    BY NodeAssumption DEF Step, PastSeed
  <2>2. CASE InitSeed(r)
    BY <2>1, <2>2, RequestKeeps DEF InitSeed
  <2>3. CASE JoinJoiner(r)
    BY <2>1, <2>3, RequestKeeps DEF JoinJoiner
  <2>4. QED
    BY <1>1, <2>2, <2>3, ReadKeeps, VerifyKeeps DEF RunStep
<1>2. CASE UNCHANGED vars
  BY <1>2 DEF vars, IInv, TypeOK, Formed, ReadyIsMember
<1>3. QED
  BY <1>1, <1>2, StartKeeps, RunFailsKeeps, OrphanKeeps DEF Next

\* The inductive invariant of cluster formation (bootstrap.go:113-200).
THEOREM FormationInvariant == Spec => []IInv
BY InitIInv, NextKeeps, PTL DEF Spec

\* Workflow.Run and LXD keep every variable within its declared range.
THEOREM TypeCorrect == Spec => []TypeOK
<1>1. IInv => TypeOK
  BY DEF IInv
<1>2. QED
  BY <1>1, FormationInvariant, PTL

\* workflow.go:68-71: for any number of runs, failures and orphaned operations,
\* a node called ready is a member of the cluster of the seed.
THEOREM ReadyNodesAreMembers == Spec => []ReadyIsMember
<1>1. IInv => ReadyIsMember
  BY DEF IInv
<1>2. QED
  BY <1>1, FormationInvariant, PTL

\* bootstrap.go:146-152: a node is asked to join only when the seed is clustered.
THEOREM JoinsAfterInit == Spec => JoinAfterInit
<1>1. IInv /\ [Next]_vars =>
        [\A r \in Runner : pc[r] = "join" /\ pc'[r] = "joinwait" => Enabled(Seed)]_vars
  BY DEF IInv, Formed, PastSeed, Enabled
<1>2. QED
  BY <1>1, FormationInvariant, PTL DEF Spec, JoinAfterInit
-----------------------------------------------------------------------------
(* Membership.                                                              *)

\* Only the seed founds the cluster of the seed, and an operation runs only on a
\* node some run was started for.
Asked ==
  /\ \A n \in Node \ {Seed} : cluster[n] = Seed => cluster[Seed] = Seed
  /\ \A n \in Node : op[n] # NoRunner => n = Seed \/ \E r \in Runner : n = Joiner[r]

\* A step of a run or of LXD that ends no operation successfully.
Reports(r) ==
  /\ cluster' = cluster
  /\ \E o \in {"none", "failed", "ready"} :
       result' = [result EXCEPT ![r] = o] /\ (o = "ready" => Verified(r))

\* A step that does.
Forms(n) == n \in Node /\ op[n] # NoRunner /\ Succeeds(n) /\ Form(n) /\ result' = result

\* No step asks for a node its run was not started for.
AsksOwn ==
  \A n \in Node : op'[n] # NoRunner => op[n] # NoRunner \/ n = Seed \/ \E r \in Runner : n = Joiner[r]

\* A request and the end of its operation, by what they do to the cluster.
LEMMA RequestEffect ==
  ASSUME IInv, NEW r \in Runner, NEW n \in {Seed, Joiner[r]}, NEW step, NEW wait, NEW next,
         \/ RequestAccepted(r, n, step, wait) \/ RequestUnanswered(r, n, step)
         \/ RequestRefused(r, n, step, next)
         \/ OperationDone(r, n, wait, next) \/ OperationFails(r, n, wait)
  PROVE  AsksOwn /\ (Reports(r) \/ Forms(n) \/ (cluster' = cluster /\ result' = result))
<1>1. op \in [Node -> Runner \cup {NoRunner, Orphan}] /\ n \in Node
  BY NodeAssumption DEF IInv, TypeOK
<1>2. AsksOwn
  BY <1>1 DEF AsksOwn, RequestAccepted, RequestUnanswered, RequestRefused, OperationDone, OperationFails
<1>3. CASE RequestAccepted(r, n, step, wait)
  BY <1>2, <1>3 DEF RequestAccepted
<1>4. CASE RequestUnanswered(r, n, step)
  BY <1>2, <1>4 DEF RequestUnanswered, Return, Reports
<1>5. CASE RequestRefused(r, n, step, next)
  BY <1>2, <1>5 DEF RequestRefused, Return, Reports
<1>6. CASE OperationDone(r, n, wait, next)
  BY <1>1, <1>2, <1>6, MarkerAssumption DEF OperationDone, Forms
<1>7. CASE OperationFails(r, n, wait)
  BY <1>2, <1>7 DEF OperationFails, Return, Reports
<1>8. QED
  BY <1>2, <1>3, <1>4, <1>5, <1>6, <1>7

\* Every step of the workflow and of LXD is one of three kinds.
LEMMA StepEffect ==
  ASSUME IInv, [Next]_vars
  PROVE  /\ AsksOwn
         /\ \/ \E r \in Runner : Reports(r)
            \/ \E n \in Node : Forms(n)
            \/ cluster' = cluster /\ result' = result
<1> DEFINE Effect == AsksOwn /\ (\/ \E r \in Runner : Reports(r)
                                 \/ \E n \in Node : Forms(n)
                                 \/ cluster' = cluster /\ result' = result)
<1>1. op \in [Node -> Runner \cup {NoRunner, Orphan}]
  BY DEF IInv, TypeOK
<1>2. ASSUME NEW r \in Runner, RunStep(r) PROVE Effect
  <2>1. {Seed, Joiner[r]} \subseteq Node
    BY NodeAssumption
  <2>2. CASE ChecksPass(r) \/ SeedStatus(r) \/ SeedCertificate(r) \/ JoinerStatus(r)
    BY <2>2 DEF ChecksPass, SeedStatus, SeedCertificate, JoinerStatus, AsksOwn
  <2>3. CASE InitSeed(r)
    BY <2>1, <2>3, RequestEffect DEF InitSeed
  <2>4. CASE JoinJoiner(r)
    BY <2>1, <2>4, RequestEffect DEF JoinJoiner
  <2>5. CASE Verify(r)
    <3>1. Reports(r)
      BY <2>5 DEF Verify, Return, Reports
    <3>2. AsksOwn
      BY <2>5 DEF Verify, AsksOwn
    <3>3. QED
      BY <3>1, <3>2
  <2>6. QED
    BY <1>2, <2>2, <2>3, <2>4, <2>5 DEF RunStep
<1>3. ASSUME NEW r \in Runner, Start(r) PROVE Effect
  BY <1>3 DEF Start, Reports, AsksOwn
<1>4. ASSUME NEW r \in Runner, RunFails(r) PROVE Effect
  BY <1>1, <1>4, MarkerAssumption DEF RunFails, Return, GiveUp, Reports, AsksOwn
<1>5. ASSUME NEW n \in Node, OrphanEnds(n) PROVE Effect
  BY <1>1, <1>5, MarkerAssumption DEF OrphanEnds, Forms, AsksOwn
<1>6. CASE UNCHANGED vars
  BY <1>6 DEF vars, AsksOwn
<1>7. QED
  BY <1>2, <1>3, <1>4, <1>5, <1>6 DEF Next

\* Before the first run, a node of the seed's cluster proves that there is one.
LEMMA InitAsked == Init => Asked
BY NodeAssumption, MarkerAssumption DEF Init, Asked

\* A node enters the cluster of the seed only through an operation, after it.
LEMMA AskedKept == IInv /\ Asked /\ [Next]_vars => Asked'
<1> SUFFICES ASSUME IInv, Asked, [Next]_vars PROVE Asked'
  OBVIOUS
<1>1. cluster \in [Node -> Node \cup {NoNode}] /\ Seed \in Node /\ Seed # NoNode
  BY NodeAssumption, MarkerAssumption DEF IInv, TypeOK
<1>2. \A n \in Node \ {Seed} : cluster'[n] = Seed => cluster'[Seed] = Seed
  <2>1. ASSUME NEW n \in Node, Forms(n)
        PROVE  \A k \in Node \ {Seed} : cluster'[k] = Seed => cluster'[Seed] = Seed
    BY <1>1, <2>1 DEF Forms, Form, Asked
  <2>2. CASE cluster' = cluster
    BY <2>2 DEF Asked
  <2>3. QED
    BY <2>1, <2>2, StepEffect DEF Reports
<1>3. AsksOwn
  BY StepEffect
<1>4. QED
  BY <1>2, <1>3 DEF Asked, AsksOwn

\* The end of an operation founds the cluster or admits the node of a run.
LEMMA FormsIsMembership ==
  ASSUME IInv, Asked, NEW n \in Node, Forms(n) PROVE Formation!Next
<1>1. /\ cluster \in [Node -> Node \cup {NoNode}] /\ Seed \in Node /\ Seed # NoNode
      /\ cluster[Seed] \in {Seed, NoNode} /\ cluster[n] = NoNode
  BY NodeAssumption, MarkerAssumption DEF IInv, TypeOK, Formed, Forms
<1>2. \A k \in Node : cluster'[k] = IF k = n THEN IF n = Seed THEN Seed ELSE cluster[Seed] ELSE cluster[k]
  BY <1>1 DEF Forms, Form
<1>3. {r \in Runner : result'[r] = "ready"} = {r \in Runner : result[r] = "ready"}
  BY DEF Forms
<1>4. CASE n = Seed
  <2>1. Members = {}
    BY <1>1, <1>4 DEF Members, Enabled
  <2>2. Members' = {Seed}
    BY <1>1, <1>2, <1>4 DEF Members, Enabled, Asked
  <2>3. Formation!Found
    BY <1>3, <2>1, <2>2 DEF Formation!Found
  <2>4. QED
    BY <2>3 DEF Formation!Next
<1>5. CASE n # Seed
  <2>1. PICK r \in Runner : n = Joiner[r]
    BY <1>5 DEF Forms, Asked
  <2>2. cluster[Seed] # NoNode
    BY <1>5 DEF Forms, Succeeds, Enabled
  <2>3. Seed \in Members /\ Members' = Members \cup {n}
    BY <1>1, <1>2, <1>5, <2>2 DEF Members, Enabled
  <2>4. Formation!Admit(Joiner[r])
    BY <1>3, <2>1, <2>3 DEF Formation!Admit
  <2>5. QED
    BY <2>4 DEF Formation!Next
<1>6. QED
  BY <1>4, <1>5

\* The start or the end of a run changes what it last reported.
LEMMA ReportsIsMembership ==
  ASSUME IInv, NEW r \in Runner, Reports(r) PROVE Formation!Next
<1>1. PICK o \in {"none", "failed", "ready"} :
        result' = [result EXCEPT ![r] = o] /\ (o = "ready" => Verified(r))
  BY DEF Reports
<1>2. result \in [Runner -> {"none", "ready", "failed"}]
  BY DEF IInv, TypeOK
<1>3. Members' = Members
  BY DEF Reports, Members, Enabled
<1>4. CASE o = "ready"
  <2>1. {k \in Runner : result'[k] = "ready"} = {k \in Runner : result[k] = "ready"} \cup {r}
    BY <1>1, <1>2, <1>4
  <2>2. Formation!Report(r)
    BY <1>1, <1>3, <1>4, <2>1 DEF Formation!Report, Verified
  <2>3. QED
    BY <2>2 DEF Formation!Next
<1>5. CASE o # "ready"
  <2>1. {k \in Runner : result'[k] = "ready"} = {k \in Runner : result[k] = "ready"} \ {r}
    BY <1>1, <1>2, <1>5
  <2>2. Formation!RunAgain(r)
    BY <1>3, <2>1 DEF Formation!RunAgain
  <2>3. QED
    BY <2>2 DEF Formation!Next
<1>6. QED
  BY <1>4, <1>5

\* bootstrap.go:3-10, workflow.go:68-71: for any runs, failures and orphaned
\* operations, the seed's cluster grows by the nodes that were asked for, and
\* what a run reports ready is in it.
THEOREM WorkflowImplementsMembership == Spec => ImplementsMembership
<1>1. Init => Formation!Init
  <2> SUFFICES ASSUME Init PROVE Formation!Init
    OBVIOUS
  <2>1. {r \in Runner : result[r] = "ready"} = {}
    BY DEF Init
  <2>2. Members \subseteq Node /\ (Members # {} => Seed \in Members)
    BY NodeAssumption DEF Members, Enabled
  <2>3. QED
    BY <2>1, <2>2 DEF Formation!Init
<1>2. IInv /\ Asked /\ [Next]_vars =>
        [Formation!Next]_<<Members, {r \in Runner : result[r] = "ready"}>>
  <2> SUFFICES ASSUME IInv, Asked, [Next]_vars
               PROVE  [Formation!Next]_<<Members, {r \in Runner : result[r] = "ready"}>>
    OBVIOUS
  <2>1. cluster' = cluster /\ result' = result =>
          Members' = Members
          /\ {r \in Runner : result'[r] = "ready"} = {r \in Runner : result[r] = "ready"}
    BY DEF Members, Enabled
  <2>2. QED
    BY <2>1, StepEffect, FormsIsMembership, ReportsIsMembership
<1>3. Spec => []Asked
  BY FormationInvariant, InitAsked, AskedKept, PTL DEF Spec
<1>4. QED
  BY <1>1, <1>2, <1>3, FormationInvariant, PTL DEF Spec, ImplementsMembership, Formation!Spec
-----------------------------------------------------------------------------
(* A repeat completes.                                                      *)

\* What a run knows that has met neither a fault nor another run: only its own
\* operation runs, so what it last read of LXD is still so.
Alone(r) ==
  /\ \A o \in Runner \ {r} : pc[o] = "idle"
  /\ \A n \in Node : op[n] # NoRunner =>
       /\ op[n] = r
       /\ \/ n = Seed /\ pc[r] = "initwait"
          \/ n = Joiner[r] /\ pc[r] = "joinwait"
  /\ pc[r] # "idle" => result[r] = "none"
  /\ pc[r] \in {"initcert", "init"} => cluster[Seed] = NoNode
  /\ pc[r] \in {"joincert", "join"} => cluster[Joiner[r]] = NoNode
  /\ pc[r] = "verify" => cluster[Joiner[r]] # NoNode
  /\ result[r] = "failed" => cluster[Joiner[r]] \notin {NoNode, Seed}

\* A read of LXD, and the verdict.
LEMMA AloneReads ==
  ASSUME IInv, NEW r \in Runner, Alone(r),
         ChecksPass(r) \/ SeedStatus(r) \/ SeedCertificate(r) \/ JoinerStatus(r) \/ Verify(r)
  PROVE  Alone(r)'
<1>1. pc \in [Runner -> Step] /\ result \in [Runner -> {"none", "ready", "failed"}]
  BY DEF IInv, TypeOK
<1>2. Seed \in Node /\ NoNode \notin Node /\ Joiner[r] \in Node
  BY NodeAssumption, MarkerAssumption
<1>3. CASE ChecksPass(r) \/ SeedStatus(r)
  BY <1>1, <1>3 DEF ChecksPass, SeedStatus, Goto, Alone, Enabled
<1>4. CASE SeedCertificate(r)
  BY <1>1, <1>4 DEF SeedCertificate, Goto, Alone
<1>5. CASE JoinerStatus(r)
  BY <1>1, <1>5 DEF JoinerStatus, Goto, Alone, Enabled
<1>6. CASE Verify(r)
  <2>1. cluster[Joiner[r]] # NoNode /\ cluster[Seed] = Seed
    BY <1>6 DEF Verify, Alone, IInv, Formed, PastSeed
  <2>2. Verified(r) <=> cluster[Joiner[r]] = Seed
    BY <1>2, <2>1 DEF Verified, Members, Enabled
  <2>3. /\ cluster' = cluster /\ op' = op /\ pc[r] = "verify"
        /\ pc' = [pc EXCEPT ![r] = "idle"]
        /\ result' = [result EXCEPT ![r] = IF Verified(r) THEN "ready" ELSE "failed"]
    BY <1>6 DEF Verify, Return, Goto
  <2>4. \A n \in Node : op[n] = NoRunner
    BY <2>3 DEF Alone
  <2>5. result'[r] = "failed" => cluster[Joiner[r]] # Seed
    BY <1>1, <2>2, <2>3
  <2>6. pc'[r] = "idle" /\ \A o \in Runner \ {r} : pc'[o] = "idle"
    BY <1>1, <2>3 DEF Alone
  <2>7. QED
    BY <2>1, <2>3, <2>4, <2>5, <2>6 DEF Alone
<1>7. QED
  BY <1>3, <1>4, <1>5, <1>6

\* A request, which LXD has no reason to refuse, and the end of its operation.
LEMMA AloneRequests ==
  ASSUME IInv, NEW r \in Runner, Alone(r), InitSeed(r) \/ JoinJoiner(r), r \in solo'
  PROVE  Alone(r)'
<1>1. /\ pc \in [Runner -> Step] /\ op \in [Node -> Runner \cup {NoRunner, Orphan}]
      /\ cluster \in [Node -> Node \cup {NoNode}]
  BY DEF IInv, TypeOK
<1>2. /\ Seed \in Node /\ NoNode \notin Node /\ Joiner[r] \in Node /\ Joiner[r] # Seed
      /\ NoRunner \notin Runner
  BY NodeAssumption, MarkerAssumption
<1>3. CASE RequestAccepted(r, Seed, "init", "initwait")
  <2>1. /\ pc' = [pc EXCEPT ![r] = "initwait"] /\ pc[r] = "init"
        /\ op' = [op EXCEPT ![Seed] = r] /\ UNCHANGED <<cluster, result>>
    BY <1>3 DEF RequestAccepted, Goto
  <2>2. result[r] = "none" /\ \A n \in Node : op[n] = NoRunner
    BY <2>1 DEF Alone
  <2>3. \A n \in Node : op'[n] # NoRunner => n = Seed /\ op'[n] = r
    BY <1>1, <2>1, <2>2
  <2>4. pc'[r] = "initwait" /\ \A o \in Runner \ {r} : pc'[o] = "idle"
    BY <1>1, <2>1 DEF Alone
  <2>5. QED
    <3>1. \A n \in Node : op'[n] # NoRunner => op'[n] = r /\ n = Seed /\ pc'[r] = "initwait"
      BY <2>3, <2>4
    <3>2. UNCHANGED cluster /\ result'[r] = "none"
      BY <2>1, <2>2
    <3>3. QED
      BY <2>4, <3>1, <3>2 DEF Alone
<1>4. CASE RequestAccepted(r, Joiner[r], "join", "joinwait")
  BY <1>1, <1>2, <1>4 DEF RequestAccepted, Goto, Alone
<1>5. ASSUME RequestRefused(r, Seed, "init", "joiner") \/ RequestRefused(r, Joiner[r], "join", "verify")
      PROVE  FALSE
  BY <1>2, <1>5 DEF RequestRefused, Accepts, Enabled, Alone
<1>6. ASSUME \/ RequestUnanswered(r, Seed, "init") \/ RequestUnanswered(r, Joiner[r], "join")
             \/ OperationFails(r, Seed, "initwait") \/ OperationFails(r, Joiner[r], "joinwait")
      PROVE  FALSE
  BY <1>6 DEF RequestUnanswered, OperationFails
<1>7. CASE OperationDone(r, Seed, "initwait", "joiner")
  <2>1. /\ pc' = [pc EXCEPT ![r] = "joiner"] /\ pc[r] = "initwait" /\ result' = result
        /\ op' = [op EXCEPT ![Seed] = NoRunner]
    BY <1>7 DEF OperationDone, Goto
  <2>2. \A n \in Node : op'[n] = NoRunner
    BY <1>1, <1>2, <2>1 DEF Alone
  <2>3. result[r] = "none" /\ pc'[r] = "joiner" /\ \A o \in Runner \ {r} : pc'[o] = "idle"
    BY <1>1, <2>1 DEF Alone
  <2>4. QED
    BY <2>1, <2>2, <2>3 DEF Alone
<1>8. CASE OperationDone(r, Joiner[r], "joinwait", "verify")
  <2>1. /\ pc' = [pc EXCEPT ![r] = "verify"] /\ pc[r] = "joinwait" /\ result' = result
        /\ op' = [op EXCEPT ![Joiner[r]] = NoRunner] /\ Succeeds(Joiner[r]) /\ Form(Joiner[r])
    BY <1>8 DEF OperationDone, Goto
  <2>2. \A n \in Node : op'[n] = NoRunner
    BY <1>1, <1>2, <2>1 DEF Alone
  <2>3. result[r] = "none" /\ pc'[r] = "verify" /\ \A o \in Runner \ {r} : pc'[o] = "idle"
    BY <1>1, <2>1 DEF Alone
  <2>4. cluster'[Joiner[r]] # NoNode
    BY <1>1, <1>2, <2>1 DEF Succeeds, Form, Enabled
  <2>5. QED
    BY <2>1, <2>2, <2>3, <2>4 DEF Alone
<1>9. QED
  BY <1>3, <1>4, <1>5, <1>6, <1>7, <1>8 DEF InitSeed, JoinJoiner

\* Every step keeps what the runs that are alone know.
LEMMA AloneKept ==
  IInv /\ (\A r \in solo : Alone(r)) /\ [Next]_vars => (\A r \in solo : Alone(r))'
<1> SUFFICES ASSUME IInv, \A r \in solo : Alone(r), [Next]_vars, NEW r \in solo' PROVE Alone(r)'
  OBVIOUS
<1>1. /\ pc \in [Runner -> Step] /\ result \in [Runner -> {"none", "ready", "failed"}]
      /\ solo \subseteq Runner
  BY DEF IInv, TypeOK
<1>2. ASSUME NEW o \in Runner, Start(o) PROVE Alone(r)'
  <2>1. /\ r = o /\ \A k \in Runner : pc[k] = "idle"
        /\ \A n \in Node : op[n] = NoRunner
    BY <1>2 DEF Start
  <2>2. pc' = [pc EXCEPT ![r] = "checks"] /\ result' = [result EXCEPT ![r] = "none"]
        /\ UNCHANGED <<cluster, op>>
    BY <1>2, <2>1 DEF Start, Goto
  <2>3. pc'[r] = "checks" /\ result'[r] = "none" /\ \A k \in Runner \ {r} : pc'[k] = "idle"
    BY <1>1, <1>2, <2>1, <2>2
  <2>4. QED
    BY <2>1, <2>2, <2>3 DEF Alone
<1>3. ASSUME NEW o \in Runner, RunStep(o) PROVE Alone(r)'
  <2>1. solo' \subseteq solo /\ pc[o] # "idle"
    BY <1>3 DEF RunStep, ChecksPass, SeedStatus, SeedCertificate, JoinerStatus, Verify, InitSeed, JoinJoiner,
                RequestAccepted, RequestUnanswered, RequestRefused, OperationDone, OperationFails
  <2>2. Alone(r) /\ r = o /\ r \in Runner
    BY <1>1, <2>1 DEF Alone
  <2>3. QED
    BY <1>3, <2>2, AloneReads, AloneRequests DEF RunStep
<1>4. ASSUME NEW o \in Runner, RunFails(o) PROVE FALSE
  <2>1. solo' = solo \ {o} /\ pc[o] # "idle"
    BY <1>4 DEF RunFails
  <2>2. QED
    BY <2>1 DEF Alone
<1>5. ASSUME NEW n \in Node, OrphanEnds(n) PROVE FALSE
  BY <1>1, <1>5, MarkerAssumption DEF OrphanEnds, Alone
<1>6. CASE UNCHANGED vars
  BY <1>6 DEF vars, Alone
<1>7. QED
  BY <1>2, <1>3, <1>4, <1>5, <1>6 DEF Next

\* bootstrap.go:26-29: a run that has LXD for itself and meets no fault finishes what
\* earlier ones left, unless its joiner is in another cluster.
THEOREM RetriesComplete == Spec => []RetryCompletes
<1> DEFINE AllAlone == \A r \in solo : Alone(r)
<1>1. Init => AllAlone
  BY DEF Init
<1>2. IInv /\ AllAlone /\ [Next]_vars => AllAlone'
  BY AloneKept
<1>3. IInv /\ AllAlone => RetryCompletes
  BY DEF IInv, TypeOK, Alone, RetryCompletes
<1> HIDE DEF AllAlone
<1>4. QED
  BY <1>1, <1>2, <1>3, FormationInvariant, PTL DEF Spec
=============================================================================
