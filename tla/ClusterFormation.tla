-------------------------- MODULE ClusterFormation --------------------------
(***************************************************************************)
(* bootstrap.Workflow.Run and Bootstrapper.Bootstrap: make the seed node a  *)
(* one-node LXD cluster unless it is clustered, make the joiner a member    *)
(* unless it is clustered, and look both up in the member list.  Nothing    *)
(* coordinates the runs of several processes but LXD, and a run repeats     *)
(* what an earlier one, that failed or died, may have done in part.         *)
(*                                                                         *)
(* InitCluster and JoinCluster start an operation in LXD and wait for it;   *)
(* the operation goes on when the wait is given up.  Readiness checks, the  *)
(* status and the certificate are reads.                                    *)
(***************************************************************************)
EXTENDS Integers, FiniteSets

CONSTANTS
  Runner,     \* processes that run the workflow
  Node,       \* LXD nodes
  Seed,       \* cfg.SeedNode of every run
  Joiner,     \* Joiner[r], cfg.JoinerNode of r
  Tells,      \* runners whose client reports ErrClusterAlreadyBootstrapped
  MaxFaults,  \* bound on failing calls, failing operations and crashes
  NoNode, NoRunner, Orphan

ASSUME NodeAssumption   == Seed \in Node /\ Joiner \in [Runner -> Node \ {Seed}]
ASSUME TellsAssumption  == Tells \subseteq Runner
ASSUME FaultAssumption  == MaxFaults \in Nat
ASSUME MarkerAssumption == NoNode \notin Node /\ NoRunner \notin Runner
                           /\ Orphan \notin Runner /\ Orphan # NoRunner

VARIABLES
  cluster,  \* LXD: the node that founded the cluster of each node, or NoNode
  op,       \* LXD: who waits for the running init or join of each node
  pc,       \* where each runner is in Run
  cert,     \* runners that hold the seed's certificate (seedCert)
  result,   \* what the last Run of each runner returned
  solo,     \* history: runs that met neither a fault nor another run
  faults

vars == <<cluster, op, pc, cert, result, solo, faults>>

Step == {"idle", "checks", "seed", "initcert", "init", "initwait",
         "joiner", "joincert", "join", "joinwait", "verify"}

Goto(r, step) == pc' = [pc EXCEPT ![r] = step]

\* GetClusterStatus.Enabled; the member list of the seed.
Enabled(n) == cluster[n] # NoNode
Members    == {n \in Node : cluster[n] = cluster[Seed] /\ Enabled(n)}

\* Run returns: Result.Ready, or FailedStep and Err.
Return(r, outcome) ==
  /\ Goto(r, "idle")
  /\ result' = [result EXCEPT ![r] = outcome]
  /\ cert' = cert \ {r}

\* An operation nobody waits for any more.
GiveUp(r) == op' = [n \in Node |-> IF op[n] = r THEN Orphan ELSE op[n]]

-----------------------------------------------------------------------------
Start(r) ==
  /\ pc[r] = "idle"
  /\ Goto(r, "checks")
  /\ result' = [result EXCEPT ![r] = "none"]
  /\ solo' = IF \A o \in Runner : pc[o] = "idle"
               THEN {r} \cap {o \in Runner : \A n \in Node : op[n] = NoRunner}
               ELSE {}
  /\ UNCHANGED <<cluster, op, cert, faults>>

Fault == faults < MaxFaults /\ faults' = faults + 1

\* A readiness check, the validation of cfg or a call fails, or the process
\* dies: a run is over, and Ready is not set.  The operation it waits for is not.
RunFails(r) ==
  /\ pc[r] # "idle"
  /\ Fault
  /\ Return(r, "failed")
  /\ GiveUp(r)
  /\ solo' = solo \ {r}
  /\ UNCHANGED cluster

\* Phase 1: every readiness check passes.
ChecksPass(r) ==
  /\ pc[r] = "checks"
  /\ Goto(r, "seed")
  /\ UNCHANGED <<cluster, op, cert, result, solo, faults>>

\* Mutant: the status of the seed is not asked for.
AlwaysInit(r) ==
  /\ pc[r] = "seed"
  /\ Goto(r, "initcert")
  /\ UNCHANGED <<cluster, op, cert, result, solo, faults>>

\* Step 1 of Bootstrap.
SeedStatus(r) ==
  /\ pc[r] = "seed"
  /\ Goto(r, IF Enabled(Seed) THEN "joiner" ELSE "initcert")
  /\ UNCHANGED <<cluster, op, cert, result, solo, faults>>

\* GetClusterCertificate of the seed, before the init or before the join.
SeedCertificate(r) ==
  /\ pc[r] \in {"initcert", "joincert"}
  /\ Goto(r, IF pc[r] = "initcert" THEN "init" ELSE "join")
  /\ cert' = cert \cup {r}
  /\ UNCHANGED <<cluster, op, result, solo, faults>>

\* PUT /1.0/cluster: LXD starts the operation on a node that is not clustered.
Accepts(n) == ~Enabled(n) /\ op[n] = NoRunner

RequestAccepted(r, n, step, wait) ==
  /\ pc[r] = step /\ Accepts(n)
  /\ op' = [op EXCEPT ![n] = r]
  /\ Goto(r, wait)
  /\ UNCHANGED <<cluster, cert, result, solo, faults>>

\* The request takes effect and its answer is lost.
RequestUnanswered(r, n, step) ==
  /\ pc[r] = step /\ Accepts(n)
  /\ Fault
  /\ op' = [op EXCEPT ![n] = Orphan]
  /\ Return(r, "failed")
  /\ solo' = solo \ {r}
  /\ UNCHANGED cluster

\* LXD refuses: a clustered node is a no-op if the client says so, any other
\* refusal an error.
RequestRefused(r, n, step, next) ==
  /\ pc[r] = step /\ ~Accepts(n)
  /\ IF Enabled(n) /\ r \in Tells
       THEN Goto(r, next) /\ UNCHANGED <<cert, result>>
       ELSE Return(r, "failed")
  /\ UNCHANGED <<cluster, op, solo, faults>>

\* What a finished operation makes of its node; a join needs a cluster to join.
Succeeds(n) == n = Seed \/ Enabled(Seed)
Form(n)     == cluster' = [cluster EXCEPT ![n] = IF n = Seed THEN Seed ELSE cluster[Seed]]

\* waitOperation sees the end of the operation.
OperationDone(r, n, wait, next) ==
  /\ pc[r] = wait /\ op[n] = r /\ Succeeds(n)
  /\ Form(n)
  /\ op' = [op EXCEPT ![n] = NoRunner]
  /\ Goto(r, next)
  /\ UNCHANGED <<cert, result, solo, faults>>

OperationFails(r, n, wait) ==
  /\ pc[r] = wait /\ op[n] = r
  /\ IF Succeeds(n) THEN Fault ELSE UNCHANGED faults
  /\ op' = [op EXCEPT ![n] = NoRunner]
  /\ Return(r, "failed")
  /\ solo' = solo \ {r}
  /\ UNCHANGED cluster

InitSeed(r) ==
  \/ RequestAccepted(r, Seed, "init", "initwait")
  \/ RequestUnanswered(r, Seed, "init")
  \/ RequestRefused(r, Seed, "init", "joiner")
  \/ OperationDone(r, Seed, "initwait", "joiner")
  \/ OperationFails(r, Seed, "initwait")

\* Step 2.
JoinerStatus(r) ==
  /\ pc[r] = "joiner"
  /\ Goto(r, IF Enabled(Joiner[r]) THEN "verify" ELSE IF r \notin cert THEN "joincert" ELSE "join")
  /\ UNCHANGED <<cluster, op, cert, result, solo, faults>>

JoinJoiner(r) ==
  \/ RequestAccepted(r, Joiner[r], "join", "joinwait")
  \/ RequestUnanswered(r, Joiner[r], "join")
  \/ RequestRefused(r, Joiner[r], "join", "verify")
  \/ OperationDone(r, Joiner[r], "joinwait", "verify")
  \/ OperationFails(r, Joiner[r], "joinwait")

\* Mutant: verify asks whether the nodes are clustered.
VerifyStatus(r) == Enabled(Seed) /\ Enabled(Joiner[r])

Verified(r) == {Seed, Joiner[r]} \subseteq Members

\* Mutant: the failed step is stored for the outcome.
VerifyStep(r) ==
  /\ pc[r] = "verify"
  /\ Return(r, IF Verified(r) THEN "ready" ELSE "bootstrap")
  /\ UNCHANGED <<cluster, op, solo, faults>>

\* Mutant: a joiner that is not in the list is only logged.
VerifyLogs(r) ==
  /\ pc[r] = "verify"
  /\ Return(r, "ready")
  /\ UNCHANGED <<cluster, op, solo, faults>>

\* Step 3.
Verify(r) ==
  /\ pc[r] = "verify"
  /\ Return(r, IF Verified(r) THEN "ready" ELSE "failed")
  /\ UNCHANGED <<cluster, op, solo, faults>>

RunStep(r) ==
  \/ ChecksPass(r) \/ SeedStatus(r) \/ SeedCertificate(r) \/ InitSeed(r)
  \/ JoinerStatus(r) \/ JoinJoiner(r) \/ Verify(r)

\* LXD finishes an operation whose waiter is gone, or gives it up.
OrphanEnds(n) ==
  /\ op[n] = Orphan
  /\ op' = [op EXCEPT ![n] = NoRunner]
  /\ \/ Succeeds(n) /\ Form(n)
     \/ UNCHANGED cluster
  /\ UNCHANGED <<pc, cert, result, solo, faults>>

\* Nodes may be clustered before: with the seed, or with a cluster of their own.
Init ==
  /\ cluster \in [Node -> Node \cup {NoNode}]
  /\ cluster[Seed] \in {Seed, NoNode}
  /\ \A n \in Node \ {Seed} : cluster[n] \in {n, NoNode} \cup {cluster[Seed]}
  /\ op = [n \in Node |-> NoRunner]
  /\ pc = [r \in Runner |-> "idle"] /\ result = [r \in Runner |-> "none"]
  /\ cert = {} /\ solo = {} /\ faults = 0

Next ==
  \/ \E r \in Runner : Start(r) \/ RunStep(r) \/ RunFails(r)
  \/ \E n \in Node : OrphanEnds(n)

Spec == Init /\ [][Next]_vars

-----------------------------------------------------------------------------
\* Every variable stays within its declared range.
TypeOK ==
  /\ cluster \in [Node -> Node \cup {NoNode}]
  /\ op \in [Node -> Runner \cup {NoRunner, Orphan}]
  /\ pc \in [Runner -> Step] /\ result \in [Runner -> {"none", "ready", "failed"}]
  /\ cert \subseteq Runner /\ solo \subseteq Runner
  /\ faults \in 0 .. MaxFaults

\* workflow.go:68-71 and bootstrap.go:4: what a run calls ready is a member of
\* the cluster of the seed, whatever other runs and orphaned operations did.
ReadyIsMember ==
  \A r \in Runner : result[r] = "ready" => cluster[Seed] = Seed /\ cluster[Joiner[r]] = Seed

\* bootstrap.go:3-10, workflow.go:68-71: runs that overlap, fail, die and leave
\* operations behind only ever let the seed's cluster grow, by the nodes they
\* were started for, and report no node that is not in it.
Formation == INSTANCE Membership
               WITH members <- Members, ready <- {r \in Runner : result[r] = "ready"}
ImplementsMembership == Formation!Spec

\* bootstrap.go:26-29: a run that has LXD for itself and meets no fault ends
\* ready, whatever part of the job earlier runs that failed or died have done,
\* unless its joiner is in another cluster.
RetryCompletes ==
  \A r \in Runner : r \in solo /\ result[r] = "failed" => cluster[Joiner[r]] \notin {NoNode, Seed}

\* bootstrap.go:146-152: no node is asked to join before the seed is clustered.
JoinAfterInit ==
  [][\A r \in Runner : pc[r] = "join" /\ pc'[r] = "joinwait" => Enabled(Seed)]_vars
=============================================================================
