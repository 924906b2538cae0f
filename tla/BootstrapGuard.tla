--------------------------- MODULE BootstrapGuard ---------------------------
(***************************************************************************)
(* bootstrap.Guard.Run at the start of each manager process, with the       *)
(* PostgreSQL advisory lock of persistence/postgres/lock.go: the managers   *)
(* that start together must not bootstrap two initial clusters.             *)
(*                                                                         *)
(* The lock belongs to a database session.  The session of a process that   *)
(* died, or whose connection broke, still holds it until the server ends    *)
(* the session; the server may also end the session of a live process.      *)
(***************************************************************************)
EXTENDS Integers, FiniteSets

CONSTANTS
  Manager,    \* manager processes
  Enabled,    \* those with INITIAL_BOOTSTRAP_ENABLED=true
  MaxFaults,  \* bound on failing calls, crashes and dropped sessions
  NoManager,  \* nobody holds the lock
  Ghost       \* a session no process uses any more holds it

ASSUME EnabledAssumption == Enabled \subseteq Manager
ASSUME FaultAssumption   == MaxFaults \in Nat
ASSUME HolderAssumption  == NoManager \notin Manager /\ Ghost \notin Manager /\ Ghost # NoManager

VARIABLES
  pc,        \* where each manager is in main
  failed,    \* managers whose Guard.Run is about to return an error
  holder,    \* whose session holds the advisory lock
  dropped,   \* managers that were live when the server dropped their session
  initial,   \* clusters registered by a bootstrap coordinator
  apiMade,   \* a cluster was registered through the HTTP API
  faults

vars == <<pc, failed, holder, dropped, initial, apiMade, faults>>

Step == {"down", "lock", "check", "bootstrap", "unlock", "running"}

Goto(m, step) == pc' = [pc EXCEPT ![m] = step]

Fault == faults < MaxFaults /\ faults' = faults + 1

\* The connection of m is lost, and its session with it, sooner or later.
Abandon(m) == holder' = IF holder = m THEN Ghost ELSE holder

-----------------------------------------------------------------------------
\* The process starts; without the flag the guard does nothing.
Start(m) ==
  /\ pc[m] = "down"
  /\ Goto(m, IF m \in Enabled THEN "lock" ELSE "running")
  /\ UNCHANGED <<failed, holder, dropped, initial, apiMade, faults>>

\* Mutant: the clusters were looked at before the lock was taken.
LockAfterCheck(m) ==
  /\ pc[m] = "lock" /\ holder = NoManager
  /\ holder' = m
  /\ Goto(m, "bootstrap")
  /\ UNCHANGED <<failed, dropped, initial, apiMade, faults>>

\* TryLock returns (true, nil).
AcquireLock(m) ==
  /\ pc[m] = "lock" /\ holder = NoManager
  /\ holder' = m
  /\ Goto(m, "check")
  /\ UNCHANGED <<failed, dropped, initial, apiMade, faults>>

\* Mutant: the answer of TryLock is not looked at.
IgnoreLock(m) ==
  /\ pc[m] = "lock" /\ holder # NoManager
  /\ Goto(m, "check")
  /\ UNCHANGED <<failed, holder, dropped, initial, apiMade, faults>>

\* TryLock returns (false, nil): another session holds the lock.
LockTaken(m) ==
  /\ pc[m] = "lock" /\ holder # NoManager
  /\ Goto(m, "running")
  /\ UNCHANGED <<failed, holder, dropped, initial, apiMade, faults>>

\* TryLock fails, perhaps with the lock granted to a connection that is then
\* given up; main exits.
LockFails(m) ==
  /\ pc[m] = "lock" /\ Fault
  /\ holder' \in {holder} \cup (IF holder = NoManager THEN {Ghost} ELSE {})
  /\ Goto(m, "down")
  /\ UNCHANGED <<failed, dropped, initial, apiMade>>

Clusters == initial > 0 \/ apiMade

\* Mutant: the test of len(clusters) is inverted.
SkipWithoutCluster(m) ==
  /\ pc[m] = "check" /\ ~Clusters
  /\ Goto(m, "unlock")
  /\ UNCHANGED <<failed, holder, dropped, initial, apiMade, faults>>

\* ListClusters, under the lock.
NoClusterYet(m) ==
  /\ pc[m] = "check" /\ ~Clusters
  /\ Goto(m, "bootstrap")
  /\ UNCHANGED <<failed, holder, dropped, initial, apiMade, faults>>

ClusterExists(m) ==
  /\ pc[m] = "check" /\ Clusters
  /\ Goto(m, "unlock")
  /\ UNCHANGED <<failed, holder, dropped, initial, apiMade, faults>>

ListFails(m) ==
  /\ pc[m] = "check" /\ Fault
  /\ failed' = failed \cup {m}
  /\ Goto(m, "unlock")
  /\ UNCHANGED <<holder, dropped, initial, apiMade>>

\* The coordinator registers the initial cluster.
RunBootstrap(m) ==
  /\ pc[m] = "bootstrap"
  /\ initial' = initial + 1
  /\ Goto(m, "unlock")
  /\ UNCHANGED <<failed, holder, dropped, apiMade, faults>>

\* It returns an error, before or after it registered the cluster.
BootstrapFails(m) ==
  /\ pc[m] = "bootstrap" /\ Fault
  /\ initial' \in {initial, initial + 1}
  /\ failed' = failed \cup {m}
  /\ Goto(m, "unlock")
  /\ UNCHANGED <<holder, dropped, apiMade>>

\* Mutant: a status main does not have.
LeaveWithError(m) == IF m \in failed THEN "failed" ELSE "running"

\* main exits when Guard.Run returned an error, and goes on otherwise.
AfterGuard(m) == IF m \in failed THEN "down" ELSE "running"

\* Mutant: the lock is not released.
KeepLock(m) ==
  /\ pc[m] = "unlock"
  /\ Goto(m, AfterGuard(m)) /\ failed' = failed \ {m}
  /\ UNCHANGED <<holder, dropped, initial, apiMade, faults>>

\* The deferred Unlock.  Of a session that was dropped it releases nothing, and
\* the error is only logged.
Unlock(m) ==
  /\ pc[m] = "unlock"
  /\ holder' = IF holder = m THEN NoManager ELSE holder
  /\ Goto(m, AfterGuard(m)) /\ failed' = failed \ {m}
  /\ UNCHANGED <<dropped, initial, apiMade, faults>>

UnlockFails(m) ==
  /\ pc[m] = "unlock" /\ Fault
  /\ Abandon(m)
  /\ Goto(m, AfterGuard(m)) /\ failed' = failed \ {m}
  /\ UNCHANGED <<dropped, initial, apiMade>>

GuardStep(m) ==
  \/ AcquireLock(m) \/ LockTaken(m) \/ LockFails(m)
  \/ NoClusterYet(m) \/ ClusterExists(m) \/ ListFails(m)
  \/ RunBootstrap(m) \/ BootstrapFails(m) \/ Unlock(m) \/ UnlockFails(m)

-----------------------------------------------------------------------------
\* The process dies, or is stopped, at any point.
Crash(m) ==
  /\ pc[m] # "down" /\ Fault
  /\ Abandon(m)
  /\ Goto(m, "down") /\ failed' = failed \ {m}
  /\ UNCHANGED <<dropped, initial, apiMade>>

\* The server ends the session of a connection that is gone.
SessionEnds ==
  /\ holder = Ghost
  /\ holder' = NoManager
  /\ UNCHANGED <<pc, failed, dropped, initial, apiMade, faults>>

\* The server ends the session of a live process, which does not notice.
SessionDrops(m) ==
  /\ holder = m /\ Fault
  /\ holder' = NoManager /\ dropped' = dropped \cup {m}
  /\ UNCHANGED <<pc, failed, initial, apiMade>>

\* POST /v1/clusters at a manager that is up.
CreateCluster(m) ==
  /\ pc[m] = "running" /\ ~apiMade
  /\ apiMade' = TRUE
  /\ UNCHANGED <<pc, failed, holder, dropped, initial, faults>>

Init ==
  /\ pc = [m \in Manager |-> "down"]
  /\ failed = {} /\ holder = NoManager /\ dropped = {}
  /\ initial = 0 /\ apiMade = FALSE /\ faults = 0

Next ==
  \/ \E m \in Manager : \/ Start(m) \/ GuardStep(m) \/ Crash(m)
                        \/ SessionDrops(m) \/ CreateCluster(m)
  \/ SessionEnds

\* A process that started runs on, and the server notices a dead connection.
\* Nothing in the code starts a process that exited again.
Fairness == WF_vars(SessionEnds) /\ \A m \in Manager : WF_vars(GuardStep(m))

Spec     == Init /\ [][Next]_vars
FairSpec == Spec /\ Fairness

-----------------------------------------------------------------------------
\* Every variable stays within its declared range.
TypeOK ==
  /\ pc \in [Manager -> Step]
  /\ failed \subseteq Manager /\ dropped \subseteq Manager
  /\ holder \in Manager \cup {NoManager, Ghost}
  /\ initial \in Nat /\ apiMade \in BOOLEAN
  /\ faults \in 0 .. MaxFaults

Critical == {m \in Manager : pc[m] \in {"check", "bootstrap", "unlock"}}

\* guard.go:67-69, ADR-012: between its check for clusters and the end of its
\* bootstrap a manager is alone, whatever crashes and lost answers there are, as
\* long as the server drops no session of a live manager.
MutualExclusion ==
  dropped = {} => \A m, k \in Critical : m = k

\* guard.go:67-69: so there is one initial cluster at most, also when the
\* manager that made it failed or crashed before it said so.
SingleInitialCluster == dropped = {} => initial <= 1

\* ADR-012: a manager skips the bootstrap because another handles it: when all
\* are up and nothing failed, there is a cluster.
BootstrapNotForgotten ==
  (\A m \in Manager : pc[m] = "running") /\ Enabled # {} /\ faults = 0 => Clusters

\* ADR-012:37,82: once faults end, every startup has ended and the lock is free
\* for ever, whichever manager crashed with it or gave its connection up.
StartupEnds ==
  <>[](holder = NoManager /\ \A m \in Manager : pc[m] \in {"running", "down"})
=============================================================================
