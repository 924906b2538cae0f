------------------------ MODULE BootstrapGuardProofs ------------------------
(***************************************************************************)
(* For any number of managers and of faults: the bootstrap guard keeps its  *)
(* types, lets one manager bootstrap at a time, and makes one initial       *)
(* cluster, as long as no session of a live manager is dropped.             *)
(***************************************************************************)
EXTENDS BootstrapGuard, TLAPS

\* Who is between the lock and its release holds the lock, unless the server
\* dropped its session.
HoldsLock == \A m \in Critical : holder = m \/ m \in dropped

\* While a manager bootstraps there is no initial cluster yet.
CheckedUnderLock ==
  dropped = {} =>
    /\ initial <= 1
    /\ \A m \in Manager : pc[m] = "bootstrap" => initial = 0

\* The inductive invariant.
GuardInv == TypeOK /\ HoldsLock /\ CheckedUnderLock

-----------------------------------------------------------------------------
\* A step of the guard, of a crash or of the server keeps the types.
LEMMA TypeStep == TypeOK /\ [Next]_vars => TypeOK'
<1> SUFFICES ASSUME TypeOK, [Next]_vars PROVE TypeOK'
  OBVIOUS
<1> USE FaultAssumption, HolderAssumption DEF TypeOK, Step, Goto, Fault, Abandon, AfterGuard
<1>1. ASSUME NEW m \in Manager, Start(m) PROVE TypeOK'
  BY <1>1 DEF Start
<1>2. ASSUME NEW m \in Manager, AcquireLock(m) PROVE TypeOK'
  BY <1>2 DEF AcquireLock
<1>3. ASSUME NEW m \in Manager, LockTaken(m) PROVE TypeOK'
  BY <1>3 DEF LockTaken
<1>4. ASSUME NEW m \in Manager, LockFails(m) PROVE TypeOK'
  BY <1>4 DEF LockFails
<1>5. ASSUME NEW m \in Manager, NoClusterYet(m) PROVE TypeOK'
  BY <1>5 DEF NoClusterYet
<1>6. ASSUME NEW m \in Manager, ClusterExists(m) PROVE TypeOK'
  BY <1>6 DEF ClusterExists
<1>7. ASSUME NEW m \in Manager, ListFails(m) PROVE TypeOK'
  BY <1>7 DEF ListFails
<1>8. ASSUME NEW m \in Manager, RunBootstrap(m) PROVE TypeOK'
  BY <1>8 DEF RunBootstrap
<1>9. ASSUME NEW m \in Manager, BootstrapFails(m) PROVE TypeOK'
  BY <1>9 DEF BootstrapFails
<1>10. ASSUME NEW m \in Manager, Unlock(m) PROVE TypeOK'
  BY <1>10 DEF Unlock
<1>11. ASSUME NEW m \in Manager, UnlockFails(m) PROVE TypeOK'
  BY <1>11 DEF UnlockFails
<1>12. ASSUME NEW m \in Manager, Crash(m) PROVE TypeOK'
  BY <1>12 DEF Crash
<1>13. ASSUME NEW m \in Manager, SessionDrops(m) PROVE TypeOK'
  BY <1>13 DEF SessionDrops
<1>14. ASSUME NEW m \in Manager, CreateCluster(m) PROVE TypeOK'
  BY <1>14 DEF CreateCluster
<1>15. CASE SessionEnds
  BY <1>15 DEF SessionEnds
<1>16. CASE UNCHANGED vars
  BY <1>16 DEF vars
<1>17. QED
  BY <1>1, <1>2, <1>3, <1>4, <1>5, <1>6, <1>7, <1>8, <1>9, <1>10, <1>11,
     <1>12, <1>13, <1>14, <1>15, <1>16 DEF Next, GuardStep

\* The initial state is well typed.
LEMMA InitTypeOK == Init => TypeOK
<1> SUFFICES ASSUME Init PROVE TypeOK
  OBVIOUS
<1>1. pc \in [Manager -> Step]
  BY DEF Init, Step
<1>2. failed \subseteq Manager /\ dropped \subseteq Manager /\ apiMade \in BOOLEAN
  BY DEF Init
<1>3. holder \in Manager \cup {NoManager, Ghost}
  BY DEF Init
<1>4. initial \in Nat /\ faults \in 0 .. MaxFaults
  BY FaultAssumption DEF Init
<1>5. QED
  BY <1>1, <1>2, <1>3, <1>4 DEF TypeOK

\* bootstrap.Guard: every variable stays within its declared range.
THEOREM TypeCorrect == Spec => []TypeOK
  BY InitTypeOK, TypeStep, PTL DEF Spec

\* The check and the bootstrap are under one lock: GuardInv is inductive.
LEMMA GuardStepInv == GuardInv /\ [Next]_vars => GuardInv'
<1> SUFFICES ASSUME GuardInv, [Next]_vars PROVE HoldsLock' /\ CheckedUnderLock'
  BY TypeStep DEF GuardInv
<1>0. TypeOK /\ TypeOK' /\ HoldsLock /\ CheckedUnderLock
  BY TypeStep DEF GuardInv
<1>types. /\ pc \in [Manager -> Step] /\ initial \in Nat
          /\ holder \in Manager \cup {NoManager, Ghost}
  BY <1>0 DEF TypeOK
<1>inv. /\ \A k \in Manager : pc[k] \in {"check", "bootstrap", "unlock"} =>
              holder = k \/ k \in dropped
        /\ dropped = {} => initial <= 1
        /\ \A k \in Manager : dropped = {} /\ pc[k] = "bootstrap" => initial = 0
  BY <1>0 DEF HoldsLock, CheckedUnderLock, Critical
<1> USE <1>types, <1>inv, HolderAssumption
    DEF HoldsLock, CheckedUnderLock, Critical, Step, Goto, AfterGuard
\* The steps that leave the lock and the clusters as they are.
<1>1. ASSUME NEW m \in Manager, Start(m) PROVE HoldsLock' /\ CheckedUnderLock'
  BY <1>1 DEF Start
<1>2. ASSUME NEW m \in Manager, LockTaken(m) PROVE HoldsLock' /\ CheckedUnderLock'
  BY <1>2 DEF LockTaken
<1>3. ASSUME NEW m \in Manager, ClusterExists(m) PROVE HoldsLock' /\ CheckedUnderLock'
  BY <1>3 DEF ClusterExists
<1>4. ASSUME NEW m \in Manager, ListFails(m) PROVE HoldsLock' /\ CheckedUnderLock'
  BY <1>4 DEF ListFails
<1>5. ASSUME NEW m \in Manager, CreateCluster(m) PROVE HoldsLock' /\ CheckedUnderLock'
  BY <1>5 DEF CreateCluster
\* The lock is taken by one manager, from nobody, ...
<1>6. ASSUME NEW m \in Manager, AcquireLock(m) PROVE HoldsLock' /\ CheckedUnderLock'
  BY <1>6 DEF AcquireLock
<1>7. ASSUME NEW m \in Manager, LockFails(m) PROVE HoldsLock' /\ CheckedUnderLock'
  BY <1>7 DEF LockFails
\* ... the check is made under it, and so is the bootstrap, ...
<1>8. ASSUME NEW m \in Manager, NoClusterYet(m) PROVE HoldsLock' /\ CheckedUnderLock'
  BY <1>8 DEF NoClusterYet, Clusters
<1>9. ASSUME NEW m \in Manager, RunBootstrap(m) \/ BootstrapFails(m)
      PROVE  HoldsLock' /\ CheckedUnderLock'
  <2>1. dropped' = dropped /\ holder' = holder /\ pc[m] = "bootstrap"
        /\ initial' \in {initial, initial + 1} /\ pc' = [pc EXCEPT ![m] = "unlock"]
    BY <1>9 DEF RunBootstrap, BootstrapFails
  <2>2. HoldsLock'
    BY <2>1
  <2>3. ASSUME dropped = {}, NEW k \in Manager, pc'[k] = "bootstrap" PROVE FALSE
    <3>1. k # m /\ pc[k] = "bootstrap"
      BY <2>1, <2>3
    <3>2. holder = m /\ holder = k
      BY <2>1, <2>3, <3>1
    <3>3. QED
      BY <3>1, <3>2
  <2>4. dropped = {} => initial' <= 1
    BY <2>1
  <2>5. QED
    BY <2>1, <2>2, <2>3, <2>4
\* ... and who gives it up is no longer in the critical section.
<1>10. ASSUME NEW m \in Manager, Unlock(m) PROVE HoldsLock' /\ CheckedUnderLock'
  BY <1>10 DEF Unlock
<1>11. ASSUME NEW m \in Manager, UnlockFails(m) PROVE HoldsLock' /\ CheckedUnderLock'
  BY <1>11 DEF UnlockFails, Abandon
<1>12. ASSUME NEW m \in Manager, Crash(m) PROVE HoldsLock' /\ CheckedUnderLock'
  BY <1>12 DEF Crash, Abandon
<1>13. ASSUME NEW m \in Manager, SessionDrops(m) PROVE HoldsLock' /\ CheckedUnderLock'
  BY <1>13 DEF SessionDrops
<1>14. CASE SessionEnds
  BY <1>14 DEF SessionEnds
<1>15. CASE UNCHANGED vars
  BY <1>15 DEF vars
<1>16. QED
  BY <1>1, <1>2, <1>3, <1>4, <1>5, <1>6, <1>7, <1>8, <1>9, <1>10, <1>11,
     <1>12, <1>13, <1>14, <1>15 DEF Next, GuardStep

\* The inductive invariant holds in every reachable state.
THEOREM GuardInvariant == Spec => []GuardInv
<1>1. Init => GuardInv
  <2>1. Init => TypeOK
    BY InitTypeOK
  <2>2. Init => HoldsLock /\ CheckedUnderLock
    BY DEF Init, HoldsLock, CheckedUnderLock, Critical
  <2>3. QED
    BY <2>1, <2>2 DEF GuardInv
<1>2. QED
  BY <1>1, GuardStepInv, PTL DEF Spec

\* guard.go:67-69: one manager at a time is between the check for clusters and
\* the end of its bootstrap, unless the server dropped a live session.
THEOREM Exclusive == Spec => []MutualExclusion
<1>1. GuardInv => MutualExclusion
  BY DEF GuardInv, HoldsLock, MutualExclusion
<1>2. QED
  BY <1>1, GuardInvariant, PTL

\* guard.go:67-69: managers that start together make one initial cluster.
THEOREM OneInitialCluster == Spec => []SingleInitialCluster
<1>1. GuardInv => SingleInitialCluster
  BY DEF GuardInv, CheckedUnderLock, SingleInitialCluster
<1>2. QED
  BY <1>1, GuardInvariant, PTL
-----------------------------------------------------------------------------
(* The bootstrap is not forgotten.                                          *)

\* While nothing fails, the lock is in the hands of a manager that is past it, who
\* leaves a cluster when it unlocks; and a manager that skipped left it to that one.
Handled ==
  faults = 0 =>
    /\ failed = {} /\ holder # Ghost
    /\ holder # NoManager => holder \in Critical
    /\ \A m \in Manager : pc[m] = "unlock" => Clusters
    /\ (\E m \in Enabled : pc[m] = "running") => Clusters \/ holder # NoManager

\* Every step keeps Handled.
LEMMA HandledStep == TypeOK /\ Handled /\ [Next]_vars => Handled'
<1> SUFFICES ASSUME TypeOK, Handled, [Next]_vars, faults' = 0 PROVE Handled'
  BY DEF Handled
<1>0. /\ pc \in [Manager -> Step] /\ initial \in Nat /\ faults \in Nat
      /\ holder \in Manager \cup {NoManager, Ghost}
  BY FaultAssumption DEF TypeOK
<1>f. ~Fault
  BY <1>0 DEF Fault
<1>1. faults = 0
  <2>1. UNCHANGED faults
    BY <1>f DEF Next, GuardStep, Start, AcquireLock, LockTaken, LockFails, NoClusterYet, ClusterExists,
                ListFails, RunBootstrap, BootstrapFails, Unlock, UnlockFails, Crash, SessionDrops,
                CreateCluster, SessionEnds, vars
  <2>2. QED
    BY <2>1
<1>2. /\ failed = {} /\ holder # Ghost
      /\ holder # NoManager => holder \in Manager /\ pc[holder] \in {"check", "bootstrap", "unlock"}
      /\ \A m \in Manager : pc[m] = "unlock" => Clusters
      /\ (\E m \in Enabled : pc[m] = "running") => Clusters \/ holder # NoManager
  BY <1>1 DEF Handled, Critical
<1> USE <1>0, <1>2, HolderAssumption, EnabledAssumption
    DEF Handled, Critical, Clusters, Goto, Step
<1>3. ASSUME NEW m \in Manager, Start(m) PROVE Handled'
  BY <1>3 DEF Start
<1>4. ASSUME NEW m \in Manager, AcquireLock(m) PROVE Handled'
  BY <1>4 DEF AcquireLock
<1>5. ASSUME NEW m \in Manager, LockTaken(m) PROVE Handled'
  BY <1>5 DEF LockTaken
<1>6. ASSUME NEW m \in Manager, NoClusterYet(m) PROVE Handled'
  BY <1>6 DEF NoClusterYet
<1>7. ASSUME NEW m \in Manager, ClusterExists(m) PROVE Handled'
  BY <1>7 DEF ClusterExists
<1>8. ASSUME NEW m \in Manager, RunBootstrap(m) PROVE Handled'
  BY <1>8 DEF RunBootstrap
<1>9. ASSUME NEW m \in Manager, Unlock(m) PROVE Handled'
  BY <1>9 DEF Unlock, AfterGuard
<1>10. ASSUME NEW m \in Manager, CreateCluster(m) PROVE Handled'
  BY <1>10 DEF CreateCluster
<1>11. CASE UNCHANGED vars
  BY <1>11 DEF vars
<1>12. QED
  BY <1>f, <1>3, <1>4, <1>5, <1>6, <1>7, <1>8, <1>9, <1>10, <1>11
     DEF Next, GuardStep, LockFails, ListFails, BootstrapFails, UnlockFails, Crash, SessionDrops, SessionEnds

\* ADR-012: when all managers are up and nothing failed, one of those with the flag
\* has made the cluster that the others left to it.
THEOREM NotForgotten == Spec => []BootstrapNotForgotten
<1>1. Init => Handled
  BY HolderAssumption, EnabledAssumption DEF Init, Handled
<1>2. ASSUME TypeOK, Handled PROVE BootstrapNotForgotten
  <2> SUFFICES ASSUME \A m \in Manager : pc[m] = "running", Enabled # {}, faults = 0 PROVE Clusters
    BY DEF BootstrapNotForgotten
  <2>1. Critical = {}
    BY DEF Critical
  <2>2. holder = NoManager
    BY <1>2, <2>1 DEF Handled
  <2>3. \E m \in Enabled : pc[m] = "running"
    BY EnabledAssumption
  <2>4. QED
    BY <1>2, <2>2, <2>3 DEF Handled
<1>3. QED
  BY <1>1, <1>2, InitTypeOK, TypeStep, HandledStep, PTL DEF Spec
=============================================================================
