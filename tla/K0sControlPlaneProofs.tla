----------------------- MODULE K0sControlPlaneProofs -----------------------
(***************************************************************************)
(* Proofs about K0sControlPlane, for every set of Machines, every replica  *)
(* count, every revision set and every number of disturbances.             *)
(***************************************************************************)
EXTENDS MCK0sControlPlane, FiniteSetTheorems, TLAPS

(* What no prover is named for goes to Zenon.                               *)
USE ZenonT(30)

USE NoMachineAssumption, MachineAssumption, ReplicaAssumption, RevisionAssumption,
    FlagAssumption, DisturbanceAssumption

----------------------------------------------------------------------------
(* Type correctness.                                                         *)

(* An empty scope has the type of a scope.                                   *)
LEMMA NoScopeType == NoScope \in Scope
  BY SMT DEF NoScope, Scope, FirstKcp, Kcp, Phases

(* The snapshot retrieveControlPlaneState takes has the type of a scope.     *)
LEMMA RetrieveType ==
    ASSUME TypeOK, NEW k \in Kcp
    PROVE  retrieveControlPlaneState(k) \in Scope
  BY SMT DEF retrieveControlPlaneState, Scope, TypeOK, Active, Deleting, Kcp

(* The initial state is well typed.                                          *)
LEMMA InitType == Init => TypeOK
<1> SUFFICES ASSUME Init PROVE TypeOK
    OBVIOUS
<1>1. kcp \in Kcp /\ cache \in Kcp
    BY SMTT(30) DEF Init, FirstKcp, Kcp, Phases
<1>2. scope \in Scope
    BY NoScopeType DEF Init
<1>3. budget \in 0..MaxDisturbances
    BY SMTT(30) DEF Init
<1> QED BY <1>1, <1>2, <1>3 DEF Init, TypeOK

(* So is a control plane that starts initialized and at full size.           *)
LEMMA RunningType == RunningInit => TypeOK
<1> SUFFICES ASSUME RunningInit PROVE TypeOK
    OBVIOUS
<1>1. PICK n, S, R : n \in Replica /\ S \in SUBSET Machine /\ R \in TotalOrders(S) /\ Running(n, S, R)
    BY DEF RunningInit
<1>2. kcp \in Kcp /\ cache \in Kcp
    BY <1>1 DEF Running, FirstKcp, Kcp, Phases
<1>3. scope \in Scope
    BY <1>1, NoScopeType DEF Running
<1>4. budget \in 0..MaxDisturbances
    BY <1>1, SMTT(30) DEF Running
<1>5. older \subseteq Machine \X Machine
    BY <1>1 DEF Running, TotalOrders
<1>6. hook \in [Machine -> BOOLEAN] /\ infra \in [Machine -> BOOLEAN]
  <2>1. hook = [m \in Machine |-> m \in S] /\ infra = [m \in Machine |-> m \in S]
      BY <1>1 DEF Running
  <2> QED BY <2>1, SMT
<1>7. /\ life \in [Machine -> {"none", "active", "deleting"}]
      /\ rev \in [Machine -> Revision]
      /\ health \in [Machine -> {"unknown", "healthy", "failed", "recovered"}]
      /\ ready \in [Machine -> {"new", "joined", "available"}]
      /\ member \in [Machine -> {"none", "joined", "leaving", "left"}]
    BY <1>1 DEF Running
<1>8. lostMember \in BOOLEAN /\ workers \in BOOLEAN /\ pc = "idle"
    BY <1>1 DEF Running
<1> QED BY <1>2, <1>3, <1>4, <1>5, <1>6, <1>7, <1>8 DEF TypeOK

(* A disturbance keeps the budget within its bound.                          *)
LEMMA DisturbType ==
    ASSUME TypeOK, NEW kind, Disturb(kind)
    PROVE  budget' \in 0..MaxDisturbances
  BY SMTT(30) DEF TypeOK, Disturb

(* Assigning the fields that the deferred patch writes keeps the type.       *)
LEMMA PatchFieldTypes ==
    ASSUME NEW k \in Kcp, NEW a \in BOOLEAN, NEW b \in BOOLEAN, NEW c \in BOOLEAN, NEW p \in Phases
    PROVE  [k EXCEPT !.remediating = a, !.init = b, !.fin = c, !.phase = p] \in Kcp
  BY DEF Kcp

(* A step of Reconcile that succeeds keeps the types.                        *)
LEMMA ReconcileStepType == TypeOK /\ ReconcileStep => TypeOK'
<1> SUFFICES ASSUME TypeOK, ReconcileStep PROVE TypeOK'
    OBVIOUS
<1> USE DEF TypeOK, Goto
<1>1. CASE EnsureFinalizer
    BY <1>1 DEF EnsureFinalizer, machineVars, Kcp
<1>2. CASE StartReconcile
  <2>1. retrieveControlPlaneState(cache) \in Scope
      BY RetrieveType
  <2>2. budget' \in 0..MaxDisturbances
      BY <1>2, DisturbType DEF StartReconcile
  <2> QED BY <1>2, <2>1, <2>2 DEF StartReconcile, machineVars
<1>3. CASE Prepare
    BY <1>3 DEF Prepare, machineVars
<1>4. CASE SanitizeHealthyMachines
    BY <1>4 DEF SanitizeHealthyMachines
<1>5. CASE NothingToRemediate
    BY <1>5 DEF NothingToRemediate, ManualDeletions, Scope, machineVars
<1>6. CASE NodeLeft
    BY <1>6 DEF NodeLeft, AfterLeave
<1>7. CASE LeaveTimesOut
    BY <1>7 DEF LeaveTimesOut, AfterLeave, Scope, machineVars
<1>8. CASE DropMachine
    BY <1>8 DEF DropMachine, Deleted, removeMachineFromScope, Scope
<1>9. CASE ManualDeletionsDone
    BY <1>9 DEF ManualDeletionsDone, Scope, machineVars
<1>10. CASE CheckLatestMachine
    BY <1>10 DEF CheckLatestMachine, machineVars
<1>11. CASE NothingToScale
    BY <1>11 DEF NothingToScale, machineVars
<1>12. CASE ReconcileDelete
    BY <1>12 DEF ReconcileDelete, NoMachinesLeft, MachinesToDelete, Active, Scope, machineVars
<1>13. CASE RemoveHook
    BY <1>13 DEF RemoveHook
<1>14. CASE DeleteLoopDone
    BY <1>14 DEF DeleteLoopDone, machineVars
<1>15. CASE PatchKcp
  <2>1. kcp' \in Kcp
    <3>1. \A answers \in BOOLEAN : Patched(answers) \in Kcp
      <4> TAKE answers \in BOOLEAN
      <4>1. scope.kcp \in Kcp /\ scope.wasRemediating \in BOOLEAN /\ scope.finish \in BOOLEAN
          BY DEF Scope
      <4> DEFINE a == IF scope.kcp.remediating # scope.wasRemediating
                      THEN scope.kcp.remediating ELSE kcp.remediating
                 b == kcp.init \/ answers
                 c == kcp.fin /\ ~scope.finish
                 p == IF scope.finish /\ kcp.phase = "deleting" THEN "gone" ELSE kcp.phase
      <4>2. a \in BOOLEAN
          BY <4>1 DEF Kcp
      <4>3. b \in BOOLEAN /\ c \in BOOLEAN
          OBVIOUS
      <4>4. p \in Phases
          BY DEF Kcp, Phases
      <4>5. Patched(answers) = [kcp EXCEPT !.remediating = a, !.init = b, !.fin = c, !.phase = p]
          BY DEF Patched
      <4>6. kcp \in Kcp
          OBVIOUS
      <4> HIDE DEF a, b, c, p, TypeOK
      <4>7. [kcp EXCEPT !.remediating = a, !.init = b, !.fin = c, !.phase = p] \in Kcp
          BY <4>2, <4>3, <4>4, <4>6, PatchFieldTypes
      <4> QED BY <4>5, <4>7
    <3> QED BY <1>15, <3>1 DEF PatchKcp
  <2> QED BY <1>15, <2>1, NoScopeType DEF PatchKcp, machineVars
<1>16. ASSUME NEW m \in Machine, Remediate(m) PROVE TypeOK'
  <2>1. life' \in [Machine -> {"none", "active", "deleting"}]
      BY <1>16 DEF Remediate, Deleted
  <2>2. ManualDeletions \subseteq Machine
      BY DEF ManualDeletions, Scope
  <2>3. scope' \in Scope
    <3>1. [scope.kcp EXCEPT !.remediating = TRUE] \in Kcp
        BY DEF Scope, Kcp
    <3>2. scope' = [[scope EXCEPT !.kcp = [scope.kcp EXCEPT !.remediating = TRUE]]
                       EXCEPT !.todo = ManualDeletions]
        BY <1>16 DEF Remediate, Scope
    <3> QED BY <2>2, <3>1, <3>2 DEF Scope
  <2> QED BY <1>16, <2>1, <2>3 DEF Remediate
<1>17. ASSUME NEW m \in Machine, MarkToLeave(m) PROVE TypeOK'
    BY <1>17 DEF MarkToLeave, Scope
<1>18. ASSUME NEW m \in Machine, ScaleUp(m) PROVE TypeOK'
  <2>1. older' \subseteq Machine \X Machine
      BY <1>18 DEF ScaleUp, Existing
  <2>2. scope' \in Scope /\ scope.kcp.rev \in Revision
      BY <1>18 DEF ScaleUp, Scope, Kcp
  <2> QED BY <1>18, <2>1, <2>2 DEF ScaleUp
<1>19. ASSUME NEW m \in Machine, ScaleDown(m) PROVE TypeOK'
    BY <1>19 DEF ScaleDown, Deleted
<1>20. ASSUME NEW m \in Machine, DeleteControlPlaneMachine(m) PROVE TypeOK'
    BY <1>20 DEF DeleteControlPlaneMachine, Deleted, Scope
<1> QED BY <1>1, <1>2, <1>3, <1>4, <1>5, <1>6, <1>7, <1>8, <1>9, <1>10, <1>11, <1>12, <1>13,
           <1>14, <1>15, <1>16, <1>17, <1>18, <1>19, <1>20 DEF ReconcileStep

(* A step of Reconcile that fails keeps the types.                           *)
LEMMA ReconcileFailureType == TypeOK /\ ReconcileFailure => TypeOK'
<1> SUFFICES ASSUME TypeOK, ReconcileFailure PROVE TypeOK'
    OBVIOUS
<1>0. \A kind : Disturb(kind) => budget' \in 0..MaxDisturbances
    BY DisturbType
<1> USE <1>0 DEF TypeOK, Goto, machineVars
<1>1. CASE PrepareFails \/ SanitizeFails \/ RemediateFails \/ ScaleFails
    BY <1>1 DEF PrepareFails, SanitizeFails, RemediateFails, ScaleFails, ReturnError
<1>2. CASE LeaveFails
    BY <1>2 DEF LeaveFails, AfterLeave, Scope
<1>3. CASE DropFails
    BY <1>3 DEF DropFails, removeMachineFromScope, Scope
<1>4. CASE RemoveHookFails
    BY <1>4 DEF RemoveHookFails
<1>5. CASE PatchFails \/ Crash
    BY <1>5, NoScopeType DEF PatchFails, Crash, EndWithoutPatch
<1>6. ASSUME NEW m \in Machine, DeleteControlPlaneMachineFails(m) PROVE TypeOK'
    BY <1>6 DEF DeleteControlPlaneMachineFails, Scope
<1> QED BY <1>1, <1>2, <1>3, <1>4, <1>5, <1>6 DEF ReconcileFailure

(* A step of the environment keeps the types.                                *)
LEMMA EnvironmentStepType == TypeOK /\ EnvironmentStep => TypeOK'
<1> SUFFICES ASSUME TypeOK, EnvironmentStep PROVE TypeOK'
    OBVIOUS
<1>0. \A kind : Disturb(kind) => budget' \in 0..MaxDisturbances
    BY DisturbType
<1> USE <1>0 DEF TypeOK, machineVars
<1>1. CASE SyncCache \/ WorkersGone \/ WorkersAppear
    BY <1>1 DEF SyncCache, WorkersGone, WorkersAppear
<1>2. CASE UserEdits
  <2>1. kcp' \in Kcp
    <3>1. PICK n \in Replica, r \in Revision : kcp' = [kcp EXCEPT !.replicas = n, !.rev = r]
        BY <1>2 DEF UserEdits
    <3> QED BY <3>1 DEF Kcp
  <2> QED BY <1>2, <2>1 DEF UserEdits
<1>8. CASE UserDeletesKcp
  <2>1. kcp' \in Kcp
      BY <1>8 DEF UserDeletesKcp, Kcp, Phases
  <2> QED BY <1>8, <2>1 DEF UserDeletesKcp
<1>3. ASSUME NEW m \in Machine, Terminate(m) PROVE TypeOK'
    BY <1>3 DEF Terminate, Voting
<1>4. ASSUME NEW m \in Machine, Join(m) \/ EtcdLeave(m) PROVE TypeOK'
    BY <1>4, SMTT(30) DEF Join, EtcdLeave
<1>5. ASSUME NEW m \in Machine, BecomeAvailable(m) \/ LoseAvailable(m) PROVE TypeOK'
    BY <1>5, SMTT(30) DEF BecomeAvailable, LoseAvailable, SetReady
<1>6. ASSUME NEW m \in Machine, MarkUnhealthy(m) \/ MarkHealthy(m) PROVE TypeOK'
    BY <1>6, SMTT(30) DEF MarkUnhealthy, MarkHealthy, SetHealth
<1>7. ASSUME NEW m \in Machine, LoseInfra(m) \/ UserDeletesMachine(m) PROVE TypeOK'
    BY <1>7 DEF LoseInfra, UserDeletesMachine, Deleted
<1> QED BY <1>1, <1>2, <1>3, <1>4, <1>5, <1>6, <1>7, <1>8 DEF EnvironmentStep

(* Every variable keeps its type.                                            *)
THEOREM TypeCorrect == (Spec => []TypeOK) /\ (RunningSpec => []TypeOK)
<1>1. TypeOK /\ [Next]_vars => TypeOK'
  <2> SUFFICES ASSUME TypeOK, [Next]_vars PROVE TypeOK'
      OBVIOUS
  <2>1. CASE UNCHANGED vars
      BY <2>1 DEF vars, machineVars, TypeOK
  <2> QED BY <2>1, ReconcileStepType, ReconcileFailureType, EnvironmentStepType DEF Next
<1> QED BY <1>1, InitType, RunningType, PTL DEF Spec, RunningSpec

----------------------------------------------------------------------------
(* The K0sControlPlane outlives its Machines.                                *)

Working == {"prepare", "sanitize", "remediate", "manual", "leave", "drop", "ready", "scale"}

(* The property alone is not inductive: that a Machine is only ever created  *)
(* under the finalizer rests on what the cache and a running reconcile have  *)
(* seen, and that the finalizer goes last on nobody creating a Machine once  *)
(* the list came back empty.                                                 *)
MachinesNeedFinalizer == Existing # {} => kcp.fin /\ kcp.phase # "gone"
DeletingHasFinalizer  == kcp.phase = "deleting" => kcp.fin
CacheSawFinalizer     == cache.phase = "live" /\ cache.fin => kcp.fin /\ kcp.phase # "gone"
CacheSawDeletion      == cache.phase # "live" => kcp.phase # "live"
WorkNeedsFinalizer    == pc \in Working => kcp.fin /\ kcp.phase # "gone"
DeleteSawDeletion     == pc \in {"delete", "deleteLoop", "deleteHook"} => cache.phase # "live"
FinishIsLast          == scope.finish => /\ Existing = {} /\ scope.todo = {}
                                         /\ pc \in {"deleteLoop", "patch"}
                                         /\ cache.phase # "live"

FinalizerInv ==
    /\ MachinesNeedFinalizer /\ DeletingHasFinalizer /\ CacheSawFinalizer /\ CacheSawDeletion
    /\ WorkNeedsFinalizer /\ DeleteSawDeletion /\ FinishIsLast

(* A Delete call neither creates nor removes a Machine.                      *)
LEMMA DeletedKeepsExisting ==
    ASSUME TypeOK, NEW m \in Machine \cup {NoMachine}, life' = Deleted(m)
    PROVE  Existing' = Existing
  BY DEF TypeOK, Deleted, Existing

(* Steps of Reconcile keep the finalizer invariant.                          *)
LEMMA ReconcileStepFinalizer == TypeOK /\ FinalizerInv /\ ReconcileStep => FinalizerInv'
<1> SUFFICES ASSUME TypeOK, FinalizerInv, ReconcileStep PROVE FinalizerInv'
    OBVIOUS
<1>a. scope \in Scope /\ kcp \in Kcp /\ cache \in Kcp
    BY DEF TypeOK
<1> USE <1>a DEF FinalizerInv, MachinesNeedFinalizer, DeletingHasFinalizer, CacheSawFinalizer,
        CacheSawDeletion, WorkNeedsFinalizer, DeleteSawDeletion, FinishIsLast, Working, Goto
<1>1. CASE EnsureFinalizer
    BY <1>1 DEF EnsureFinalizer, machineVars, Existing, Kcp
<1>2. CASE StartReconcile
    BY <1>2 DEF StartReconcile, machineVars, Existing, retrieveControlPlaneState, Kcp, Phases
<1>3. CASE Prepare \/ CheckLatestMachine \/ NothingToScale \/ DeleteLoopDone
    BY <1>3 DEF Prepare, CheckLatestMachine, NothingToScale, DeleteLoopDone, machineVars, Existing
<1>4. CASE SanitizeHealthyMachines \/ NodeLeft \/ RemoveHook
    BY <1>4 DEF SanitizeHealthyMachines, NodeLeft, RemoveHook, AfterLeave, Existing
<1>5. CASE NothingToRemediate \/ LeaveTimesOut \/ ManualDeletionsDone
    BY <1>5 DEF NothingToRemediate, LeaveTimesOut, ManualDeletionsDone, AfterLeave, machineVars,
                Existing, Scope
<1>6. CASE DropMachine
  <2>1. Existing' = Existing
      BY <1>6, DeletedKeepsExisting DEF DropMachine, Scope
  <2> QED BY <1>6, <2>1 DEF DropMachine, removeMachineFromScope, Scope
<1>7. CASE ReconcileDelete
    BY <1>7 DEF ReconcileDelete, NoMachinesLeft, MachinesToDelete, Active, machineVars, Existing,
                Scope
<1>8. CASE PatchKcp
  <2>1. PICK answers \in BOOLEAN :
           kcp' = IF kcp.phase = "gone" THEN kcp ELSE Patched(answers)
      BY <1>8 DEF PatchKcp
  <2>2. CASE scope.finish
      BY <1>8, <2>1, <2>2 DEF PatchKcp, Patched, NoScope, machineVars, Existing, Kcp, Phases
  <2>3. CASE ~scope.finish
    <3>1. kcp'.phase = kcp.phase /\ kcp'.fin = kcp.fin
        BY <2>1, <2>3 DEF Patched, Kcp
    <3> QED BY <1>8, <2>3, <3>1 DEF PatchKcp, NoScope, machineVars, Existing
  <2> QED BY <2>2, <2>3
<1>9. ASSUME NEW m \in Machine, Remediate(m) PROVE FinalizerInv'
  <2>1. Existing' = Existing
      BY <1>9, DeletedKeepsExisting DEF Remediate
  <2> QED BY <1>9, <2>1 DEF Remediate, Scope
<1>10. ASSUME NEW m \in Machine, MarkToLeave(m) PROVE FinalizerInv'
    BY <1>10 DEF MarkToLeave, Existing, Scope
<1>11. ASSUME NEW m \in Machine, ScaleUp(m) PROVE FinalizerInv'
    BY <1>11 DEF ScaleUp, Scope
<1>12. ASSUME NEW m \in Machine, ScaleDown(m) PROVE FinalizerInv'
  <2>1. Existing' = Existing
      BY <1>12, DeletedKeepsExisting DEF ScaleDown
  <2> QED BY <1>12, <2>1 DEF ScaleDown
<1>13. ASSUME NEW m \in Machine, DeleteControlPlaneMachine(m) PROVE FinalizerInv'
  <2>1. Existing' = Existing
      BY <1>13, DeletedKeepsExisting DEF DeleteControlPlaneMachine
  <2> QED BY <1>13, <2>1 DEF DeleteControlPlaneMachine, Scope
<1> QED BY <1>1, <1>2, <1>3, <1>4, <1>5, <1>6, <1>7, <1>8, <1>9, <1>10, <1>11, <1>12, <1>13
        DEF ReconcileStep

(* Failures of Reconcile keep the finalizer invariant.                       *)
LEMMA ReconcileFailureFinalizer == TypeOK /\ FinalizerInv /\ ReconcileFailure => FinalizerInv'
<1> SUFFICES ASSUME TypeOK, FinalizerInv, ReconcileFailure PROVE FinalizerInv'
    OBVIOUS
<1>a. scope \in Scope
    BY DEF TypeOK
<1> USE <1>a DEF FinalizerInv, MachinesNeedFinalizer, DeletingHasFinalizer, CacheSawFinalizer,
        CacheSawDeletion, WorkNeedsFinalizer, DeleteSawDeletion, FinishIsLast, Working, Goto,
        machineVars, Existing
<1>1. CASE PrepareFails \/ SanitizeFails \/ RemediateFails \/ ScaleFails
    BY <1>1 DEF PrepareFails, SanitizeFails, RemediateFails, ScaleFails, ReturnError
<1>2. CASE LeaveFails
    BY <1>2 DEF LeaveFails, AfterLeave, Scope
<1>3. CASE DropFails
    BY <1>3 DEF DropFails, removeMachineFromScope, Scope
<1>4. CASE RemoveHookFails
    BY <1>4 DEF RemoveHookFails
<1>5. CASE PatchFails \/ Crash
  <2>1. pc' = "idle" /\ scope' = NoScope /\ UNCHANGED <<kcp, cache, life>>
      BY <1>5 DEF PatchFails, Crash, EndWithoutPatch
  <2>2. ~scope'.finish
      BY <2>1 DEF NoScope
  <2> QED BY <2>1, <2>2
<1>6. ASSUME NEW m \in Machine, DeleteControlPlaneMachineFails(m) PROVE FinalizerInv'
    BY <1>6 DEF DeleteControlPlaneMachineFails, Scope
<1> QED BY <1>1, <1>2, <1>3, <1>4, <1>5, <1>6 DEF ReconcileFailure

(* The environment keeps the finalizer invariant.                            *)
LEMMA EnvironmentStepFinalizer == TypeOK /\ FinalizerInv /\ EnvironmentStep => FinalizerInv'
<1> SUFFICES ASSUME TypeOK, FinalizerInv, EnvironmentStep PROVE FinalizerInv'
    OBVIOUS
<1>a. kcp \in Kcp /\ cache \in Kcp /\ life \in [Machine -> {"none", "active", "deleting"}]
    BY DEF TypeOK
<1> USE <1>a DEF FinalizerInv, MachinesNeedFinalizer, DeletingHasFinalizer, CacheSawFinalizer,
        CacheSawDeletion, WorkNeedsFinalizer, DeleteSawDeletion, FinishIsLast, Working,
        machineVars, Existing
<1>1. CASE SyncCache \/ WorkersGone \/ WorkersAppear
    BY <1>1 DEF SyncCache, WorkersGone, WorkersAppear
<1>2. CASE UserEdits
    BY <1>2 DEF UserEdits, Kcp
<1>3. CASE UserDeletesKcp
    BY <1>3 DEF UserDeletesKcp, Kcp, Phases
<1>4. ASSUME NEW m \in Machine, Terminate(m) PROVE FinalizerInv'
    BY <1>4 DEF Terminate
<1>5. ASSUME NEW m \in Machine, Join(m) \/ EtcdLeave(m) PROVE FinalizerInv'
    BY <1>5 DEF Join, EtcdLeave
<1>6. ASSUME NEW m \in Machine, BecomeAvailable(m) \/ LoseAvailable(m) PROVE FinalizerInv'
    BY <1>6 DEF BecomeAvailable, LoseAvailable, SetReady
<1>7. ASSUME NEW m \in Machine, MarkUnhealthy(m) \/ MarkHealthy(m) PROVE FinalizerInv'
    BY <1>7 DEF MarkUnhealthy, MarkHealthy, SetHealth
<1>8. ASSUME NEW m \in Machine, LoseInfra(m) \/ UserDeletesMachine(m) PROVE FinalizerInv'
    BY <1>8 DEF LoseInfra, UserDeletesMachine, Deleted
<1> QED BY <1>1, <1>2, <1>3, <1>4, <1>5, <1>6, <1>7, <1>8 DEF EnvironmentStep

(* A K0sControlPlane is gone only when no Machine of it is left, whatever    *)
(* crashes, API errors, stale reads and user actions happen.                 *)
THEOREM KcpOutlives == Spec => []KcpOutlivesMachines
<1>1. Init => FinalizerInv
    BY SMTT(30) DEF Init, FirstKcp, NoScope, Existing, FinalizerInv, MachinesNeedFinalizer,
           DeletingHasFinalizer, CacheSawFinalizer, CacheSawDeletion, WorkNeedsFinalizer,
           DeleteSawDeletion, FinishIsLast, Working
<1>2. TypeOK /\ FinalizerInv /\ [Next]_vars => FinalizerInv'
  <2> SUFFICES ASSUME TypeOK, FinalizerInv, [Next]_vars PROVE FinalizerInv'
      OBVIOUS
  <2>1. CASE UNCHANGED vars
      BY <2>1 DEF vars, machineVars, Existing, FinalizerInv, MachinesNeedFinalizer,
           DeletingHasFinalizer, CacheSawFinalizer, CacheSawDeletion, WorkNeedsFinalizer,
           DeleteSawDeletion, FinishIsLast, Working
  <2> QED BY <2>1, ReconcileStepFinalizer, ReconcileFailureFinalizer, EnvironmentStepFinalizer
          DEF Next
<1>3. FinalizerInv => KcpOutlivesMachines
    BY DEF FinalizerInv, MachinesNeedFinalizer, KcpOutlivesMachines
<1> QED BY <1>1, <1>2, <1>3, TypeCorrect, PTL DEF Spec

----------------------------------------------------------------------------
(* The surge bound.                                                          *)

(* While Reconcile works towards scaleUp, every Machine that exists is in    *)
(* its scope: nobody else creates one, and without lost infrastructure none  *)
(* leaves the scope.                                                         *)
SurgeInv ==
    /\ \A m \in Active : infra[m]
    /\ scope.noInfra = {}
    /\ pc # "drop"
    /\ pc \in Working => Existing \subseteq scope.active \cup scope.deleted

(* Steps of Reconcile keep the surge invariant.                              *)
LEMMA ReconcileStepSurge == TypeOK /\ SurgeInv /\ ReconcileStep => SurgeInv'
<1> SUFFICES ASSUME TypeOK, SurgeInv, ReconcileStep PROVE SurgeInv'
    OBVIOUS
<1>a. scope \in Scope /\ life \in [Machine -> {"none", "active", "deleting"}]
      /\ infra \in [Machine -> BOOLEAN]
    BY DEF TypeOK
<1> USE <1>a DEF SurgeInv, Working, Goto, Existing, Active
<1>1. CASE EnsureFinalizer \/ Prepare \/ CheckLatestMachine \/ NothingToScale \/ DeleteLoopDone
    BY <1>1 DEF EnsureFinalizer, Prepare, CheckLatestMachine, NothingToScale, DeleteLoopDone,
                machineVars
<1>2. CASE StartReconcile
    BY <1>2 DEF StartReconcile, machineVars, retrieveControlPlaneState, Deleting
<1>3. CASE SanitizeHealthyMachines \/ NodeLeft \/ RemoveHook
    BY <1>3 DEF SanitizeHealthyMachines, NodeLeft, RemoveHook, AfterLeave
<1>4. CASE NothingToRemediate \/ LeaveTimesOut \/ ManualDeletionsDone \/ ReconcileDelete
    BY <1>4 DEF NothingToRemediate, LeaveTimesOut, ManualDeletionsDone, ReconcileDelete,
                AfterLeave, machineVars, Scope
<1>5. CASE DropMachine
    BY <1>5 DEF DropMachine
<1>6. CASE PatchKcp
    BY <1>6 DEF PatchKcp, NoScope, machineVars
<1>7. ASSUME NEW m \in Machine,
             Remediate(m) \/ ScaleDown(m) \/ DeleteControlPlaneMachine(m)
      PROVE  SurgeInv'
  <2>1. Existing' = Existing /\ Active' \subseteq Active
      BY <1>7 DEF Remediate, ScaleDown, DeleteControlPlaneMachine, Deleted
  <2>2. /\ scope'.active = scope.active /\ scope'.deleted = scope.deleted
        /\ scope'.noInfra = scope.noInfra
      BY <1>7 DEF Remediate, ScaleDown, DeleteControlPlaneMachine, Scope
  <2>3. infra' = infra /\ pc' # "drop" /\ (pc' \in Working => pc \in Working)
      BY <1>7 DEF Remediate, ScaleDown, DeleteControlPlaneMachine
  <2> HIDE DEF Existing, Active, Working
  <2> QED BY <2>1, <2>2, <2>3
<1>8. ASSUME NEW m \in Machine, MarkToLeave(m) PROVE SurgeInv'
    BY <1>8 DEF MarkToLeave, Scope
<1>9. ASSUME NEW m \in Machine, ScaleUp(m) PROVE SurgeInv'
    BY <1>9 DEF ScaleUp, Scope
<1> QED BY <1>1, <1>2, <1>3, <1>4, <1>5, <1>6, <1>7, <1>8, <1>9 DEF ReconcileStep

(* Failures of Reconcile keep the surge invariant.                           *)
LEMMA ReconcileFailureSurge == TypeOK /\ SurgeInv /\ ReconcileFailure => SurgeInv'
<1> SUFFICES ASSUME TypeOK, SurgeInv, ReconcileFailure PROVE SurgeInv'
    OBVIOUS
<1>a. scope \in Scope
    BY DEF TypeOK
<1> USE <1>a DEF SurgeInv, Working, Goto, Existing, Active, machineVars
<1>1. CASE PrepareFails \/ SanitizeFails \/ RemediateFails \/ ScaleFails \/ RemoveHookFails
    BY <1>1 DEF PrepareFails, SanitizeFails, RemediateFails, ScaleFails, RemoveHookFails, ReturnError
<1>2. CASE LeaveFails \/ DropFails
    BY <1>2 DEF LeaveFails, DropFails, AfterLeave, Scope
<1>3. CASE PatchFails \/ Crash
  <2>1. life' = life /\ infra' = infra
      BY <1>3 DEF PatchFails, Crash, EndWithoutPatch
  <2>2. pc' = "idle" /\ scope'.noInfra = {}
    <3>1. pc' = "idle" /\ scope' = NoScope
        BY <1>3 DEF PatchFails, Crash, EndWithoutPatch
    <3> QED BY <3>1 DEF NoScope
  <2>3. Active' = Active
      BY <2>1
  <2> QED BY <2>1, <2>2, <2>3
<1>4. ASSUME NEW m \in Machine, DeleteControlPlaneMachineFails(m) PROVE SurgeInv'
    BY <1>4 DEF DeleteControlPlaneMachineFails, Scope
<1> QED BY <1>1, <1>2, <1>3, <1>4 DEF ReconcileFailure

(* The environment keeps the surge invariant, if it loses no infrastructure. *)
LEMMA EnvironmentStepSurge ==
    "loseInfra" \notin Disturbance /\ TypeOK /\ SurgeInv /\ EnvironmentStep => SurgeInv'
<1> SUFFICES ASSUME "loseInfra" \notin Disturbance, TypeOK, SurgeInv, EnvironmentStep
             PROVE  SurgeInv'
    OBVIOUS
<1>a. life \in [Machine -> {"none", "active", "deleting"}] /\ infra \in [Machine -> BOOLEAN]
    BY DEF TypeOK
<1> USE <1>a DEF SurgeInv, Working, Existing, Active, machineVars
<1>1. CASE SyncCache \/ WorkersGone \/ WorkersAppear \/ UserEdits \/ UserDeletesKcp
    BY <1>1 DEF SyncCache, WorkersGone, WorkersAppear, UserEdits, UserDeletesKcp
<1>2. ASSUME NEW m \in Machine, Terminate(m) PROVE SurgeInv'
    BY <1>2 DEF Terminate
<1>3. ASSUME NEW m \in Machine, Join(m) \/ EtcdLeave(m) PROVE SurgeInv'
    BY <1>3 DEF Join, EtcdLeave
<1>4. ASSUME NEW m \in Machine, BecomeAvailable(m) \/ LoseAvailable(m) PROVE SurgeInv'
    BY <1>4 DEF BecomeAvailable, LoseAvailable, SetReady
<1>5. ASSUME NEW m \in Machine, MarkUnhealthy(m) \/ MarkHealthy(m) PROVE SurgeInv'
    BY <1>5 DEF MarkUnhealthy, MarkHealthy, SetHealth
<1>6. ASSUME NEW m \in Machine, LoseInfra(m) \/ UserDeletesMachine(m) PROVE SurgeInv'
    BY <1>6 DEF LoseInfra, UserDeletesMachine, Deleted, Disturb
<1> QED BY <1>1, <1>2, <1>3, <1>4, <1>5, <1>6 DEF EnvironmentStep

(* From the surge invariant, a scale-up stays within the allowed Machines.   *)
LEMMA ScaleUpWithinSurge ==
    ASSUME TypeOK, SurgeInv, NEW m \in Machine, ScaleUp(m)
    PROVE  Cardinality(Existing') <= AllowedMachines
<1>1. Existing' \subseteq (scope.active \cup scope.deleted) \cup {m}
    BY DEF ScaleUp, SurgeInv, Working, Existing, TypeOK
<1>2. scope.active \subseteq Machine /\ scope.deleted \subseteq Machine
    BY DEF TypeOK, Scope
<1>3. IsFiniteSet(scope.active) /\ IsFiniteSet(scope.deleted)
    BY <1>2, FS_Subset
<1> DEFINE U == scope.active \cup scope.deleted
<1>4. /\ IsFiniteSet(U)
      /\ Cardinality(U) = Cardinality(scope.active) + Cardinality(scope.deleted)
                            - Cardinality(scope.active \cap scope.deleted)
    BY <1>3, FS_Union
<1>5. /\ Cardinality(scope.active) \in Nat /\ Cardinality(scope.deleted) \in Nat
      /\ Cardinality(U) \in Nat /\ Cardinality(scope.active \cap scope.deleted) \in Nat
    BY <1>3, <1>4, FS_CardinalityType, FS_Intersection
<1> HIDE DEF U
<1>6. /\ IsFiniteSet(U \cup {m})
      /\ Cardinality(U \cup {m}) = IF m \in U THEN Cardinality(U) ELSE Cardinality(U) + 1
    BY <1>4, FS_AddElement
<1>7. IsFiniteSet(Existing') /\ Cardinality(Existing') <= Cardinality(U \cup {m})
    BY <1>1, <1>6, FS_Subset DEF U
<1>8. Cardinality(Existing') \in Nat /\ Cardinality(U \cup {m}) \in Nat
    BY <1>6, <1>7, FS_CardinalityType
<1>9. scope.kcp.replicas \in Nat
    BY DEF TypeOK, Scope, Kcp
<1>10. Cardinality(scope.active) + Cardinality(scope.deleted) + 1 <= AllowedMachines
    BY <1>9, SMTT(30) DEF ScaleUp, isNeededScaleUp, calculateMaxSurge, AllowedMachines
<1>11. AllowedMachines \in Nat
    BY <1>9, SMTT(30) DEF AllowedMachines
<1> QED BY <1>4, <1>5, <1>6, <1>7, <1>8, <1>10, <1>11, SMTT(30)

(* As long as no infrastructure is lost, creating a Machine never takes the  *)
(* control plane beyond its surge.                                           *)
THEOREM SurgeBounded ==
    ASSUME "loseInfra" \notin Disturbance
    PROVE  (Spec => SurgeBound) /\ (RunningSpec => SurgeBound)
<1>1. Init => SurgeInv
    BY SMTT(30) DEF Init, NoScope, SurgeInv, Working, Active
<1>4. RunningInit => SurgeInv
  <2> SUFFICES ASSUME NEW n, NEW S, NEW R, Running(n, S, R) PROVE SurgeInv
      BY DEF RunningInit
  <2>1. \A m \in Active : m \in S
      BY DEF Running, Active
  <2>2. \A m \in Active : infra[m]
      BY <2>1 DEF Running, Active
  <2>3. pc = "idle" /\ scope.noInfra = {}
      BY DEF Running, NoScope
  <2> QED BY <2>2, <2>3 DEF SurgeInv, Working
<1>2. TypeOK /\ SurgeInv /\ [Next]_vars => SurgeInv'
  <2> SUFFICES ASSUME TypeOK, SurgeInv, [Next]_vars PROVE SurgeInv'
      OBVIOUS
  <2>1. CASE UNCHANGED vars
      BY <2>1 DEF vars, machineVars, SurgeInv, Working, Active, Existing
  <2> QED BY <2>1, ReconcileStepSurge, ReconcileFailureSurge, EnvironmentStepSurge DEF Next
<1>3. TypeOK /\ SurgeInv /\ [Next]_vars
        => [\A m \in Machine : ScaleUp(m) => Cardinality(Existing') <= AllowedMachines]_vars
    BY ScaleUpWithinSurge
<1> QED BY <1>1, <1>2, <1>3, <1>4, TypeCorrect, PTL DEF Spec, RunningSpec, SurgeBound

----------------------------------------------------------------------------
(* Scale-down keeps one Machine.                                             *)

(* Without health checks and manual deletions only Reconcile itself deletes  *)
(* Machines, and what it deletes before scaleDown it takes out of its scope. *)
KeepsOneInv ==
    /\ \A m \in Machine : health[m] # "failed"
    /\ scope.failed = {}
    /\ scope.outdated \subseteq scope.active
    /\ pc \in Working => scope.active \subseteq Active

(* Steps of Reconcile keep it.                                               *)
LEMMA ReconcileStepKeepsOne == TypeOK /\ KeepsOneInv /\ ReconcileStep => KeepsOneInv'
<1> SUFFICES ASSUME TypeOK, KeepsOneInv, ReconcileStep PROVE KeepsOneInv'
    OBVIOUS
<1>a. /\ scope \in Scope /\ life \in [Machine -> {"none", "active", "deleting"}]
      /\ health \in [Machine -> {"unknown", "healthy", "failed", "recovered"}]
    BY DEF TypeOK
<1> USE <1>a DEF KeepsOneInv, Working, Goto, Active
<1>1. CASE EnsureFinalizer \/ Prepare \/ CheckLatestMachine \/ NothingToScale \/ DeleteLoopDone
    BY <1>1 DEF EnsureFinalizer, Prepare, CheckLatestMachine, NothingToScale, DeleteLoopDone,
                machineVars
<1>2. CASE StartReconcile
    BY <1>2 DEF StartReconcile, machineVars, retrieveControlPlaneState
<1>3. CASE SanitizeHealthyMachines \/ NodeLeft \/ RemoveHook
    BY <1>3 DEF SanitizeHealthyMachines, NodeLeft, RemoveHook, AfterLeave
<1>4. CASE NothingToRemediate \/ ManualDeletionsDone
    BY <1>4, SMTT(30) DEF NothingToRemediate, ManualDeletionsDone, machineVars, Scope
<1>11. CASE LeaveTimesOut
    BY <1>11 DEF LeaveTimesOut, AfterLeave, machineVars, Scope
<1>12. CASE ReconcileDelete
    BY <1>12 DEF ReconcileDelete, machineVars, Scope
<1>5. CASE DropMachine
  <2>1. /\ scope'.active = scope.active \ {scope.cur}
        /\ scope'.outdated = scope.outdated \ {scope.cur} /\ scope'.failed = scope.failed
      BY <1>5 DEF DropMachine, removeMachineFromScope, Scope
  <2>2. Active' = Active \ {scope.cur}
      BY <1>5 DEF DropMachine, Deleted, Scope
  <2> HIDE DEF Active
  <2> QED BY <1>5, <2>1, <2>2 DEF DropMachine
<1>6. CASE PatchKcp
    BY <1>6 DEF PatchKcp, NoScope, machineVars
<1>7. ASSUME NEW m \in Machine, Remediate(m) PROVE KeepsOneInv'
    BY <1>7 DEF Remediate, CanRemediate
<1>8. ASSUME NEW m \in Machine, MarkToLeave(m) PROVE KeepsOneInv'
    BY <1>8 DEF MarkToLeave, Scope
<1>9. ASSUME NEW m \in Machine, ScaleUp(m) PROVE KeepsOneInv'
    BY <1>9 DEF ScaleUp, Scope
<1>10. ASSUME NEW m \in Machine, ScaleDown(m) PROVE KeepsOneInv'
    BY <1>10 DEF ScaleDown
<1>13. ASSUME NEW m \in Machine, DeleteControlPlaneMachine(m) PROVE KeepsOneInv'
    BY <1>13 DEF DeleteControlPlaneMachine, Scope
<1> QED BY <1>1, <1>2, <1>3, <1>4, <1>5, <1>6, <1>7, <1>8, <1>9, <1>10, <1>11, <1>12, <1>13
        DEF ReconcileStep

(* Failures of Reconcile keep it.                                            *)
LEMMA ReconcileFailureKeepsOne == TypeOK /\ KeepsOneInv /\ ReconcileFailure => KeepsOneInv'
<1> SUFFICES ASSUME TypeOK, KeepsOneInv, ReconcileFailure PROVE KeepsOneInv'
    OBVIOUS
<1>a. scope \in Scope
    BY DEF TypeOK
<1> USE <1>a DEF KeepsOneInv, Working, Goto, Active, machineVars
<1>1. CASE PrepareFails \/ SanitizeFails \/ RemediateFails \/ ScaleFails \/ RemoveHookFails
    BY <1>1 DEF PrepareFails, SanitizeFails, RemediateFails, ScaleFails, RemoveHookFails, ReturnError
<1>2. CASE LeaveFails
    BY <1>2 DEF LeaveFails, AfterLeave, Scope
<1>3. CASE DropFails
    BY <1>3 DEF DropFails, removeMachineFromScope, Scope
<1>4. CASE PatchFails \/ Crash
  <2>1. pc' = "idle" /\ health' = health /\ scope' = NoScope
      BY <1>4 DEF PatchFails, Crash, EndWithoutPatch
  <2>2. scope'.failed = {} /\ scope'.outdated = {}
      BY <2>1 DEF NoScope
  <2> QED BY <2>1, <2>2
<1>5. ASSUME NEW m \in Machine, DeleteControlPlaneMachineFails(m) PROVE KeepsOneInv'
    BY <1>5 DEF DeleteControlPlaneMachineFails, Scope
<1> QED BY <1>1, <1>2, <1>3, <1>4, <1>5 DEF ReconcileFailure

(* The environment keeps it, if nobody else deletes Machines or reports them *)
(* unhealthy.                                                                *)
LEMMA EnvironmentStepKeepsOne ==
    /\ Disturbance \cap {"deleteMachine", "unhealthy"} = {}
    /\ TypeOK /\ KeepsOneInv /\ EnvironmentStep
    => KeepsOneInv'
<1> SUFFICES ASSUME Disturbance \cap {"deleteMachine", "unhealthy"} = {}, TypeOK, KeepsOneInv,
                    EnvironmentStep
             PROVE  KeepsOneInv'
    OBVIOUS
<1>a. /\ life \in [Machine -> {"none", "active", "deleting"}]
      /\ health \in [Machine -> {"unknown", "healthy", "failed", "recovered"}]
    BY DEF TypeOK
<1> USE <1>a DEF KeepsOneInv, Working, Active, machineVars
<1>1. CASE SyncCache \/ WorkersGone \/ WorkersAppear \/ UserEdits \/ UserDeletesKcp
    BY <1>1 DEF SyncCache, WorkersGone, WorkersAppear, UserEdits, UserDeletesKcp
<1>2. ASSUME NEW m \in Machine, Terminate(m) PROVE KeepsOneInv'
    BY <1>2 DEF Terminate
<1>3. ASSUME NEW m \in Machine, Join(m) \/ EtcdLeave(m) PROVE KeepsOneInv'
    BY <1>3 DEF Join, EtcdLeave
<1>4. ASSUME NEW m \in Machine, BecomeAvailable(m) \/ LoseAvailable(m) PROVE KeepsOneInv'
    BY <1>4 DEF BecomeAvailable, LoseAvailable, SetReady
<1>5. ASSUME NEW m \in Machine, MarkUnhealthy(m) \/ MarkHealthy(m) PROVE KeepsOneInv'
    BY <1>5 DEF MarkUnhealthy, MarkHealthy, Disturb
<1>6. ASSUME NEW m \in Machine, LoseInfra(m) \/ UserDeletesMachine(m) PROVE KeepsOneInv'
    BY <1>6 DEF LoseInfra, UserDeletesMachine, Disturb
<1> QED BY <1>1, <1>2, <1>3, <1>4, <1>5, <1>6 DEF EnvironmentStep

(* A set of more than one element has another one.                           *)
LEMMA AnotherOne ==
    ASSUME NEW S, Cardinality(S) > 1, NEW m
    PROVE  \E n \in S : n # m
<1>1. SUFFICES ASSUME S \subseteq {m} PROVE FALSE
    BY <1>1
<1>2. IsFiniteSet({m}) /\ Cardinality({m}) = 1
    BY FS_Singleton
<1>3. IsFiniteSet(S) /\ Cardinality(S) <= Cardinality({m})
    BY <1>1, <1>2, FS_Subset
<1>4. Cardinality(S) \in Nat
    BY <1>3, FS_CardinalityType
<1> QED BY <1>2, <1>3, <1>4, SMTT(30)

(* From the invariant, a scale-down leaves an active Machine.                *)
LEMMA ScaleDownLeavesOne ==
    ASSUME TypeOK, KeepsOneInv, NEW m \in Machine, ScaleDown(m)
    PROVE  Active' # {}
<1>1. scope.active \subseteq Active
    BY DEF KeepsOneInv, ScaleDown, Working
<1>2. PICK n \in scope.active : n # m
    BY AnotherOne DEF ScaleDown, isNeededScaleDown
<1>3. n \in Active'
    BY <1>1, <1>2 DEF ScaleDown, Deleted, Active, TypeOK
<1> QED BY <1>3

(* As long as only the controller deletes Machines and none is reported      *)
(* unhealthy, scaling down never takes the last active Machine.  With health *)
(* checks it can, as the run KcpScaleDownToZero shows.                       *)
THEOREM ScaleDownSafe ==
    ASSUME Disturbance \cap {"deleteMachine", "unhealthy"} = {}
    PROVE  (Spec => ScaleDownKeepsOne) /\ (RunningSpec => ScaleDownKeepsOne)
<1>1. Init => KeepsOneInv
    BY SMTT(30) DEF Init, NoScope, KeepsOneInv, Working
<1>4. RunningInit => KeepsOneInv
    BY SMTT(30) DEF RunningInit, Running, NoScope, KeepsOneInv, Working
<1>2. TypeOK /\ KeepsOneInv /\ [Next]_vars => KeepsOneInv'
  <2> SUFFICES ASSUME TypeOK, KeepsOneInv, [Next]_vars PROVE KeepsOneInv'
      OBVIOUS
  <2>1. CASE UNCHANGED vars
      BY <2>1 DEF vars, machineVars, KeepsOneInv, Working, Active
  <2> QED BY <2>1, ReconcileStepKeepsOne, ReconcileFailureKeepsOne, EnvironmentStepKeepsOne
          DEF Next
<1>3. TypeOK /\ KeepsOneInv /\ [Next]_vars
        => [\A m \in Machine : ScaleDown(m) => Active' # {}]_vars
    BY ScaleDownLeavesOne
<1> QED BY <1>1, <1>2, <1>3, <1>4, TypeCorrect, PTL DEF Spec, RunningSpec, ScaleDownKeepsOne

----------------------------------------------------------------------------
(* Remediation of an initialized control plane.                              *)

(* Up to the remediation the Machines are as Reconcile listed them.          *)
ListedInv ==
    pc \in {"prepare", "sanitize", "remediate"} =>
        scope.active \subseteq Active /\ Deleting \subseteq scope.deleted

(* A step either leaves the remediation phase or leaves the list and the     *)
(* active Machines as they are.                                              *)
LEMMA ListedStep ==
    ASSUME "deleteMachine" \notin Disturbance, TypeOK, ListedInv, Next
    PROVE  ListedInv'
<1>a. scope \in Scope /\ life \in [Machine -> {"none", "active", "deleting"}]
    BY DEF TypeOK
<1> USE <1>a DEF ListedInv, Active, Deleting, Goto
<1>1. CASE ReconcileStep
  <2>1. CASE StartReconcile
      BY <2>1 DEF StartReconcile, retrieveControlPlaneState, machineVars
  <2>2. CASE EnsureFinalizer \/ Prepare
      BY <2>2 DEF EnsureFinalizer, Prepare, machineVars
  <2>3. CASE SanitizeHealthyMachines
      BY <2>3 DEF SanitizeHealthyMachines
  <2>4. CASE NothingToRemediate \/ NodeLeft \/ LeaveTimesOut \/ DropMachine \/ ManualDeletionsDone
      BY <2>4 DEF NothingToRemediate, NodeLeft, LeaveTimesOut, DropMachine, ManualDeletionsDone,
         AfterLeave
  <2>5. CASE CheckLatestMachine \/ NothingToScale \/ ReconcileDelete \/ RemoveHook \/ DeleteLoopDone
      BY <2>5 DEF CheckLatestMachine, NothingToScale, ReconcileDelete, RemoveHook, DeleteLoopDone
  <2>6. CASE PatchKcp
      BY <2>6 DEF PatchKcp
  <2>7. ASSUME NEW m \in Machine, Remediate(m) \/ MarkToLeave(m) \/ ScaleUp(m) \/ ScaleDown(m)
                                  \/ DeleteControlPlaneMachine(m)
        PROVE  ListedInv'
      BY <2>7 DEF Remediate, MarkToLeave, ScaleUp, ScaleDown, DeleteControlPlaneMachine
  <2> QED BY <1>1, <2>1, <2>2, <2>3, <2>4, <2>5, <2>6, <2>7 DEF ReconcileStep
<1>2. CASE ReconcileFailure
  <2>1. pc' \notin {"prepare", "sanitize", "remediate"}
      BY <1>2 DEF ReconcileFailure, PrepareFails, SanitizeFails, RemediateFails, LeaveFails, DropFails,
         ScaleFails, RemoveHookFails, PatchFails, Crash, DeleteControlPlaneMachineFails, ReturnError,
         EndWithoutPatch, AfterLeave
  <2> QED BY <2>1
<1>3. CASE EnvironmentStep
  <2>1. UNCHANGED <<pc, scope>>
      BY <1>3 DEF EnvironmentStep, SyncCache, WorkersGone, WorkersAppear, UserEdits,
         UserDeletesKcp, Terminate, Join, BecomeAvailable, LoseAvailable, SetReady, EtcdLeave,
         MarkUnhealthy, MarkHealthy, SetHealth, LoseInfra, UserDeletesMachine
  <2>2. life' = life \/ \E m \in Machine : Terminate(m)
    <3>1. \A m \in Machine : ~UserDeletesMachine(m)
        BY DEF UserDeletesMachine, Disturb
    <3> QED BY <1>3, <3>1 DEF EnvironmentStep, SyncCache, WorkersGone, WorkersAppear, UserEdits,
         UserDeletesKcp, Join, BecomeAvailable, LoseAvailable, SetReady, EtcdLeave,
         MarkUnhealthy, MarkHealthy, SetHealth, LoseInfra, machineVars
  <2>3. Active' = Active /\ Deleting' \subseteq Deleting
      BY <2>2, SMTT(30) DEF Terminate
  <2> QED BY <2>1, <2>3
<1> QED BY <1>1, <1>2, <1>3 DEF Next

(* As long as only the controller deletes Machines, remediation of an        *)
(* initialized control plane deletes a Machine only while no other one is    *)
(* being deleted and never the last one, also when machines lose their       *)
(* infrastructure, change health or the controller restarts in between       *)
(* (reconcileUnhealthyMachines).                                             *)
THEOREM RemediationSafe ==
    ASSUME "deleteMachine" \notin Disturbance
    PROVE  (Spec => RemediationIsSafe) /\ (RunningSpec => RemediationIsSafe)
<1>1. (Init => ListedInv) /\ (RunningInit => ListedInv)
    BY DEF Init, RunningInit, Running, ListedInv
<1>2. TypeOK /\ ListedInv /\ [Next]_vars => ListedInv'
  <2>1. CASE UNCHANGED vars
      BY <2>1 DEF vars, machineVars, ListedInv, Active, Deleting
  <2> QED BY <2>1, ListedStep
<1>3. TypeOK /\ ListedInv /\ [Next]_vars
        => [\A m \in Machine : Remediate(m) /\ scope.kcp.init => Deleting = {} /\ Active' # {}]_vars
  <2> SUFFICES ASSUME TypeOK, ListedInv, NEW m \in Machine, Remediate(m), scope.kcp.init
               PROVE  Deleting = {} /\ Active' # {}
      OBVIOUS
  <2>1. /\ scope.active \subseteq Active /\ Deleting \subseteq scope.deleted
        /\ scope.deleted = {} /\ Cardinality(scope.active) > 1
      BY DEF ListedInv, Remediate, CanRemediate
  <2>2. PICK n \in scope.active : n # m
      BY <2>1, AnotherOne, SMTT(30)
  <2>3. n \in Active'
      BY <2>1, <2>2 DEF Remediate, Deleted, Active, TypeOK
  <2> QED BY <2>1, <2>3
<1> QED BY <1>1, <1>2, <1>3, TypeCorrect, PTL DEF Spec, RunningSpec, RemediationIsSafe

----------------------------------------------------------------------------
(* etcd members of a running control plane.                                  *)

OnlyReconcileDeletes == Disturbance \cap {"deleteKcp", "deleteMachine", "loseInfra", "unhealthy"} = {}

(* The control plane is initialized, and so Reconcile takes it to be.        *)
InitializedInv ==
    /\ kcp.phase = "live" /\ kcp.init /\ cache.phase = "live" /\ cache.init
    /\ pc \in Working \cup {"idle", "patch"}
    /\ pc # "idle" => scope.kcp.init /\ ~scope.finish

(* A Machine is deleted only after it has joined, and loses its hook only    *)
(* after its member has left.                                                *)
MemberInv ==
    /\ \A m \in Machine : ready[m] = "new" <=> member[m] = "none"
    /\ \A m \in Machine : life[m] = "none" => ready[m] = "new"
    /\ \A m \in Machine : life[m] = "deleting" => ready[m] # "new"
    /\ \A m \in Machine : life[m] # "none" /\ ~hook[m] => life[m] = "deleting" /\ member[m] = "left"
    /\ ~lostMember

(* Only the newest Machine may not have joined yet, none when it comes to    *)
(* scaling.                                                                  *)
NewestInv ==
    /\ \A m, n \in Active : ready[m] = "new" /\ n # m => ready[n] # "new" /\ <<n, m>> \in older
    /\ pc = "scale" => \A m \in Active : ready[m] # "new"

(* What Reconcile listed.                                                    *)
SnapshotInv ==
    pc \in Working =>
        /\ scope.deleted \cap Active = {}
        /\ \A m, n \in Active : <<m, n>> \in older => <<m, n>> \in scope.older
        /\ \A m \in scope.available : life[m] = "active" => ready[m] # "new"

(* One member leaves at a time.  Reconcile has seen to the others when it    *)
(* comes to scaling.                                                         *)
LeavingInv ==
    /\ \A m, n \in Deleting \cap Voting : m = n
    /\ pc \in {"manual", "leave"} => scope.todo \subseteq scope.deleted
    /\ pc = "leave" => scope.cur \in scope.deleted
    /\ pc = "manual" /\ ~scope.failing => Deleting \cap Voting \subseteq scope.todo
    /\ pc = "leave" /\ ~scope.failing => Deleting \cap Voting \subseteq scope.todo \cup {scope.cur}
    /\ pc \in {"ready", "scale"} => Deleting \cap Voting = {}

RolloutInv ==
    SurgeInv /\ KeepsOneInv /\ InitializedInv /\ MemberInv /\ NewestInv /\ SnapshotInv /\ LeavingInv

(* The steps that remain when only Reconcile deletes Machines: those that    *)
(* leave the Machines alone, and the others.                                 *)
QuietStep ==
    \/ EnsureFinalizer \/ Prepare \/ NothingToRemediate \/ LeaveTimesOut \/ ManualDeletionsDone
    \/ NothingToScale \/ PatchKcp
    \/ PrepareFails \/ SanitizeFails \/ RemediateFails \/ LeaveFails \/ ScaleFails
    \/ PatchFails \/ Crash
    \/ SyncCache \/ WorkersGone \/ WorkersAppear \/ UserEdits

MachineStep(m) ==
    \/ MarkToLeave(m) \/ ScaleUp(m) \/ ScaleDown(m) \/ Terminate(m) \/ Join(m)
    \/ BecomeAvailable(m) \/ LoseAvailable(m) \/ EtcdLeave(m)

RolloutStep ==
    \/ QuietStep \/ StartReconcile \/ CheckLatestMachine \/ SanitizeHealthyMachines \/ NodeLeft
    \/ \E m \in Machine : MachineStep(m)

LEMMA OnlyRolloutSteps ==
    ASSUME OnlyReconcileDeletes, RolloutInv, Next
    PROVE  RolloutStep
<1>1. pc \notin {"delete", "deleteLoop", "deleteHook", "drop"} /\ scope.failed = {}
    BY DEF RolloutInv, InitializedInv, SurgeInv, KeepsOneInv, Working
<1>2. CASE ReconcileStep
  <2>1. ~ReconcileDelete /\ ~RemoveHook /\ ~DeleteLoopDone /\ ~DropMachine
      BY <1>1 DEF ReconcileDelete, RemoveHook, DeleteLoopDone, DropMachine
  <2>2. \A m \in Machine : ~DeleteControlPlaneMachine(m) /\ ~Remediate(m)
      BY <1>1 DEF DeleteControlPlaneMachine, Remediate, CanRemediate
  <2> QED BY <1>2, <2>1, <2>2 DEF ReconcileStep, RolloutStep, QuietStep, MachineStep
<1>3. CASE ReconcileFailure
  <2>1. ~RemoveHookFails /\ ~DropFails /\ \A m \in Machine : ~DeleteControlPlaneMachineFails(m)
      BY <1>1 DEF RemoveHookFails, DropFails, DeleteControlPlaneMachineFails
  <2> QED BY <1>3, <2>1 DEF ReconcileFailure, RolloutStep, QuietStep
<1>4. CASE EnvironmentStep
  <2>1. ~UserDeletesKcp
      BY DEF UserDeletesKcp, Disturb, OnlyReconcileDeletes
  <2>2. \A m \in Machine : ~MarkUnhealthy(m) /\ ~MarkHealthy(m) /\ ~LoseInfra(m) /\ ~UserDeletesMachine(m)
      BY DEF MarkUnhealthy, MarkHealthy, LoseInfra, UserDeletesMachine, Disturb, OnlyReconcileDeletes
  <2> QED BY <1>4, <2>1, <2>2 DEF EnvironmentStep, RolloutStep, QuietStep, MachineStep
<1> QED BY <1>2, <1>3, <1>4 DEF Next

(* A quiet step leaves the Machines alone and does not lead to scaling.      *)
LEMMA QuietEffect ==
    ASSUME QuietStep, SurgeInv
    PROVE  UNCHANGED machineVars /\ (pc' = "scale" => pc = "scale")
<1>1. UNCHANGED machineVars
  BY DEF QuietStep, EnsureFinalizer, Prepare, NothingToRemediate, LeaveTimesOut, ManualDeletionsDone,
     NothingToScale, PatchKcp, PrepareFails, SanitizeFails, RemediateFails, LeaveFails, ScaleFails,
     PatchFails, Crash, SyncCache, WorkersGone, WorkersAppear, UserEdits, ReturnError, EndWithoutPatch
<1>2. pc' = "scale" => pc = "scale"
  BY DEF QuietStep, EnsureFinalizer, Prepare, NothingToRemediate, LeaveTimesOut, ManualDeletionsDone,
     NothingToScale, PatchKcp, PrepareFails, SanitizeFails, RemediateFails, LeaveFails, ScaleFails,
     PatchFails, Crash, SyncCache, WorkersGone, WorkersAppear, UserEdits, ReturnError, EndWithoutPatch,
     Goto, AfterLeave
<1> QED BY <1>1, <1>2

(* The control plane stays initialized.                                      *)
LEMMA InitializedStep ==
    ASSUME TypeOK, RolloutInv, RolloutStep
    PROVE  InitializedInv'
<1>a. scope \in Scope /\ kcp \in Kcp /\ cache \in Kcp
    BY DEF TypeOK
<1>b. InitializedInv
    BY DEF RolloutInv
<1> USE <1>a, <1>b DEF InitializedInv, Working, Goto
<1>1. CASE EnsureFinalizer
    BY <1>1 DEF EnsureFinalizer, Kcp
<1>2. CASE StartReconcile
    BY <1>2 DEF StartReconcile, retrieveControlPlaneState
<1>3. CASE PatchKcp
  <2>1. PICK answers \in BOOLEAN : kcp' = IF kcp.phase = "gone" THEN kcp ELSE Patched(answers)
      BY <1>3 DEF PatchKcp
  <2>2. kcp'.phase = "live" /\ kcp'.init
      BY <1>3, <2>1 DEF Patched, Kcp, PatchKcp
  <2> QED BY <1>3, <2>2 DEF PatchKcp
<1>4. CASE NothingToRemediate \/ LeaveTimesOut \/ ManualDeletionsDone \/ LeaveFails
    BY <1>4, SMTT(30) DEF NothingToRemediate, LeaveTimesOut, ManualDeletionsDone, LeaveFails, AfterLeave, Scope,
       RolloutInv, SurgeInv
<1>5. CASE Prepare \/ CheckLatestMachine \/ NothingToScale \/ SanitizeHealthyMachines \/ NodeLeft
    BY <1>5 DEF Prepare, CheckLatestMachine, NothingToScale, SanitizeHealthyMachines, NodeLeft,
       AfterLeave, RolloutInv, SurgeInv
<1>6. CASE PrepareFails \/ SanitizeFails \/ RemediateFails \/ ScaleFails
    BY <1>6 DEF PrepareFails, SanitizeFails, RemediateFails, ScaleFails, ReturnError
<1>7. CASE PatchFails \/ Crash
    BY <1>7 DEF PatchFails, Crash, EndWithoutPatch
<1>8. CASE SyncCache \/ WorkersGone \/ WorkersAppear
    BY <1>8 DEF SyncCache, WorkersGone, WorkersAppear
<1>9. CASE UserEdits
  <2>1. PICK n \in Replica, r \in Revision : kcp' = [kcp EXCEPT !.replicas = n, !.rev = r]
      BY <1>9 DEF UserEdits
  <2>2. kcp'.phase = kcp.phase /\ kcp'.init = kcp.init
      BY <2>1 DEF Kcp
  <2> QED BY <1>9, <2>2 DEF UserEdits
<1>10. ASSUME NEW m \in Machine, MachineStep(m) PROVE InitializedInv'
  <2>1. CASE MarkToLeave(m)
      BY <2>1 DEF MarkToLeave, Scope
  <2>2. CASE ScaleUp(m)
    <3>1. scope'.kcp.init = scope.kcp.init /\ scope'.finish = scope.finish
        BY <2>2 DEF ScaleUp, Scope, Kcp
    <3> QED BY <2>2, <3>1 DEF ScaleUp
  <2>3. CASE ScaleDown(m)
      BY <2>3 DEF ScaleDown
  <2>4. CASE Terminate(m) \/ Join(m) \/ EtcdLeave(m) \/ BecomeAvailable(m) \/ LoseAvailable(m)
      BY <2>4 DEF Terminate, Join, EtcdLeave, BecomeAvailable, LoseAvailable, SetReady
  <2> QED BY <1>10, <2>1, <2>2, <2>3, <2>4 DEF MachineStep
<1> QED BY <1>1, <1>2, <1>3, <1>4, <1>5, <1>6, <1>7, <1>8, <1>9, <1>10
        DEF RolloutStep, QuietStep

(* Members join and leave as MemberInv says.                                 *)
LEMMA MemberStep ==
    ASSUME TypeOK, RolloutInv, RolloutStep
    PROVE  MemberInv'
<1>a. /\ life \in [Machine -> {"none", "active", "deleting"}]
      /\ hook \in [Machine -> BOOLEAN]
      /\ ready \in [Machine -> {"new", "joined", "available"}]
      /\ member \in [Machine -> {"none", "joined", "leaving", "left"}]
      /\ lostMember \in BOOLEAN
      /\ scope \in Scope
    BY DEF TypeOK
<1>b. SurgeInv /\ KeepsOneInv /\ InitializedInv /\ MemberInv /\ NewestInv /\ SnapshotInv /\ LeavingInv
    BY DEF RolloutInv
<1> USE <1>a, <1>b DEF MemberInv
<1>1. CASE QuietStep \/ StartReconcile \/ CheckLatestMachine \/ SanitizeHealthyMachines
  <2>1. UNCHANGED <<life, hook, ready, member, lostMember>>
      BY <1>1, QuietEffect DEF StartReconcile, CheckLatestMachine, SanitizeHealthyMachines, machineVars
  <2> QED BY <2>1
<1>2. CASE NodeLeft
  <2>1. scope.cur \in Machine /\ life[scope.cur] # "active" /\ checkMachineLeft(scope.cur)
      BY <1>2 DEF NodeLeft, LeavingInv, SnapshotInv, InitializedInv, Working, Active, Scope
  <2>2. life[scope.cur] = "deleting" => member[scope.cur] = "left"
      BY <2>1 DEF checkMachineLeft
  <2>3. /\ UNCHANGED <<life, ready, member, lostMember>>
        /\ hook' = [hook EXCEPT ![scope.cur] = FALSE]
      BY <1>2 DEF NodeLeft
  <2> QED BY <2>1, <2>2, <2>3, SMTT(30)
<1>3. ASSUME NEW m \in Machine, MachineStep(m) PROVE MemberInv'
  <2>1. CASE MarkToLeave(m)
      BY <2>1 DEF MarkToLeave
  <2>2. CASE ScaleUp(m)
      BY <2>2 DEF ScaleUp
  <2>3. CASE ScaleDown(m)
    <3>1. m \in Active /\ ready[m] # "new"
        BY <2>3 DEF ScaleDown, IsOldest, KeepsOneInv, NewestInv, Working
    <3>2. life' = [life EXCEPT ![m] = "deleting"] /\ UNCHANGED <<hook, ready, member, lostMember>>
        BY <2>3, <3>1 DEF ScaleDown, Deleted, Active
    <3> QED BY <3>1, <3>2 DEF Active
  <2>4. CASE Terminate(m)
    <3>1. member[m] = "left"
        BY <2>4 DEF Terminate
    <3>2. ~lostMember'
        BY <2>4, <3>1 DEF Terminate, Voting
    <3> QED BY <2>4, <3>2 DEF Terminate
  <2>5. CASE Join(m)
      BY <2>5 DEF Join
  <2>6. CASE BecomeAvailable(m) \/ LoseAvailable(m)
      BY <2>6, SMTT(30) DEF BecomeAvailable, LoseAvailable, SetReady
  <2>7. CASE EtcdLeave(m)
      BY <2>7 DEF EtcdLeave
  <2> QED BY <1>3, <2>1, <2>2, <2>3, <2>4, <2>5, <2>6, <2>7 DEF MachineStep
<1> QED BY <1>1, <1>2, <1>3 DEF RolloutStep

(* When Reconcile goes on to scaling, every active Machine has joined: one   *)
(* that has not would be the newest, and not ready.                          *)
LEMMA ReadyMeansJoined ==
    ASSUME TypeOK, RolloutInv, pc = "ready", isLatestMachineReady, NEW m \in Active
    PROVE  ready[m] # "new"
<1> SUFFICES ASSUME ready[m] = "new" PROVE FALSE
    OBVIOUS
<1>1. m \in scope.active /\ scope.active \subseteq Active
    BY DEF RolloutInv, SurgeInv, KeepsOneInv, SnapshotInv, Working, Active, Existing
<1>2. IsNewest(m, scope.active)
  <2>1. \A n \in scope.active \ {m} : <<n, m>> \in older
      BY <1>1 DEF RolloutInv, NewestInv
  <2>2. \A n \in scope.active \ {m} : <<n, m>> \in scope.older
      BY <1>1, <2>1 DEF RolloutInv, SnapshotInv, Working
  <2> QED BY <1>1, <2>2 DEF IsNewest
<1>3. m \notin scope.available
    BY DEF RolloutInv, SnapshotInv, Working, Active
<1> QED BY <1>1, <1>2, <1>3 DEF isLatestMachineReady

(* At most the newest Machine has not joined.                                *)
LEMMA NewestStep ==
    ASSUME TypeOK, RolloutInv, RolloutStep
    PROVE  NewestInv'
<1>a. /\ life \in [Machine -> {"none", "active", "deleting"}]
      /\ ready \in [Machine -> {"new", "joined", "available"}]
      /\ older \subseteq Machine \X Machine
    BY DEF TypeOK
<1>b. SurgeInv /\ MemberInv /\ NewestInv
    BY DEF RolloutInv
<1> USE <1>a, <1>b DEF NewestInv
<1>1. CASE QuietStep
  <2>1. UNCHANGED <<life, ready, older>> /\ (pc' = "scale" => pc = "scale")
      BY <1>1, QuietEffect DEF machineVars
  <2> QED BY <2>1, SMTT(30) DEF Active
<1>2. CASE CheckLatestMachine
  <2>1. UNCHANGED <<life, ready, older>>
      BY <1>2 DEF CheckLatestMachine, machineVars
  <2>2. pc' = "scale" => \A m \in Active : ready[m] # "new"
      BY <1>2, ReadyMeansJoined DEF CheckLatestMachine, Goto
  <2> QED BY <2>1, <2>2, SMTT(30) DEF Active
<1>3. CASE StartReconcile \/ SanitizeHealthyMachines \/ NodeLeft
  <2>1. UNCHANGED <<life, ready, older>> /\ pc' # "scale"
      BY <1>3 DEF StartReconcile, SanitizeHealthyMachines, NodeLeft, Goto, AfterLeave, machineVars
  <2> QED BY <2>1, SMTT(30) DEF Active
<1>4. ASSUME NEW m \in Machine, MachineStep(m) PROVE NewestInv'
  <2>1. CASE MarkToLeave(m) \/ EtcdLeave(m)
      BY <2>1, SMTT(30) DEF MarkToLeave, EtcdLeave, Active, Goto
  <2>2. CASE ScaleUp(m)
    <3>1. /\ Active' = Active \cup {m} /\ ready' = ready /\ pc' = "patch"
          /\ \A n \in Active : <<n, m>> \in older' /\ n # m
          /\ older \subseteq older'
        BY <2>2 DEF ScaleUp, Active, Existing, Goto
    <3>2. \A n \in Active : ready[n] # "new"
        BY <2>2 DEF ScaleUp
    <3> QED BY <3>1, <3>2
  <2>3. CASE ScaleDown(m)
    <3>1. Active' \subseteq Active /\ ready' = ready /\ older' = older /\ pc' = "patch"
        BY <2>3 DEF ScaleDown, Deleted, Active, Goto
    <3> QED BY <3>1
  <2>4. CASE Terminate(m)
    <3>1. Active' = Active /\ m \notin Active /\ pc' = pc
        BY <2>4 DEF Terminate, Active
    <3>2. \A n \in Active : ready'[n] = ready[n]
        BY <2>4, <3>1 DEF Terminate, Active
    <3>3. \A n, k \in Active : <<n, k>> \in older => <<n, k>> \in older'
        BY <2>4, <3>1 DEF Terminate
    <3> QED BY <3>1, <3>2, <3>3
  <2>5. CASE Join(m) \/ BecomeAvailable(m) \/ LoseAvailable(m)
    <3>1. Active' = Active /\ older' = older /\ pc' = pc
        BY <2>5 DEF Join, BecomeAvailable, LoseAvailable, SetReady, Active
    <3>2. \A n \in Machine : ready'[n] = "new" => ready[n] = "new"
        BY <2>5 DEF Join, BecomeAvailable, LoseAvailable, SetReady
    <3> QED BY <3>1, <3>2 DEF Active
  <2> QED BY <1>4, <2>1, <2>2, <2>3, <2>4, <2>5 DEF MachineStep
<1> QED BY <1>1, <1>2, <1>3, <1>4 DEF RolloutStep

(* A quiet step keeps what Reconcile has listed, and starts no work.         *)
LEMMA QuietScope ==
    ASSUME TypeOK, QuietStep
    PROVE  pc' \in Working => /\ pc \in Working
                              /\ scope'.deleted = scope.deleted
                              /\ scope'.older = scope.older
                              /\ scope'.available = scope.available
<1>a. scope \in Scope
    BY DEF TypeOK
<1> USE <1>a DEF Working, Goto
<1>1. CASE EnsureFinalizer \/ Prepare \/ NothingToScale
    BY <1>1 DEF EnsureFinalizer, Prepare, NothingToScale
<1>2. CASE PatchKcp \/ PatchFails \/ Crash
    BY <1>2 DEF PatchKcp, PatchFails, Crash, EndWithoutPatch
<1>3. CASE SyncCache \/ WorkersGone \/ WorkersAppear \/ UserEdits
    BY <1>3 DEF SyncCache, WorkersGone, WorkersAppear, UserEdits
<1>4. CASE NothingToRemediate \/ LeaveTimesOut \/ LeaveFails \/ ManualDeletionsDone
    BY <1>4, SMTT(30) DEF NothingToRemediate, LeaveTimesOut, LeaveFails, ManualDeletionsDone, Scope
<1>5. CASE PrepareFails \/ SanitizeFails \/ RemediateFails \/ ScaleFails
    BY <1>5 DEF PrepareFails, SanitizeFails, RemediateFails, ScaleFails, ReturnError
<1> QED BY <1>1, <1>2, <1>3, <1>4, <1>5 DEF QuietStep

(* What Reconcile has listed stays true of the Machines.                     *)
LEMMA SnapshotStep ==
    ASSUME TypeOK, RolloutInv, RolloutStep
    PROVE  SnapshotInv'
<1>a. /\ life \in [Machine -> {"none", "active", "deleting"}]
      /\ ready \in [Machine -> {"new", "joined", "available"}]
      /\ older \subseteq Machine \X Machine
      /\ scope \in Scope
    BY DEF TypeOK
<1>b. SurgeInv /\ SnapshotInv
    BY DEF RolloutInv
<1> USE <1>a, <1>b DEF SnapshotInv
<1>1. CASE QuietStep
  <2>1. UNCHANGED <<life, ready, older>>
      BY <1>1, QuietEffect DEF machineVars
  <2> QED BY <1>1, <2>1, QuietScope DEF Active
<1>2. CASE StartReconcile
  <2>1. UNCHANGED <<life, ready, older>>
      BY <1>2 DEF StartReconcile, machineVars
  <2>2. /\ scope'.deleted = Deleting /\ scope'.older = older
        /\ scope'.available = {m \in Active : ready[m] = "available"}
      BY <1>2 DEF StartReconcile, retrieveControlPlaneState
  <2> QED BY <2>1, <2>2 DEF Active, Deleting
<1>3. CASE CheckLatestMachine \/ SanitizeHealthyMachines \/ NodeLeft
  <2>1. UNCHANGED <<life, ready, older, scope>> /\ pc \in Working
      BY <1>3 DEF CheckLatestMachine, SanitizeHealthyMachines, NodeLeft, machineVars, Working
  <2> QED BY <2>1 DEF Active
<1>4. ASSUME NEW m \in Machine, MachineStep(m) PROVE SnapshotInv'
  <2>1. CASE MarkToLeave(m)
    <3>1. UNCHANGED <<life, ready, older>> /\ pc \in Working
        BY <2>1 DEF MarkToLeave, Working
    <3>2. /\ scope'.deleted = scope.deleted /\ scope'.older = scope.older
          /\ scope'.available = scope.available
        BY <2>1 DEF MarkToLeave, Scope
    <3> QED BY <3>1, <3>2 DEF Active
  <2>2. CASE ScaleUp(m) \/ ScaleDown(m)
      BY <2>2 DEF ScaleUp, ScaleDown, Goto, Working
  <2>3. CASE Terminate(m)
    <3>1. Active' = Active /\ m \notin Active /\ UNCHANGED <<pc, scope>> /\ older' \subseteq older
        BY <2>3 DEF Terminate, Active
    <3>2. \A n \in Active : ready'[n] = ready[n]
        BY <2>3, <3>1 DEF Terminate, Active
    <3>3. \A n \in Machine : life'[n] = "active" => n \in Active
        BY <3>1 DEF Active
    <3>4. scope.available \subseteq Machine
        BY DEF Scope
    <3> QED BY <3>1, <3>2, <3>3, <3>4 DEF Active
  <2>4. CASE Join(m) \/ BecomeAvailable(m) \/ LoseAvailable(m)
    <3>1. UNCHANGED <<life, older, pc, scope>>
        BY <2>4 DEF Join, BecomeAvailable, LoseAvailable, SetReady
    <3>2. \A n \in Machine : ready'[n] = "new" => ready[n] = "new"
        BY <2>4 DEF Join, BecomeAvailable, LoseAvailable, SetReady
    <3>3. scope.available \subseteq Machine
        BY DEF Scope
    <3> QED BY <3>1, <3>2, <3>3 DEF Active
  <2>5. CASE EtcdLeave(m)
      BY <2>5 DEF EtcdLeave, Active
  <2> QED BY <1>4, <2>1, <2>2, <2>3, <2>4, <2>5 DEF MachineStep
<1> QED BY <1>1, <1>2, <1>3, <1>4 DEF RolloutStep

(* The members that leave are those Reconcile still has to see to.           *)
LEMMA LeavingStep ==
    ASSUME TypeOK, RolloutInv, RolloutStep
    PROVE  LeavingInv'
<1>a. /\ life \in [Machine -> {"none", "active", "deleting"}]
      /\ ready \in [Machine -> {"new", "joined", "available"}]
      /\ member \in [Machine -> {"none", "joined", "leaving", "left"}]
      /\ scope \in Scope
    BY DEF TypeOK
<1>b. SurgeInv /\ KeepsOneInv /\ InitializedInv /\ MemberInv /\ NewestInv /\ SnapshotInv /\ LeavingInv
    BY DEF RolloutInv
<1> DEFINE L == Deleting \cap Voting
<1>c. pc \in Working => L \subseteq scope.deleted
    BY <1>b DEF SurgeInv, KeepsOneInv, Working, Existing, Deleting, Active
<1> USE <1>a DEF LeavingInv
<1>1. CASE QuietStep
  <2>1. L' = L
      BY <1>1, <1>b, QuietEffect DEF machineVars, Deleting, Voting
  <2> HIDE DEF L
  <2>2. L = Deleting \cap Voting
      BY DEF L
  <2>3. CASE NothingToRemediate
    <3>1. scope'.todo = scope.deleted /\ scope'.deleted = scope.deleted /\ pc = "remediate"
          /\ pc' = "manual"
        BY <2>3, <1>b, SMTT(30) DEF NothingToRemediate, ManualDeletions, SurgeInv, Scope, Goto
    <3>2. L' \subseteq scope'.todo
        BY <2>1, <3>1, <1>c DEF Working
    <3> QED BY <3>1, <3>2, <2>1, <1>b DEF L
  <2>4. CASE LeaveTimesOut \/ LeaveFails
    <3>1. scope'.todo = scope.todo /\ scope'.deleted = scope.deleted /\ scope'.failing
          /\ pc = "leave" /\ pc' = "manual"
        BY <2>4, <1>b, SMTT(30) DEF LeaveTimesOut, LeaveFails, SurgeInv, Scope, Goto, AfterLeave
    <3> QED BY <3>1, <2>1, <1>b DEF L
  <2>5. CASE ManualDeletionsDone
    <3>1. pc' = (IF scope.failing THEN "patch" ELSE "ready") /\ pc = "manual" /\ scope.todo = {}
        BY <2>5 DEF ManualDeletionsDone, Goto
    <3> QED BY <3>1, <2>1, <1>b DEF L
  <2>6. CASE EnsureFinalizer \/ SyncCache \/ WorkersGone \/ WorkersAppear \/ UserEdits
    <3>1. UNCHANGED <<pc, scope>>
        BY <2>6 DEF EnsureFinalizer, SyncCache, WorkersGone, WorkersAppear, UserEdits
    <3> QED BY <3>1, <2>1, <1>b DEF L
  <2>7. CASE Prepare \/ NothingToScale \/ PatchKcp \/ PatchFails \/ Crash
    <3>1. pc' \in {"sanitize", "patch", "idle"}
        BY <2>7 DEF Prepare, NothingToScale, PatchKcp, PatchFails, Crash, EndWithoutPatch, Goto
    <3> QED BY <3>1, <2>1, <1>b DEF L
  <2>8. CASE PrepareFails \/ SanitizeFails \/ RemediateFails \/ ScaleFails
    <3>1. pc' = "patch"
        BY <2>8 DEF PrepareFails, SanitizeFails, RemediateFails, ScaleFails, ReturnError, Goto
    <3> QED BY <3>1, <2>1, <1>b DEF L
  <2> QED BY <1>1, <2>3, <2>4, <2>5, <2>6, <2>7, <2>8 DEF QuietStep
<1>2. CASE StartReconcile \/ SanitizeHealthyMachines
  <2>1. L' = L
      BY <1>2 DEF StartReconcile, SanitizeHealthyMachines, machineVars, Deleting, Voting
  <2>2. pc' \in {"prepare", "delete", "remediate", "patch"}
      BY <1>2 DEF StartReconcile, SanitizeHealthyMachines, Goto
  <2> QED BY <2>1, <2>2, <1>b
<1>3. CASE CheckLatestMachine
  <2>1. L' = L /\ pc = "ready" /\ pc' \in {"scale", "patch"}
      BY <1>3 DEF CheckLatestMachine, machineVars, Deleting, Voting, Goto
  <2> QED BY <2>1, <1>b
<1>4. CASE NodeLeft
  <2>1. L' = L /\ scope' = scope /\ pc = "leave" /\ pc' = "manual"
      BY <1>4, <1>b DEF NodeLeft, Deleting, Voting, Goto, AfterLeave, SurgeInv
  <2>2. scope.cur \notin Voting
      BY <1>4, <1>b DEF NodeLeft, InitializedInv, checkMachineLeft, Voting
  <2> QED BY <2>1, <2>2, <1>b
<1>5. ASSUME NEW m \in Machine, MachineStep(m) PROVE LeavingInv'
  <2>1. CASE MarkToLeave(m)
    <3>1. Voting' = Voting /\ Deleting' = Deleting
        BY <2>1 DEF MarkToLeave, Voting, Deleting
    <3>2. /\ pc = "manual" /\ pc' = "leave" /\ m \in scope.todo
          /\ scope'.todo = scope.todo \ {m} /\ scope'.cur = m
          /\ scope'.deleted = scope.deleted /\ scope'.failing = scope.failing
        BY <2>1 DEF MarkToLeave, NextManualDeletion, IsOldest, Goto, Scope
    <3> QED BY <3>1, <3>2, <1>b
  <2>2. CASE ScaleUp(m)
    <3>1. Voting' = Voting /\ Deleting' = Deleting /\ pc' = "patch"
        BY <2>2 DEF ScaleUp, Voting, Deleting, Goto
    <3> QED BY <3>1, <1>b
  <2>3. CASE ScaleDown(m)
    <3>1. Voting' = Voting /\ Deleting' \subseteq Deleting \cup {m} /\ pc' = "patch" /\ L = {}
        BY <2>3, <1>b DEF ScaleDown, Deleted, Voting, Deleting, Goto
    <3> QED BY <3>1
  <2>4. CASE Terminate(m) \/ EtcdLeave(m)
    <3>1. L' \subseteq L /\ UNCHANGED <<pc, scope>>
        BY <2>4 DEF Terminate, EtcdLeave, Voting, Deleting
    <3> QED BY <3>1, <1>b
  <2>5. CASE Join(m)
    <3>1. m \notin Deleting
        BY <2>5, <1>b DEF Join, MemberInv, Deleting
    <3>2. L' = L /\ UNCHANGED <<pc, scope>>
        BY <2>5, <3>1 DEF Join, Voting, Deleting
    <3> QED BY <3>2, <1>b
  <2>6. CASE BecomeAvailable(m) \/ LoseAvailable(m)
    <3>1. L' = L /\ UNCHANGED <<pc, scope>>
        BY <2>6 DEF BecomeAvailable, LoseAvailable, SetReady, Voting, Deleting
    <3> QED BY <3>1, <1>b
  <2> QED BY <1>5, <2>1, <2>2, <2>3, <2>4, <2>5, <2>6 DEF MachineStep
<1> QED BY <1>1, <1>2, <1>3, <1>4, <1>5 DEF RolloutStep

(* A running control plane satisfies the invariant.                          *)
LEMMA RolloutStart == RunningInit => RolloutInv
<1> SUFFICES ASSUME RunningInit PROVE RolloutInv
    OBVIOUS
<1>1. PICK n, S, R : n \in Replica /\ S \in SUBSET Machine /\ R \in TotalOrders(S) /\ Running(n, S, R)
    BY DEF RunningInit
<1> USE <1>1 DEF Running
<1>2. SurgeInv /\ KeepsOneInv
    BY DEF NoScope, SurgeInv, KeepsOneInv, Working, Active
<1>3. InitializedInv
    BY DEF InitializedInv, FirstKcp
<1>4. MemberInv /\ NewestInv
    BY DEF MemberInv, NewestInv, Active
<1>5. SnapshotInv /\ LeavingInv
    BY DEF SnapshotInv, LeavingInv, Working, Deleting
<1> QED BY <1>2, <1>3, <1>4, <1>5 DEF RolloutInv

(* The invariant is inductive as long as only Reconcile deletes Machines.    *)
LEMMA RolloutInductive ==
    ASSUME OnlyReconcileDeletes, TypeOK, RolloutInv, [Next]_vars
    PROVE  RolloutInv'
<1>1. CASE Next
  <2>1. SurgeInv' /\ KeepsOneInv'
    <3>1. SurgeInv /\ KeepsOneInv
        BY DEF RolloutInv
    <3>2. "loseInfra" \notin Disturbance /\ Disturbance \cap {"deleteMachine", "unhealthy"} = {}
        BY DEF OnlyReconcileDeletes
    <3> QED BY <1>1, <3>1, <3>2, ReconcileStepSurge, ReconcileFailureSurge, EnvironmentStepSurge,
            ReconcileStepKeepsOne, ReconcileFailureKeepsOne, EnvironmentStepKeepsOne DEF Next
  <2>2. RolloutStep
      BY <1>1, OnlyRolloutSteps
  <2> QED BY <2>1, <2>2, InitializedStep, MemberStep, NewestStep, SnapshotStep, LeavingStep
          DEF RolloutInv
<1>2. CASE UNCHANGED vars
  <2> USE <1>2 DEF vars, machineVars, Working, Active, Existing, Deleting, Voting
  <2>1. SurgeInv' /\ KeepsOneInv' /\ InitializedInv'
      BY DEF RolloutInv, SurgeInv, KeepsOneInv, InitializedInv
  <2>2. MemberInv' /\ NewestInv'
      BY DEF RolloutInv, MemberInv, NewestInv
  <2>3. SnapshotInv'
      BY DEF RolloutInv, SnapshotInv
  <2>4. LeavingInv'
      BY DEF RolloutInv, LeavingInv
  <2> QED BY <2>1, <2>2, <2>3, <2>4 DEF RolloutInv
<1> QED BY <1>1, <1>2

LEMMA RolloutHolds ==
    ASSUME OnlyReconcileDeletes
    PROVE  RunningSpec => []RolloutInv
<1>1. TypeOK /\ RolloutInv /\ [Next]_vars => RolloutInv'
    BY RolloutInductive
<1> QED BY <1>1, RolloutStart, TypeCorrect, PTL DEF RunningSpec

(* In a running control plane whose Machines only Reconcile deletes, with    *)
(* edits, stale reads, client errors, crashes, machines that lose their      *)
(* readiness and workers that come and go, no Machine is ever terminated     *)
(* while its etcd member votes: the hook is taken off only when the member   *)
(* has left, and a Machine is deleted only after it has joined               *)
(* (deleteK0sNodeResources, isLatestMachineReady).                           *)
THEOREM NoLostMemberHolds ==
    ASSUME OnlyReconcileDeletes
    PROVE  RunningSpec => []NoLostMember
<1>1. RolloutInv => NoLostMember
    BY DEF RolloutInv, MemberInv, NoLostMember
<1> QED BY <1>1, RolloutHolds, PTL

(* Under the same conditions at most one Machine that is being deleted still *)
(* has a voting member: Reconcile scales down only after                     *)
(* reconcileManualDeletions has seen all of them leave.                      *)
THEOREM OneMemberLeavesHolds ==
    ASSUME OnlyReconcileDeletes
    PROVE  RunningSpec => []OneMemberLeavesAtATime
<1>1. RolloutInv => OneMemberLeavesAtATime
  <2> DEFINE L == Deleting \cap Voting
  <2> SUFFICES ASSUME \A m, n \in L : m = n PROVE Cardinality(L) <= 1
      BY DEF RolloutInv, LeavingInv, OneMemberLeavesAtATime
  <2> HIDE DEF L
  <2>1. CASE L = {}
      BY <2>1, FS_EmptySet, SMTT(30)
  <2>2. CASE L # {}
    <3>1. PICK m : L = {m}
        BY <2>2, SMTT(30)
    <3> QED BY <3>1, FS_Singleton, SMTT(30)
  <2> QED BY <2>1, <2>2
<1> QED BY <1>1, RolloutHolds, PTL
=============================================================================
