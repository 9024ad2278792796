-------------------------- MODULE K0sControlPlane --------------------------
(***************************************************************************)
(* The K0sControlPlane controller: it keeps a set of control plane         *)
(* Machines at spec.replicas and at the current template and version.  One *)
(* Reconcile is a sequence of API calls, so it is a process stepped by pc: *)
(* between two steps the user, the MachineHealthCheck, the CAPI Machine    *)
(* controller, the infrastructure and etcd may move, and the controller    *)
(* may crash.  What Reconcile decides on is the scope, a snapshot that it  *)
(* reads once at the start (retrieveControlPlaneState) and keeps.          *)
(*                                                                         *)
(* The K0sControlPlane itself is read from the informer cache, the         *)
(* Machines from the API server.  Changes Reconcile makes to the           *)
(* K0sControlPlane stay in memory until the deferred patch at its end.     *)
(***************************************************************************)
EXTENDS Naturals, FiniteSets

CONSTANTS
    Machine,          \* names of Machines (a name is free again once its Machine is gone)
    NoMachine,        \* no machine is being worked on
    Replica,          \* the values the user gives to spec.replicas
    Revision,         \* template, version and bootstrap config together, as the user sets them
    FirstRevision,    \* the revision the object is created with
    DeleteFirst,      \* spec.updateStrategy = RecreateDeleteFirst (else Recreate)
    WorkerEnabled,    \* controllers also run a kubelet, so CAPI sets the Available condition
    Disturbance,      \* the kinds of disturbance that may happen
    MaxDisturbances   \* how many of them in one behaviour

Disturbances == {"edit", "deleteKcp", "deleteMachine", "loseInfra", "unhealthy",
                 "unavailable", "addWorkers", "staleRead", "apiError", "crash"}

ASSUME NoMachineAssumption == NoMachine \notin Machine
ASSUME MachineAssumption == IsFiniteSet(Machine)
ASSUME ReplicaAssumption == Replica \subseteq Nat /\ Replica # {}
ASSUME RevisionAssumption == FirstRevision \in Revision
ASSUME FlagAssumption == DeleteFirst \in BOOLEAN /\ WorkerEnabled \in BOOLEAN
ASSUME DisturbanceAssumption == Disturbance \subseteq Disturbances /\ MaxDisturbances \in Nat

VARIABLES
    kcp,        \* the K0sControlPlane in the API server
    cache,      \* the K0sControlPlane in the informer cache
    life,       \* per Machine: "none", "active" or "deleting" (has a deletionTimestamp)
    hook,       \* per Machine: the pre-terminate hook annotation is set
    infra,      \* per Machine: its infrastructure machine exists
    rev,        \* per Machine: the revision it was created from
    health,     \* per Machine: the MachineHealthCheck conditions
    ready,      \* per Machine: "new", "joined" (has a node), "available"
    member,     \* per Machine: its etcd member: "none", "joined", "leaving", "left"
    older,      \* creation order: the pairs <<m, n>> with m created before n
    lostMember, \* some machine was terminated while its etcd member was still in the cluster
    workers,    \* worker Machines of the cluster exist
    pc,         \* where Reconcile is; "idle" between two reconciles
    scope,      \* what Reconcile holds in memory
    budget      \* disturbances still to come

machineVars == <<life, hook, infra, rev, health, ready, member, older, lostMember>>
vars == <<kcp, cache, machineVars, workers, pc, scope, budget>>

Phases == {"live", "deleting", "gone"}
Kcp == [phase : Phases, fin : BOOLEAN, replicas : Replica, rev : Revision,
        remediating : BOOLEAN, init : BOOLEAN]

Existing == {m \in Machine : life[m] # "none"}
Active   == {m \in Machine : life[m] = "active"}
Deleting == {m \in Machine : life[m] = "deleting"}
Voting   == {m \in Machine : member[m] \in {"joined", "leaving"}}

----------------------------------------------------------------------------
(* The scope: the snapshot of retrieveControlPlaneState plus Reconcile's     *)
(* local variables.                                                          *)

Scope == [kcp : Kcp, wasRemediating : BOOLEAN, finish : BOOLEAN,
          active : SUBSET Machine, deleted : SUBSET Machine, outdated : SUBSET Machine,
          noInfra : SUBSET Machine, failed : SUBSET Machine, recovered : SUBSET Machine,
          provisioning : BOOLEAN, available : SUBSET Machine,
          older : SUBSET (Machine \X Machine),
          todo : SUBSET Machine, cur : Machine \cup {NoMachine}, failing : BOOLEAN]

IsUpToDate(m, k) == infra[m] /\ rev[m] = k.rev

retrieveControlPlaneState(k) ==
    [kcp |-> k, wasRemediating |-> k.remediating, finish |-> FALSE,
     active |-> Active, deleted |-> Deleting,
     outdated |-> {m \in Active : ~IsUpToDate(m, k)},
     noInfra |-> {m \in Active : ~infra[m]},
     failed |-> {m \in Active : health[m] = "failed"},
     recovered |-> {m \in Active : health[m] = "recovered"},
     provisioning |-> \E m \in Active : health[m] \in {"healthy", "recovered"} /\ ready[m] = "new",
     available |-> {m \in Active : ready[m] = "available"},
     older |-> older, todo |-> {}, cur |-> NoMachine, failing |-> FALSE]

FirstKcp(n) == [phase |-> "live", fin |-> FALSE, replicas |-> n, rev |-> FirstRevision,
                remediating |-> FALSE, init |-> FALSE]

NoScope ==
    [kcp |-> FirstKcp(CHOOSE n \in Replica : TRUE), wasRemediating |-> FALSE, finish |-> FALSE,
     active |-> {}, deleted |-> {}, outdated |-> {}, noInfra |-> {}, failed |-> {},
     recovered |-> {}, provisioning |-> FALSE, available |-> {}, older |-> {},
     todo |-> {}, cur |-> NoMachine, failing |-> FALSE]

IsOldest(m, S) == m \in S /\ \A n \in S \ {m} : <<m, n>> \in scope.older
IsNewest(m, S) == m \in S /\ \A n \in S \ {m} : <<n, m>> \in scope.older

Init ==
    /\ \E n \in Replica : kcp = FirstKcp(n)
    /\ cache = kcp
    /\ life = [m \in Machine |-> "none"]
    /\ hook = [m \in Machine |-> FALSE]
    /\ infra = [m \in Machine |-> FALSE]
    /\ rev = [m \in Machine |-> FirstRevision]
    /\ health = [m \in Machine |-> "unknown"]
    /\ ready = [m \in Machine |-> "new"]
    /\ member = [m \in Machine |-> "none"]
    /\ older = {}
    /\ lostMember = FALSE
    /\ workers \in BOOLEAN
    /\ pc = "idle"
    /\ scope = NoScope
    /\ budget = MaxDisturbances

(* One more disturbance of the given kind.                                   *)
Disturb(kind) ==
    /\ kind \in Disturbance
    /\ budget > 0
    /\ budget' = budget - 1

----------------------------------------------------------------------------
(* Reconcile.                                                                *)

Goto(label) == pc' = label

(* A client error: Reconcile returns, and the deferred patch runs.           *)
ReturnError ==
    /\ Disturb("apiError")
    /\ Goto("patch")
    /\ UNCHANGED <<kcp, cache, machineVars, workers, scope>>

(* The first reconcile only adds the finalizer.                              *)
EnsureFinalizer ==
    /\ pc = "idle"
    /\ cache.phase = "live" /\ ~cache.fin
    /\ kcp.phase = "live" /\ kcp' = [kcp EXCEPT !.fin = TRUE]
    /\ UNCHANGED <<cache, machineVars, workers, pc, scope, budget>>

(* Reading a cache that lags behind the API server is a disturbance.         *)
StartReconcile ==
    /\ pc = "idle"
    /\ cache.phase = "deleting" \/ (cache.phase = "live" /\ cache.fin)
    /\ IF cache = kcp THEN UNCHANGED budget ELSE Disturb("staleRead")
    /\ scope' = retrieveControlPlaneState(cache)
    /\ Goto(IF cache.phase = "deleting" THEN "delete" ELSE "prepare")
    /\ UNCHANGED <<kcp, cache, machineVars, workers>>

(* Certificates, tunneling, k0s config and kubeconfig are ensured first; a   *)
(* deletion starts by listing the Machines again.                            *)
Prepare ==
    /\ pc = "prepare"
    /\ Goto("sanitize")
    /\ UNCHANGED <<kcp, cache, machineVars, workers, scope, budget>>

PrepareFails == pc \in {"prepare", "delete"} /\ ReturnError

(* reconcileUnhealthyMachines.  The status patches carry the resourceVersion *)
(* that was listed, so a machine that changed since then is a conflict.      *)
Unchanged(m) == life[m] = "active" /\ health[m] = "recovered"

SanitizeHealthyMachines ==
    /\ pc = "sanitize"
    /\ health' = [m \in Machine |-> IF m \in scope.recovered /\ Unchanged(m)
                                    THEN "healthy" ELSE health[m]]
    /\ Goto(IF \A m \in scope.recovered : Unchanged(m) THEN "remediate" ELSE "patch")
    /\ UNCHANGED <<kcp, cache, life, hook, infra, rev, ready, member, older, lostMember,
                   workers, scope, budget>>

SanitizeFails == pc = "sanitize" /\ scope.recovered # {} /\ ReturnError

(* Mutant: remediation does not wait for Machines that are being deleted.    *)
CanRemediate_IgnoresDeletions ==
    /\ ~scope.kcp.remediating
    /\ scope.failed # {}
    /\ scope.kcp.init => Cardinality(scope.active) > 1 /\ ~scope.provisioning

CanRemediate ==
    /\ ~scope.kcp.remediating
    /\ scope.failed # {}
    /\ scope.kcp.init => /\ Cardinality(scope.active) > 1
                         /\ ~scope.provisioning
                         /\ scope.deleted = {}

(* A Delete call sets the deletionTimestamp; deleting twice or deleting a    *)
(* machine that is gone changes nothing.                                     *)
Deleted(m) == [life EXCEPT ![m] = IF @ = "active" THEN "deleting" ELSE @]

(* Mutant: only machines without infrastructure are cleaned up.              *)
ManualDeletions_OnlyNoInfra == scope.noInfra

ManualDeletions == scope.deleted \cup scope.noInfra

Remediate(m) ==
    /\ pc = "remediate"
    /\ CanRemediate
    /\ IsOldest(m, scope.failed)
    /\ life' = Deleted(m)
    /\ scope' = [scope EXCEPT !.kcp.remediating = TRUE, !.todo = ManualDeletions]
    /\ Goto("manual")
    /\ UNCHANGED <<kcp, cache, hook, infra, rev, health, ready, member, older, lostMember,
                   workers, budget>>

NothingToRemediate ==
    /\ pc = "remediate"
    /\ ~CanRemediate
    /\ scope' = [scope EXCEPT !.todo = ManualDeletions]
    /\ Goto("manual")
    /\ UNCHANGED <<kcp, cache, machineVars, workers, budget>>

RemediateFails == pc = "remediate" /\ CanRemediate /\ ReturnError

(* reconcileManualDeletions: deleteK0sNodeResources for every machine that   *)
(* is being deleted, oldest first, then for every one that lost its          *)
(* infrastructure.  Errors are collected, the loop goes on.                  *)
NextManualDeletion(m) ==
    IF scope.todo \cap scope.deleted # {}
    THEN IsOldest(m, scope.todo \cap scope.deleted)
    ELSE m \in scope.todo

MarkToLeave(m) ==
    /\ pc = "manual"
    /\ NextManualDeletion(m)
    /\ member' = [member EXCEPT ![m] = IF scope.kcp.init /\ @ = "joined" THEN "leaving" ELSE @]
    /\ scope' = [scope EXCEPT !.cur = m, !.todo = @ \ {m}]
    /\ Goto("leave")
    /\ UNCHANGED <<kcp, cache, life, hook, infra, rev, health, ready, older, lostMember,
                   workers, budget>>

AfterLeave == IF scope.cur \in scope.noInfra THEN "drop" ELSE "manual"

(* Mutant: a member that was asked to leave counts as left.                  *)
checkMachineLeft_WhenMarked(m) == member[m] \in {"none", "left", "leaving"}

checkMachineLeft(m) == member[m] \in {"none", "left"}

NodeLeft ==
    /\ pc = "leave"
    /\ scope.kcp.init => checkMachineLeft(scope.cur)
    /\ hook' = [hook EXCEPT ![scope.cur] = FALSE]
    /\ Goto(AfterLeave)
    /\ UNCHANGED <<kcp, cache, life, infra, rev, health, ready, member, older, lostMember,
                   workers, scope, budget>>

(* The poll gives up after 60 seconds.                                       *)
LeaveTimesOut ==
    /\ pc = "leave"
    /\ scope.kcp.init /\ ~checkMachineLeft(scope.cur)
    /\ scope' = [scope EXCEPT !.failing = TRUE]
    /\ Goto(AfterLeave)
    /\ UNCHANGED <<kcp, cache, machineVars, workers, budget>>

LeaveFails ==
    /\ pc = "leave"
    /\ Disturb("apiError")
    /\ scope' = [scope EXCEPT !.failing = TRUE]
    /\ Goto(AfterLeave)
    /\ UNCHANGED <<kcp, cache, machineVars, workers>>

(* The machine without infrastructure is deleted, also when its node could   *)
(* not be cleaned up, and leaves the scope whatever the calls returned.      *)
removeMachineFromScope(m) ==
    [scope EXCEPT !.active = @ \ {m}, !.outdated = @ \ {m}, !.deleted = @ \ {m},
                  !.noInfra = @ \ {m}]

DropMachine ==
    /\ pc = "drop"
    /\ life' = Deleted(scope.cur)
    /\ scope' = removeMachineFromScope(scope.cur)
    /\ Goto("manual")
    /\ UNCHANGED <<kcp, cache, hook, infra, rev, health, ready, member, older, lostMember,
                   workers, budget>>

DropFails ==
    /\ pc = "drop"
    /\ Disturb("apiError")
    /\ scope' = [removeMachineFromScope(scope.cur) EXCEPT !.failing = TRUE]
    /\ Goto("manual")
    /\ UNCHANGED <<kcp, cache, machineVars, workers>>

ManualDeletionsDone ==
    /\ pc = "manual"
    /\ scope.todo = {}
    /\ scope' = [scope EXCEPT !.cur = NoMachine]
    /\ Goto(IF scope.failing THEN "patch" ELSE "ready")
    /\ UNCHANGED <<kcp, cache, machineVars, workers, budget>>

(* isLatestMachineReady: with workers the listed Available condition, else   *)
(* the ControlNode as it is now.                                             *)
isLatestMachineReady ==
    \A m \in scope.active :
        IsNewest(m, scope.active) =>
            IF WorkerEnabled THEN m \in scope.available ELSE ready[m] = "available"

CheckLatestMachine ==
    /\ pc = "ready"
    /\ Goto(IF isLatestMachineReady THEN "scale" ELSE "patch")
    /\ UNCHANGED <<kcp, cache, machineVars, workers, scope, budget>>

(* Mutants: RecreateDeleteFirst gets a surge too; nobody gets one.           *)
calculateMaxSurge_Always == scope.kcp.replicas + 1
calculateMaxSurge_Never == scope.kcp.replicas

calculateMaxSurge == IF DeleteFirst /\ scope.kcp.replicas >= 3
                     THEN scope.kcp.replicas
                     ELSE scope.kcp.replicas + 1

(* Mutant: machines that still terminate are not counted.                    *)
isNeededScaleUp_IgnoresDeleting ==
    /\ Cardinality(scope.active) + 1 <= calculateMaxSurge
    /\ Cardinality(scope.active \ scope.outdated) < scope.kcp.replicas

isNeededScaleUp ==
    /\ Cardinality(scope.active) + Cardinality(scope.deleted) + 1 <= calculateMaxSurge
    /\ Cardinality(scope.active \ scope.outdated) < scope.kcp.replicas

(* Mutant: a machine that still terminates counts as a remaining one.        *)
isNeededScaleDown_CountsDeleting ==
    /\ Cardinality(scope.active) + Cardinality(scope.deleted) > 1
    /\ Cardinality(scope.active) > scope.kcp.replicas \/ scope.outdated # {}

isNeededScaleDown ==
    /\ Cardinality(scope.active) > 1
    /\ Cardinality(scope.active) > scope.kcp.replicas \/ scope.outdated # {}

ScaleUp(m) ==
    /\ pc = "scale"
    /\ isNeededScaleUp
    /\ life[m] = "none"
    /\ life' = [life EXCEPT ![m] = "active"]
    /\ hook' = [hook EXCEPT ![m] = TRUE]
    /\ infra' = [infra EXCEPT ![m] = TRUE]
    /\ rev' = [rev EXCEPT ![m] = scope.kcp.rev]
    /\ older' = older \cup (Existing \X {m})
    /\ scope' = [scope EXCEPT !.kcp.remediating = FALSE]
    /\ Goto("patch")
    /\ UNCHANGED <<kcp, cache, health, ready, member, lostMember, workers, budget>>

ScaleDown(m) ==
    /\ pc = "scale"
    /\ ~isNeededScaleUp /\ isNeededScaleDown
    /\ IsOldest(m, IF scope.outdated # {} THEN scope.outdated ELSE scope.active)
    /\ life' = Deleted(m)
    /\ Goto("patch")
    /\ UNCHANGED <<kcp, cache, hook, infra, rev, health, ready, member, older, lostMember,
                   workers, scope, budget>>

NothingToScale ==
    /\ pc = "scale"
    /\ ~isNeededScaleUp /\ ~isNeededScaleDown
    /\ Goto("patch")
    /\ UNCHANGED <<kcp, cache, machineVars, workers, scope, budget>>

ScaleFails == pc = "scale" /\ (isNeededScaleUp \/ isNeededScaleDown) /\ ReturnError

(* reconcileDelete lists again.  A machine that already is being deleted is  *)
(* skipped, and with it the removal of its hook.                             *)
(* Mutant: machines that still terminate do not hold the finalizer.          *)
NoMachinesLeft_IgnoresDeleting == Active = {}

NoMachinesLeft == Existing = {}

(* Mutant: only the machines that were available when listed are deleted.    *)
MachinesToDelete_OnlyAvailable == IF workers THEN {} ELSE Active \cap scope.available

MachinesToDelete == IF workers THEN {} ELSE Active

ReconcileDelete ==
    /\ pc = "delete"
    /\ scope' = [scope EXCEPT !.finish = NoMachinesLeft, !.todo = MachinesToDelete]
    /\ Goto("deleteLoop")
    /\ UNCHANGED <<kcp, cache, machineVars, workers, budget>>

DeleteControlPlaneMachine(m) ==
    /\ pc = "deleteLoop"
    /\ m \in scope.todo
    /\ life' = Deleted(m)
    /\ scope' = [scope EXCEPT !.todo = @ \ {m}, !.cur = m]
    /\ Goto("deleteHook")
    /\ UNCHANGED <<kcp, cache, hook, infra, rev, health, ready, member, older, lostMember,
                   workers, budget>>

DeleteControlPlaneMachineFails(m) ==
    /\ pc = "deleteLoop"
    /\ m \in scope.todo
    /\ Disturb("apiError")
    /\ scope' = [scope EXCEPT !.todo = @ \ {m}]
    /\ UNCHANGED <<kcp, cache, machineVars, workers, pc>>

RemoveHook ==
    /\ pc = "deleteHook"
    /\ hook' = [hook EXCEPT ![scope.cur] = FALSE]
    /\ Goto("deleteLoop")
    /\ UNCHANGED <<kcp, cache, life, infra, rev, health, ready, member, older, lostMember,
                   workers, scope, budget>>

RemoveHookFails ==
    /\ pc = "deleteHook"
    /\ Disturb("apiError")
    /\ Goto("deleteLoop")
    /\ UNCHANGED <<kcp, cache, machineVars, workers, scope>>

DeleteLoopDone ==
    /\ pc = "deleteLoop"
    /\ scope.todo = {}
    /\ Goto("patch")
    /\ UNCHANGED <<kcp, cache, machineVars, workers, scope, budget>>

(* The deferred function: updateStatus latches "initialized" when the        *)
(* workload API answers the ping, then the patch sends what changed since    *)
(* the read.                                                                 *)
Reachable == \E m \in Machine : infra[m] /\ ready[m] # "new"

Patched(answers) ==
    [kcp EXCEPT
        !.remediating = IF scope.kcp.remediating # scope.wasRemediating
                        THEN scope.kcp.remediating ELSE @,
        !.init = @ \/ answers,
        !.fin = @ /\ ~scope.finish,
        !.phase = IF scope.finish /\ @ = "deleting" THEN "gone" ELSE @]

PatchKcp ==
    /\ pc = "patch"
    /\ \E answers \in BOOLEAN :
          /\ answers => Reachable /\ scope.kcp.phase = "live"
          /\ kcp' = IF kcp.phase = "gone" THEN kcp ELSE Patched(answers)
    /\ scope' = NoScope
    /\ Goto("idle")
    /\ UNCHANGED <<cache, machineVars, workers, budget>>

EndWithoutPatch(kind) ==
    /\ Disturb(kind)
    /\ scope' = NoScope
    /\ Goto("idle")
    /\ UNCHANGED <<kcp, cache, machineVars, workers>>

PatchFails == pc = "patch" /\ EndWithoutPatch("apiError")

(* The controller restarts: memory is lost, what was written stays.          *)
Crash == pc # "idle" /\ EndWithoutPatch("crash")

----------------------------------------------------------------------------
(* The environment: informer, CAPI Machine controller, infrastructure, k0s,  *)
(* MachineHealthCheck, user.  External to this repository.                   *)

SyncCache ==
    /\ cache # kcp
    /\ cache' = kcp
    /\ UNCHANGED <<kcp, machineVars, workers, pc, scope, budget>>

(* The Machine controller waits for the hook, then deletes infrastructure    *)
(* and Machine.                                                              *)
Terminate(m) ==
    /\ life[m] = "deleting" /\ ~hook[m]
    /\ life' = [life EXCEPT ![m] = "none"]
    /\ infra' = [infra EXCEPT ![m] = FALSE]
    /\ rev' = [rev EXCEPT ![m] = FirstRevision]
    /\ health' = [health EXCEPT ![m] = "unknown"]
    /\ ready' = [ready EXCEPT ![m] = "new"]
    /\ member' = [member EXCEPT ![m] = "none"]
    /\ older' = {p \in older : p[1] # m /\ p[2] # m}
    /\ lostMember' = (lostMember \/ m \in Voting)
    /\ UNCHANGED <<kcp, cache, hook, workers, pc, scope, budget>>

(* k0s comes up on the machine: it joins etcd and registers its node.        *)
Join(m) ==
    /\ life[m] # "none" /\ infra[m] /\ ready[m] = "new"
    /\ ready' = [ready EXCEPT ![m] = "joined"]
    /\ member' = [member EXCEPT ![m] = "joined"]
    /\ UNCHANGED <<kcp, cache, life, hook, infra, rev, health, older, lostMember, workers,
                   pc, scope, budget>>

SetReady(m, from, to) ==
    /\ life[m] = "active" /\ infra[m] /\ ready[m] = from
    /\ ready' = [ready EXCEPT ![m] = to]
    /\ UNCHANGED <<kcp, cache, life, hook, infra, rev, health, member, older, lostMember,
                   workers, pc, scope>>

BecomeAvailable(m) == SetReady(m, "joined", "available") /\ UNCHANGED budget

LoseAvailable(m) == SetReady(m, "available", "joined") /\ Disturb("unavailable")

EtcdLeave(m) ==
    /\ member[m] = "leaving"
    /\ member' = [member EXCEPT ![m] = "left"]
    /\ UNCHANGED <<kcp, cache, life, hook, infra, rev, health, ready, older, lostMember,
                   workers, pc, scope, budget>>

SetHealth(m, h) ==
    /\ life[m] = "active" /\ health[m] # h
    /\ health' = [health EXCEPT ![m] = h]
    /\ UNCHANGED <<kcp, cache, life, hook, infra, rev, ready, member, older, lostMember,
                   workers, pc, scope>>

(* HealthCheckSucceeded and OwnerRemediated both become False.               *)
MarkUnhealthy(m) == SetHealth(m, "failed") /\ Disturb("unhealthy")

(* HealthCheckSucceeded becomes True; OwnerRemediated stays False if it was. *)
MarkHealthy(m) ==
    /\ "unhealthy" \in Disturbance
    /\ \/ health[m] = "unknown" /\ SetHealth(m, "healthy")
       \/ health[m] = "failed" /\ SetHealth(m, "recovered")
    /\ UNCHANGED budget

LoseInfra(m) ==
    /\ life[m] = "active" /\ infra[m]
    /\ Disturb("loseInfra")
    /\ infra' = [infra EXCEPT ![m] = FALSE]
    /\ UNCHANGED <<kcp, cache, life, hook, rev, health, ready, member, older, lostMember,
                   workers, pc, scope>>

UserDeletesMachine(m) ==
    /\ life[m] = "active"
    /\ Disturb("deleteMachine")
    /\ life' = Deleted(m)
    /\ UNCHANGED <<kcp, cache, hook, infra, rev, health, ready, member, older, lostMember,
                   workers, pc, scope>>

UserEdits ==
    /\ kcp.phase = "live"
    /\ Disturb("edit")
    /\ \E n \in Replica, r \in Revision : kcp' = [kcp EXCEPT !.replicas = n, !.rev = r]
    /\ kcp' # kcp
    /\ UNCHANGED <<cache, machineVars, workers, pc, scope>>

UserDeletesKcp ==
    /\ kcp.phase = "live"
    /\ Disturb("deleteKcp")
    /\ kcp' = [kcp EXCEPT !.phase = IF kcp.fin THEN "deleting" ELSE "gone"]
    /\ UNCHANGED <<cache, machineVars, workers, pc, scope>>

WorkersAppear ==
    /\ ~workers
    /\ Disturb("addWorkers")
    /\ workers' = TRUE
    /\ UNCHANGED <<kcp, cache, machineVars, pc, scope>>

WorkersGone ==
    /\ workers
    /\ workers' = FALSE
    /\ UNCHANGED <<kcp, cache, machineVars, pc, scope, budget>>

----------------------------------------------------------------------------
ReconcileStep ==
    \/ EnsureFinalizer \/ StartReconcile \/ Prepare \/ SanitizeHealthyMachines
    \/ NothingToRemediate \/ NodeLeft \/ LeaveTimesOut \/ DropMachine \/ ManualDeletionsDone
    \/ CheckLatestMachine \/ NothingToScale
    \/ ReconcileDelete \/ RemoveHook \/ DeleteLoopDone \/ PatchKcp
    \/ \E m \in Machine : \/ Remediate(m) \/ MarkToLeave(m) \/ ScaleUp(m) \/ ScaleDown(m)
                          \/ DeleteControlPlaneMachine(m)

ReconcileFailure ==
    \/ PrepareFails \/ SanitizeFails \/ RemediateFails \/ LeaveFails \/ DropFails \/ ScaleFails
    \/ RemoveHookFails \/ PatchFails \/ Crash
    \/ \E m \in Machine : DeleteControlPlaneMachineFails(m)

EnvironmentStep ==
    \/ SyncCache \/ WorkersGone \/ WorkersAppear \/ UserEdits \/ UserDeletesKcp
    \/ \E m \in Machine : \/ Terminate(m) \/ Join(m) \/ BecomeAvailable(m) \/ LoseAvailable(m)
                          \/ EtcdLeave(m) \/ MarkUnhealthy(m) \/ MarkHealthy(m)
                          \/ LoseInfra(m) \/ UserDeletesMachine(m)

Next == ReconcileStep \/ ReconcileFailure \/ EnvironmentStep

Spec == Init /\ [][Next]_vars

(* Reconcile is always requeued (10 s, 20 s, 1 min or the error backoff),    *)
(* the informer delivers, and the machine, etcd and worker controllers work. *)
Fairness ==
    /\ WF_vars(ReconcileStep)
    /\ WF_vars(SyncCache) /\ WF_vars(WorkersGone)
    /\ \A m \in Machine : /\ WF_vars(Terminate(m)) /\ WF_vars(Join(m))
                          /\ WF_vars(BecomeAvailable(m)) /\ WF_vars(EtcdLeave(m))

FairSpec == Spec /\ Fairness

TypeOK ==
    /\ kcp \in Kcp /\ cache \in Kcp
    /\ life \in [Machine -> {"none", "active", "deleting"}]
    /\ hook \in [Machine -> BOOLEAN]
    /\ infra \in [Machine -> BOOLEAN]
    /\ rev \in [Machine -> Revision]
    /\ health \in [Machine -> {"unknown", "healthy", "failed", "recovered"}]
    /\ ready \in [Machine -> {"new", "joined", "available"}]
    /\ member \in [Machine -> {"none", "joined", "leaving", "left"}]
    /\ older \subseteq Machine \X Machine
    /\ lostMember \in BOOLEAN /\ workers \in BOOLEAN
    /\ pc \in {"idle", "prepare", "sanitize", "remediate", "manual", "leave", "drop", "ready",
               "scale", "delete", "deleteLoop", "deleteHook", "patch"}
    /\ scope \in Scope
    /\ budget \in 0..MaxDisturbances

----------------------------------------------------------------------------
(* Properties.                                                               *)

(* What spec.updateStrategy allows: one Machine on top of spec.replicas,     *)
(* none with RecreateDeleteFirst and three replicas or more.                 *)
AllowedMachines ==
    scope.kcp.replicas + (IF DeleteFirst /\ scope.kcp.replicas >= 3 THEN 0 ELSE 1)

(* Creating a Machine never takes the control plane beyond the surge its     *)
(* update strategy allows, terminating Machines included, whatever happened  *)
(* since the Machines were listed (isNeededScaleUp, scaleUp).                *)
SurgeBound ==
    [][\A m \in Machine : ScaleUp(m) => Cardinality(Existing') <= AllowedMachines]_vars

(* scaleDown never deletes the last Machine that is not being deleted        *)
(* (isNeededScaleDown).                                                      *)
ScaleDownKeepsOne ==
    [][\A m \in Machine : ScaleDown(m) => Active' # {}]_vars

(* The controller takes etcd members out one at a time: as long as a Machine *)
(* that is being deleted still votes, it deletes no other one                *)
(* (reconcileManualDeletions ahead of scaleDown).                            *)
OneMemberLeavesAtATime == Cardinality(Deleting \cap Voting) <= 1

(* No Machine is terminated while its etcd member still votes: the hook      *)
(* stays on until the member has left (deleteK0sNodeResources).              *)
NoLostMember == ~lostMember

(* A K0sControlPlane object disappears only when no control plane Machine is *)
(* left (EnsureFinalizer, reconcileDelete).                                  *)
KcpOutlivesMachines == kcp.phase = "gone" => Existing = {}

(* In an initialized control plane remediation deletes a Machine only while  *)
(* no other one is being deleted, and never the last one                     *)
(* (reconcileUnhealthyMachines).                                             *)
RemediationIsSafe ==
    [][\A m \in Machine : Remediate(m) /\ scope.kcp.init => Deleting = {} /\ Active' # {}]_vars

(* Once disturbances stop the control plane reaches spec.replicas Machines,  *)
(* all of them up to date, none being deleted, and stays there               *)
(* (isDesiredStateReached).                                                  *)
DesiredState ==
    /\ Deleting = {}
    /\ Cardinality(Active) = kcp.replicas
    /\ \A m \in Active : IsUpToDate(m, kcp)

Converges == <>[]DesiredState

(* A deleted K0sControlPlane goes away (reconcileDelete).                    *)
DeletionCompletes == kcp.phase = "deleting" ~> kcp.phase = "gone"

(* The only thing that can keep a deleted K0sControlPlane from going away is *)
(* a Machine that is being deleted with its pre-terminate hook still on:     *)
(* reconcileDelete skips it.                                                 *)
HookLeftBehind == \E m \in Deleting : hook[m] /\ scope.cur # m

DeletionCompletesOrHookLeft ==
    kcp.phase = "deleting" ~> (kcp.phase = "gone" \/ HookLeftBehind)
=============================================================================
