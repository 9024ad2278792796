# k0smotron in TLA+

k0smotron runs and manages k0s control planes through Cluster API (CAPI). Its controllers are
level-triggered loops over Kubernetes objects: each `Reconcile` reads objects, some from an informer
cache and some from the API server, decides on that snapshot, and makes several API calls, any of
which may fail and between any two of which the process may stop. Little but the API objects survives
a restart. These modules model that: one `Reconcile` is a sequence of steps with its snapshot as a
variable, other controllers, users and machines move in between, and a fixed number of *disturbances*
(stale reads, failed calls, crashes, failed machines, edits) may happen anywhere.

## The system and its parts

| part | state it owns | source | module |
|---|---|---|---|
| K0sControlPlane controller, machines | Machines, pre-terminate hooks, etcd leave flags, remediation annotation, finalizer | `k0s_controlplane_controller.go`, `scale.go`, `remediation.go`, `helper.go` | `K0sControlPlane` |
| K0sControlPlane controller, in-place updates, and the extension | update annotations and pending hook on a Machine, autopilot plan | `inplace.go`, `internal/autopilot`, `extensions/inplaceversionupdate` | `InPlace` |
| availability of all three kinds of control plane | Available condition, initialized latch, failure count and anchor | `status.go` | `Availability` implements `DebouncedHealth` |
| K0smotronControlPlane controller and k0smotron Cluster controller | the hosted control plane: Cluster, Service, ConfigMaps, certificates, StatefulSet, address, external owner | `k0smotron_controlplane_controller.go`, `k0smotroncluster_*.go` | `Hosted` |
| hosted etcd | etcd StatefulSet, its volumes, its member list | `k0smotroncluster_etcd.go` and the scripts it renders | `HostedEtcd` |
| JoinTokenRequest controller | token secret, token in the hosted cluster | `jointokenrequest_controller.go` | `JoinTokens` |
| bootstrap controllers, ProviderID controller | bootstrap data secret, join tokens, `spec.providerID` of Nodes | `controlplane_bootstrap_controller.go`, `worker_bootstrap_controller.go`, `providerid_controller.go` | `Bootstrap` |
| RemoteMachine controller, pool, SSH provisioner | RemoteMachines, reservations of PooledRemoteMachines, k0s on the machines | `remote_machine_controller.go`, `ssh_provisioner.go` | `RemoteMachine` implements `MachineLease` |

How they interact: CAPI creates and deletes worker Machines, the K0sControlPlane controller those of a
control plane. For each Machine there is a bootstrap config, which the bootstrap controllers turn into a
secret, and an infrastructure machine, such as a RemoteMachine, that its controller provisions with that
secret. A machine that comes up joins the etcd of its control plane. The CAPI Machine controller
terminates a deleted Machine once its pre-terminate hook is off. A K0smotronControlPlane has no Machines:
its controller copies the spec into a k0smotron Cluster, whose controller runs the control plane in pods.
Each module models the parts it does not own by what they may do.

Every module has a named mutant next to the definition it breaks (`<Definition>_<What>`): the definition
as a plausible mistake would have it. `PROJECT.json` says which property each one violates; the
specifications do not use them. It also lists the source lines each definition stands for and the
hazards of the code, each at its line with the properties that watch it.

## The modules

### `K0sControlPlane`: the machines of a control plane

| variable | code |
|---|---|
| `kcp`, `cache` | the K0sControlPlane in the API server, and as the informer cache has it: `replicas`, `rev`, phase, finalizer, the remediation annotation, `status.initialization` |
| `life`, `rev`, `hook`, `infra` | a Machine: absent, active or being deleted; the revision it was built from; its pre-terminate hook; whether its infrastructure machine exists |
| `member` | its etcd member: none, joined, asked to leave, left |
| `ready` | `"available"`: the Available condition (with a kubelet) or a ControlNode older than a minute (without) |
| `health` | what the MachineHealthCheck controller says of it |
| `older` | the order of creation, a relation |
| `pc`, `scope` | where `Reconcile` is, and the `controlplane` struct it works on |
| `lostMember`, `workers`, `budget` | a Machine went away as a voting member (history); worker Machines exist; disturbances left |

A `Reconcile` runs `EnsureFinalizer` or `StartReconcile` → `Prepare` (certificates, config, tunnel,
kubeconfig: idempotent, may fail) → `SanitizeHealthyMachines` → `Remediate` or `NothingToRemediate` →
`MarkToLeave`, `NodeLeft`, `LeaveTimesOut` and `DropMachine` for each manual deletion →
`CheckLatestMachine` → `ScaleUp`, `ScaleDown` or `NothingToScale` → `PatchKcp`. A deletion runs
`ReconcileDelete` → `DeleteControlPlaneMachine` and `RemoveHook` for each Machine → `PatchKcp`. Every
step with API calls has a form that fails, and `Crash` may come between any two. The environment:
`Terminate`, `Join`, `BecomeAvailable`, `LoseAvailable`, `EtcdLeave`, `MarkUnhealthy`, `MarkHealthy`,
`LoseInfra`, users editing and deleting, workers coming and going.

Abstracted: a revision stands for version, template and bootstrap config together; failure domains and
the UpToDate condition are left out; paused and ownerless reconciles do nothing; a name is free again
when its Machine is gone (the code draws random names, so a name in use is never drawn). The second
listing after scaling feeds status and requeue only. The in-place strategy is `InPlace`.
`MCK0sControlPlane` adds a control plane that starts initialized and at full size (`RunningSpec`).

### `RemoteMachine` and `MachineLease`: machines from a pool

| variable | code |
|---|---|
| `rm`, `rmCache` | the RemoteMachines in the API server and in the cache: phase, finalizer, address, ProviderID, the BootstrapExecSucceeded condition, `status.initialization.provisioned` |
| `pool`, `poolCache`, `behind` | which RemoteMachine each PooledRemoteMachine is reserved for, the same in the cache, and the ones whose cached resourceVersion is old |
| `host` | whose k0s runs on the machine |
| `pc`, `mem` | per RemoteMachine, where its `Reconcile` is and what it holds |

`StartReconcile` → `FindReserved`, or `PickFree` then `Reserve` or `Conflict`, or `NoFreeMachine` →
`Provision` → the deferred patch. A deletion: `Cleanup` → `ReturnMachineToPool`, `ReturnConflict` or
`NothingToReturn` → the deferred patch. The patch is the three calls that CAPI's patch helper makes, in
its order: conditions, metadata and spec, rest of the status; a failed call does not stop the next, and
the controller only logs the error. `ProvisionFails` may leave k0s on the machine; `Hang` is a command
that does not return. The pool cache is always a snapshot of some earlier pool. All RemoteMachines are of
one pool and use SSH; one without a pool goes through the same steps without the reservation.

`MachineLease` is what the pool promises its users, without lists, caches and resourceVersions: a machine is
let to one client at a time, to one that asked while it lived and has no other; the client keeps it until it
is being deleted, and does not go away with a machine or while it may still get one. `RemoteMachine`
implements it (`Leased`, with `lease <- pool`, `life <- Lives`, the phases, and `asking <- Asking`, those whose
`Reconcile` is about to reserve) as long as no cache is read before it has caught up.

### `Availability` and `DebouncedHealth`: is the control plane up

Each `Reconcile` ends by reading the kube-system namespace of the workload cluster. `kcp` is the object
with the Available condition, the age of its transition and the latch
`status.initialization.controlPlaneInitialized`; `old` what a lagging cache has; `failures` the map
`availabilityFailures` in the manager's memory, by UID; `api`, `link` the workload API and the cluster
cache's connection; `wake` that a `Reconcile` is scheduled; `quiet` and `lagged` are history. Steps:
`StartReconcile` → `LookSucceeds`, `LookKeeps` or `LookFails` → `PatchConditions` → `PatchStatus`, with
`PatchFails`, `Crash`, and `Restore` (the object recreated from a backup with its status). Times are ages
in ticks, counted up to the grace period: the code asks only whether a time is that far back.

`DebouncedHealth` is what the condition promises its readers, with nothing of the mechanism: an outage is
reported only after a threshold of failed reads in a row by one manager and a grace period without
contact, and is taken back only for a contact. `Availability` implements it (`Debounced`, with
`verdict <- Verdict`, `looks <- failures[kcp.uid].seen`). The refinement holds up to the first
`Reconcile` that starts from an outdated object (`void <- lagged`): the code has no defence against
that, and the abstract specification says so.

### `Hosted`: a hosted control plane

Two controllers write one k0smotron Cluster, `kmc`, with merge patches against the copy they read
(`MergePatch`, `Patched`). `kcp` is the K0smotronControlPlane, `endpoint` and `infra` what Cluster API is
told, `ca` the CA secrets, `owner` the external owner in a remote hosting cluster, `objects` everything
generated, each with what it was generated from, `sts` the StatefulSet with its pods, `lb` the load
balancer. `pcC`, `c` and `pcK`, `k` are the two reconciles.

The first runs `KcpStart` → `KcpCertificates` → `KcpSync` → `KcpPush` → `KcpAddress` or
`KcpAddressTimeout` → `KcpStatus` → `KcpPatchCluster` → `patchInfrastructureStatus`, or
`reconcileDelete`. The second runs `KmcStart` → `KmcLoadBalancer` or its timeout → `KmcObjects` (eleven
objects in the order of `Reconcile`; an error leaves the ones before it applied) →
`reconcileStatefulSet` → `KmcStatus`, or `KmcDelete`. `World` is Kubernetes: pods that roll and get
ready only when all they mount exists, and the garbage collector. `Modes` are the shapes of a control
plane (service type, ingress, storage, monitoring, remote). Texts are left out; a version stands for
every scalar field.

### `HostedEtcd`: the etcd of a hosted control plane

`want` and `size` are what the spec asks for, `sts` the etcd StatefulSet, and for each ordinal `pod`,
`boot`, `data`, `mark`: where its start-up is, the size of the initial cluster in its template, the
cluster its volume has data of, and the marker file. `members` is etcd's member list per cluster; a
cluster is named by its initial size, as etcd derives the cluster ID from it. The controller:
`ReconcilePVC` → `ResizeVolume`, `ResizeStops`, `ResizeDeletesStatefulSet` → `ReconcileEtcd` (one replica
more, only when all are ready). The scripts: `InitFindsData`, `InitListsMembers`, `InitFindsNoCluster`,
`InitReplaces`, `InitAdds`, `InitMarks`, `InitFails`, then `Bootstrap`, `JoinCluster` or `Restart`.
`NextScaleDown` adds taking replicas away.

### `JoinTokens`: a JoinTokenRequest

`request`, `oldRequest` are the object and what a lagging cache has, `secret` the token in the secret,
`issued` and `valid` the tokens created and still accepted, `cluster` the hosted control plane, `step`
and `task` the `Reconcile` that runs: `EnsureRequestFinalizer`, `StartReconcile` → `EnsureOwner`, `HasOwner` or
`OwnerNotFound` → `FindPod`, `NoPod` → `CreateToken` → `WriteSecret` → the patch in its three calls. A
deletion: `InvalidateToken` or `SkipInvalidation` → `RemoveFinalizer`. `faults` counts crashes, failed
calls, outdated reads and restarts of the control plane, and not deletions: those the controller is to
cope with at any moment. It shares no object with the other
controllers of a hosted control plane; `MCHosted` puts it next to `Hosted`, so that one run covers both.

### `Bootstrap`: from a Machine to a member and a Node

`life`, `stage`, `address`, `ip`, `data`, `member` describe each Machine and the data it boots with,
`created`, `secret`, `tokens` what the bootstrap controllers leave, `expired` the tokens past the 24 hours
that `createTokenSecret` and `getK0sToken` give them (`Expire`, at any time before the machine runs), `node` the Nodes, `pc`, `mem`, `pick`
the reconcilers. A bootstrap config: `StartController` or `StartWorker` (reads the list of Machines) →
`GenerateInitial` or `GenerateJoin` (the token) → `Assemble` (files and commands, the secret) →
`PatchStatus`. `Boot` is the machine: it founds or joins a cluster. `FindNode` and `UpdateNode` are the
ProviderID controller. Machines are numbered by creation; `ScaleUp` and `ScaleDown` are the control plane
controller as this module needs it (a new Machine when the last one is ready, the oldest deleted).

### `InPlace`: in-place updates

`version`, `latch`, `marked`, `hook`, `updating` describe each Machine and `node` what k0s runs on it,
`plan` the one autopilot plan of the workload cluster, `pc`, `mem` the reconciler, `loops` the goroutines
that record versions, `call` the machine controller with the extension. Standalone: `Start` → `GetPlan` →
`ensureTargetMachinesWithTargetVersion`, `DeletePlan` or `runStandaloneAutopilotPlan`, and the goroutine
`PollPlan`, `updateMachineVersion`. Through Cluster API: `RunCapi` → `Latch` → `Mark` →
`MarkHookPending`, and then `SetUpdating`, `DoUpdateMachine`, `DeleteOldPlan`,
`createAutopilotPlanForMachine`, `CompleteUpdate`. A trigger that was interrupted is completed later. A
lookup of the extension that fails is only logged, and `runStandaloneAutopilotPlan` then writes a plan of
the controller's own (`"fallback"`). `Controllers` are the Machines of the control plane, `Workers` others that
the MachineSet controller marks (`UpdateWorker`) and the extension is called for in the same way: all contend
for the one plan, which is read, found completed and deleted by name in separate steps. `Deciders` are those
that have read a completed plan and will delete it; who deletes it first overtakes the others.

`history` has what the properties except: the controller was woken before Cluster API set the Updating
condition (`"unseen"`), a plan was deleted by hand, a worker was updated, the controller fell back to a plan of
its own, someone was overtaken. `MeetsHook`: such a plan can meet the pending hook of a Machine. `Mixed`: it
comes with any other of these. `TakesAway`: a Machine's completed plan is deleted before its call has seen it.

## The runs

| run | instance | what it shows |
|---|---|---|
| `KcpRollout` | 3 names, 1–2 replicas, 2 revisions, 4 disturbances: edits, stale reads, crashes, API errors, unavailability | members leave etcd one at a time and none is lost, at most one Machine too many exists, scale-down never takes the last one |
| `KcpRemediation` | RecreateDeleteFirst, 3 replicas, 4 names, no kubelet, 3 disturbances with failed health checks | no surge; remediation never deletes while another Machine goes away, nor the last one |
| `KcpDeletion` | fair; from nothing, 2 names, 2 disturbances of eight kinds | the object outlives its Machines, and goes away unless a Machine was left with its hook on |
| `KcpConverges` | fair; 3 names, 2 revisions, 2 disturbances of eight kinds | the desired state is reached and kept |
| `RmPool` | 3 RemoteMachines, 2 machines; 2 disturbances: deletions, failed provisionings | machines come back to the pool, are reset only by their owner and handed over clean; `MachineLease` is implemented |
| `RmLive` | fair; 2 and 2; 2 disturbances of all eight kinds | an address is a reservation; provisioning and deletion end |
| `Availability` | fair; grace period and threshold 2, two objects of one name, 2 disturbances of five kinds | `DebouncedHealth` is implemented; an outage that lasts and a recovery that lasts are reported |
| `HostedEtcd` | fair; from 1 to 3 replicas, 2 sizes, 3 disturbances | one store, grown a member at a time, which comes back after every restart, roll and resize |
| `Hosted` | fair; a remote LoadBalancer with etcd and a NodePort with ingress and NATS, 2 revisions, a disturbance; a request with 4 tokens and 2 faults of four kinds | the pods mount what exists, the address is kept, Cluster API is told in order, the owner stays gone, both settle; tokens stay on record |
| `Bootstrap` | fair; 3 controllers of 1 replica and 2 workers on one host or two, of which all but one are created; a disturbance of six kinds | one founder, one cluster, data that lets a machine join until its token expires, bounded tokens, right provider IDs; every machine that boots in time joins |
| `InPlace` | fair; 2 controllers, a worker, 2 versions, 2 edits (1 next to a worker's update or a fallback), a disturbance of seven kinds | marks before hooks, one Machine of the control plane at a time, versions recorded when they run, a running plan deleted only by who was overtaken; every update ends, unless two Machines go on taking each other's plan away |
| `KcpScaleDownToZero` (violation) | 3 names, edits and failed health checks | see below |

Why these bounds. A rollout of one replica needs two names and of two replicas three, so three names
reach the surge limit and one beyond it would show; RecreateDeleteFirst changes at three replicas, hence
`KcpRemediation`. With more RemoteMachines than machines the pool runs dry, with as many everybody can be
served; both are there. A grace period of 2 tells just before from just after, a threshold of 2 a count
from a flag. Three etcd members are the first size with a majority that is not everybody. Three
controllers of one replica replace the founder twice. Two edits in `InPlace` change the version and change it
back, while goroutines of the first plan are alive. What goes wrong in this code, below and in the mutants, takes
one to three disturbances. Machine names are interchangeable and the safety runs use that symmetry; the
fair runs do not: in `KcpConverges` a new Machine takes the first free name instead. A Machine of a
running control plane starts out healthy where there is a health check; the controller does not tell that
from one that was not checked yet, once its node is there. In `Bootstrap` three
controllers meet one worker and two controllers two workers: workers meet each other on a host, controllers
through the founder's lock and the token they join with.

Larger instances were also checked once: `KcpConverges` over all names and all orders of creation, from
Machines not yet checked (2,258,327 states); `RmPool` with three disturbances; `Bootstrap` with all five machines; and the
inductive invariants of the proofs (see below). The safety properties of `InPlace` were also checked without
the bound of `MCInPlace` (`OneEditLess`): two edits next to a failing call (915,367 states) and next to a
worker's update (1,388,542).

### Fairness

Weak fairness is assumed of each controller, over its successful steps, of the informers, and of CAPI,
k0s, Kubernetes and autopilot doing their part: machines that start join and become available, members
asked to leave leave, Machines without a hook terminate, pods restart, the garbage collector collects,
time passes. controller-runtime requeues after an error with backoff, the controllers requeue themselves
while they wait, watches trigger on change, and the periodic resync comes last. Users, failures and
crashes are not fair and are bounded by `MaxDisturbances` (`MaxFaults`, `MaxEdits`), so a liveness
property says what happens once they stop. In `Availability` a `Reconcile` is fair only when it was
scheduled (`wake`), so that a missing requeue shows.

## Where the code and what it says of itself differ

One disagreement has a run. `KcpScaleDownToZero`: `reconcileUnhealthyMachines` deletes a Machine and leaves
it in the scope; `scaleDown` in the same pass counts it and deletes the other one, against the comment in
`scale.go` that it never scales down to zero (quoted under `findings` in `PROJECT.json`).

The others can be had from the modules by adding a property or a disturbance:

* `SurgeBound` with `"loseInfra"`: a Machine without infrastructure is dropped from the scope while it still
  terminates, and one too many is created. Hence the premise of `SurgeBounded`.
* `DeletionCompletes`: a Machine that scale-down was removing keeps its hook when the control plane is
  deleted, and the deletion never ends. `DeletionCompletesOrHookLeft` says that nothing else stops it.
* `NoLostMember` with `"deleteMachine"`: a Machine deleted before it joined counts as left
  (`checkMachineLeft`), may still join, and is then terminated as a voting member.
* `NoLeak` with stale reads: a RemoteMachine that does not see its own reservation takes a second machine, or is
  deleted without returning the first. `CleanupOwnMachine` with `"crash"` or `"apiError"`: the deletion that
  is run again resets a machine that somebody else has by then. `CleanHandover` with `"cleanupFails"`:
  the failed cleanup is only logged.
* `StatusFollows`: the ProviderID is written, condition and status are not, and every later pass returns
  early. `EventuallyProvisioned` excepts that state. `PopulatedDeletionEnds` excepts a hanging script: the
  context that the monitor cancels is not the one the SSH session uses.
* `EtcdNeverScaledDown` of `SpecScaleDown`: "k0smotron never scales etcd statefulsets down", but the floor is
  `status.replicas`, which lags behind while a pod is still to be created. `OneStore` excepts (`leapt`) a StatefulSet that a
  resize recreates with more replicas than there were volumes: the new pods found a cluster of their own.
* `ManifestsDelivered`: the pod template drops the hash annotation from the Cluster's own map, so the next
  comparison ignores an emptied list of manifests, and the pods keep the old ones.
* `OneUpdateAtATime` without its premise: the controller is woken by its own patch before Cluster API has set
  the Updating condition (`"unseen"` in `history`), and marks a second Machine.
* `RunningPlanKept` without `"overtaken"`: two calls of the extension, for a worker and a controller, or a call
  and the controller, read the same completed plan; the first deletes it and writes its own, the second
  deletes that one by name while autopilot works on it. `Converges` without `TakesAway`: they may go on
  deleting each other's completed plan.
* `RecordedVersionRuns` without `Mixed`, `MarkedBeforeHook` without `MeetsHook`: an error of the lookup in
  `runInplaceUpdate` counts as "not deployed", and the controller's own plan and its goroutine meet a Machine
  whose hook is pending.
* `Bootstrapped` without the exception of `expired`: a join token expires 24 hours after it was created, the
  bootstrap data is generated once, and a machine that boots later is turned away for good.

## Proofs

TLAPS proves the following for every value of the constants that the named `ASSUME`s allow: any finite set
of Machines, any replica counts, any number of RemoteMachines, pooled machines, hosts, versions, tokens and
disturbances, every shape of hosted control plane. Nothing else is assumed; where a theorem has a premise on
the disturbances it is in its statement, and the section above says what breaks without it.

| theorem | states | argument |
|---|---|---|
| `TypeCorrect`, `RemoteMachineType`, `AvailabilityType`, `HostedTypeCorrect`, `EtcdTypeCorrect`, `RequestTypeCorrect`, `BootstrapTypeCorrect`, `InPlaceTypeCorrect` | `[]TypeOK`, of `JoinTokens` `[]RequestTypeOK` | one step per action; for `RemoteMachine`, `Bootstrap` and `InPlace` of a stronger type that has the records a reconciler holds |
| `KcpOutlives` | `[]KcpOutlivesMachines` | `FinalizerInv`: a Machine exists only under the finalizer; the cache shows no deletion and no finalizer that is not there; the decision to finish is taken when nothing exists, and nothing is created after it |
| `SurgeBounded` | `SurgeBound`, no lost infrastructure | `SurgeInv`: while `Reconcile` works, every Machine that exists is in its scope; others only remove Machines |
| `ScaleDownSafe` | `ScaleDownKeepsOne`, no manual deletions and failed health checks | `KeepsOneInv`: the active Machines of the scope are active |
| `RemediationSafe` | `RemediationIsSafe`, no manual deletions | `ListedInv`: up to the remediation the Machines are as they were listed; the finiteness of the list makes the count of the code a statement about the set |
| `NoLostMemberHolds`, `OneMemberLeavesHolds` | `[]NoLostMember`, `[]OneMemberLeavesAtATime` of a running control plane, where only `Reconcile` deletes | `RolloutInv`, seven parts: only the newest Machine may not have joined, none when it comes to scaling; a hook goes only after its member left; a member that leaves is in what is left to do, and nothing is left to do when it comes to scaling; the snapshot's order is the order of creation |
| `AddressesReserved` | `[]AddressIsReserved`, under every disturbance | `ReservationInv`: an Update that would be accepted was decided on a machine that is free; the cache is right about the machines it is not behind on; everything known of a RemoteMachine that was not deleted names machines reserved for it |
| `NoLeakHolds` | `[]NoLeak`, no stale reads | `DeletionInv`: without the finalizer neither a machine nor a running `Reconcile`; the finalizer is given up after the machine; one machine each |
| `CleanHandoverHolds` | `CleanHandover`, no stale reads and failed cleanups | `HostInv`: only a machine reserved for it runs the k0s of a RemoteMachine, and none does when it goes back |
| `CleanupOwnMachineHolds` | `CleanupOwnMachine`, no stale reads, crashes and failed calls | `HeldInv`: what is known of a RemoteMachine names its machine until that is given back, and the finalizer goes in the same `Reconcile` |
| `PoolIsLeased` | `RemoteMachine` implements `MachineLease` (`Leased`), no stale reads | `life`, `lease` and `asking` are the phase, the pool and the reconciles that are about to reserve; every step is one of the lease or changes none of the three: the Update that is accepted is of a free machine (`ReservationInv`), the one who makes it has none, and nobody goes away with a machine (`DeletionInv`) |
| `ConditionIsDebounced` | `Availability` implements `DebouncedHealth`, under every disturbance | `HealthInv`: no anchor is older than the last recorded contact; what a patch in flight will write is justified when it arrives |
| `EtcdGrowsOneAtATime` | `OneMoreAtATime`, with replicas taken away as well | what `calculateDesiredReplicas` returns, and the gate on readiness |
| `OneStoreHolds` | `[]OneStore` | `Store`: the first `b` pods found the cluster `b`; a pod beyond them is claimed only when all before it have data, so one that founds a cluster of its own is its only member with data, of at least two; pods, replicas and claims never exceed what is asked for |
| `InfraReadyHolds` | `[]InfraReadyMeansEndpoint` | `InfraInv`: the endpoint is on the infrastructure cluster before the Cluster, and there before readiness |
| `AddressKeptHolds` | `AddressKept` | `AddressInv`: no copy that a patch is computed from makes it send a missing address |
| `OwnerStaysGoneHolds` | `OwnerStaysGone` | `DeletionInv`: no patch changes whether an object exists or is being deleted; the Cluster is deleted only with its control plane |
| `MountsExistHolds` | `[]MountsExist` | `MountsInv`: what the spec in memory or in the Cluster mounts was applied, and is collected only with the Cluster |
| `TokensOnRecordHolds` | `[]TokensOnRecord` | `Paid`: every token lost or at risk (an overtaken `Reconcile`, an invalidation skipped for a control plane that restarts) was paid for with a fault; a deletion puts none at risk |
| `OneFounderHolds` | `[]OneFounder` | `FounderOK`: that a machine was the oldest of some list stays true however old the list gets |
| `OneClusterHolds` | `[]OneCluster` | `ClusterInv`: only the newest controller may not run; while no deletion was `risky` every pending one has an older active one, so only the first founds, and all tokens are of its cluster |
| `JoinDataUsableHolds` | `[]JoinDataUsable` | data on its way names a token that was created (`TokensOK`), of the one cluster all run in (`ClusterInv`), or of the hosted control plane, where no Machine runs a controller (`HostedInv`) |
| `TokensBoundedHolds` | `[]TokensBounded` | `CountOK`: a machine gets another token only after a disturbance |
| `OwnProviderIDHolds` | `[]OwnProviderID` | `ProviderInv`: a host has one machine at a time, and a Node of another machine is picked only when that one is gone |
| `MarkedBeforeHookHolds` | `[]MarkedBeforeHook` | `Order`: where the trigger is, what the reconciler's copies say of the Machines it may still touch, and that a plan for a controller is not older than its hook; kept until `MeetsHook` |
| `RecordedVersionRunsHolds` | `RecordedVersionRuns` | `Versions`: what autopilot reports done is done; until `Mixed` a plan for a Machine with the hook is a plan for its version, and a goroutine lives no longer than its plan and not while a Machine is marked |
| `OneUpdateAtATimeHolds` | `[]OneUpdateAtATime` | `Undisturbed`: whoever is about to mark a Machine has seen that none is updated, and nobody else marks one |
| `RunningPlanKeptHolds` | `RunningPlanKept` | `PlanIsOver`: until someone is overtaken, the plan that somebody is about to delete is the completed one that was seen; `Overtaken`: that takes two Machines at a time (`Undisturbed`) or a deletion by hand |

None of the properties is inductive as it stands: each speaks of the objects, and what happens to them
depends on what a reconciler under way has read before. The strengthenings are therefore about the
snapshots. TLC checked each of them first, on the reachable states of instances larger than those of the
runs: `RolloutInv` (352,889 and 359,628 states), `ListedInv` (481,455), the invariants of
`RemoteMachine` (362,390 and 114,499), of `Hosted` with three modes (926,800), of `HostedEtcd` with one and
three or one and four replicas (212,903; 97,303 without volume expansion; 830,191), of `Bootstrap`
with all five machines (333,521) and of `InPlace` with two edits next to a disturbance of four kinds (2,320,029) and
one next to two disturbances of three (990,329).

The proofs of a component are in the module `<Component>Proofs`, which extends it. `K0sControlPlaneProofs` extends
`MCK0sControlPlane` for `RunningSpec`.

Only model-checked is liveness (`Converges`, `DeletionCompletesOrHookLeft`, `EventuallyProvisioned`, `PopulatedDeletionEnds`,
`StoreRecovers`, `OutageReported`, `RecoveryReported`, `ClusterSettles`, `RequestSettles`, `Bootstrapped`, `Converges` of
`InPlace`): the prover has no rules for fairness and `ENABLED`.

## Not modelled

* The job provisioner does what the SSH provisioner does, from a pod. The RemoteCluster controller is one
  unconditional status write.
* The objects that `scaleUp` leaves behind when it fails between creating the infrastructure machine, the
  bootstrap config and the Machine: nothing refers to them again.
* Webhooks are stateless checks of one object; conversions copy fields; provisioner formats and
  generated resources are text (`Bootstrap` and `Hosted` have what goes into them); telemetry, download
  commands and pod exec have no state; manager start-up is wiring.
* Scaling hosted etcd down has a specification, `SpecScaleDown`, about which `EtcdTypeCorrect` and
  `EtcdGrowsOneAtATime` are proved, and no run.
