---------------------------- MODULE HostedEtcd ----------------------------
(***************************************************************************)
(* The etcd of a hosted control plane: the part of the k0smotron Cluster   *)
(* controller that sizes the etcd StatefulSet and resizes its volumes, the *)
(* StatefulSet controller, and the scripts the pods run to bootstrap or to *)
(* join an etcd cluster.  A pod is named by its ordinal.  An etcd cluster  *)
(* is named by the number of members it was bootstrapped with: etcd        *)
(* derives the cluster ID from ETCD_INITIAL_CLUSTER.                       *)
(***************************************************************************)
EXTENDS Naturals, FiniteSets

CONSTANTS
    Replica,          \* the values spec.replicas takes (user or HorizontalPodAutoscaler)
    Size,             \* the values spec.storage.etcd.persistence.size takes; 0 is unset
    Expandable,       \* the StorageClass allows volume expansion
    Disturbance,      \* the kinds of disturbance that may happen
    MaxDisturbances   \* how many of them in one behaviour

Disturbances == {"scaleUp", "scaleDown", "resize", "podFails", "listFails", "initCrash", "crash"}

ASSUME ReplicaAssumption ==
    Replica \subseteq Nat \ {0} /\ \E n \in Replica : \A m \in Replica : m <= n
ASSUME SizeAssumption == Size \subseteq Nat /\ Size # {}
ASSUME DisturbanceAssumption ==
    Disturbance \subseteq Disturbances /\ MaxDisturbances \in Nat /\ Expandable \in BOOLEAN

VARIABLES
    want,      \* kmc.Spec.Replicas
    size,      \* kmc.Spec.Storage.Etcd.Persistence.Size
    sts,       \* the etcd StatefulSet
    pod,       \* per ordinal: where the pod is in its start-up
    boot,      \* per ordinal: number of members in ETCD_INITIAL_CLUSTER of the pod's template
    data,      \* per ordinal: the cluster whose data the volume holds; 0 when empty
    mark,      \* per ordinal: the file "existing" is on the volume
    members,   \* per cluster: its member list; {} when it was never bootstrapped
    pc, mem,   \* where the controller is, and what it holds in memory
    leapt,     \* the StatefulSet was recreated with more replicas than there were volumes
    budget     \* disturbances still to come

podVars == <<pod, boot, data, mark, members>>
vars == <<want, size, sts, podVars, pc, mem, leapt, budget>>

OddReplicas(n) == IF n % 2 = 0 THEN n + 1 ELSE n

Largest == OddReplicas(CHOOSE n \in Replica : \A m \in Replica : m <= n)
Pod == 0..(Largest - 1)
Count == 0..Largest
Cluster == 1..Largest

Stages == {"none", "init", "replace", "add", "touch", "start", "up"}
StatefulSet == [exists : BOOLEAN, replicas : Count, claim : Nat,
                statusReplicas : Count, readyReplicas : Count]
NoStatefulSet == [exists |-> FALSE, replicas |-> 0, claim |-> 0,
                  statusReplicas |-> 0, readyReplicas |-> 0]
Idle == [want |-> 1, size |-> 0, next |-> 0, target |-> 0]

Smallest(S) == CHOOSE s \in S : \A t \in S : s <= t

Init ==
    /\ want = Smallest(Replica)
    /\ size = Smallest(Size)
    /\ sts = NoStatefulSet
    /\ pod = [i \in Pod |-> "none"]
    /\ boot = [i \in Pod |-> 0]
    /\ data = [i \in Pod |-> 0]
    /\ mark = [i \in Pod |-> FALSE]
    /\ members = [c \in Cluster |-> {}]
    /\ pc = "idle"
    /\ mem = Idle
    /\ leapt = FALSE
    /\ budget = MaxDisturbances

Disturb(kind) ==
    /\ kind \in Disturbance
    /\ budget > 0
    /\ budget' = budget - 1

----------------------------------------------------------------------------
(* etcd: who serves.                                                         *)

Running(c) == {i \in members[c] : pod[i] = "up" /\ data[i] = c}
Functional(c) == 2 * Cardinality(Running(c)) > Cardinality(members[c])
Started(c) == {i \in members[c] : data[i] = c}

(* The readiness probe is "etcdctl endpoint health".                         *)
Ready(i) == pod[i] = "up" /\ i \in members[data[i]] /\ Functional(data[i])

----------------------------------------------------------------------------
(* The controller.  One Reconcile reads the Cluster, resizes the volumes     *)
(* (reconcilePVC) and then sizes the StatefulSet (reconcileEtcd).            *)

calculateDesiredReplicas(n) ==
    LET desired == IF n > 1 THEN OddReplicas(n) ELSE 1
    IN  IF sts.statusReplicas > desired THEN sts.statusReplicas ELSE desired

Claim(s) == IF s = 0 THEN 1 ELSE s

(* Mutant: the size is not compared with the one the StatefulSet has.        *)
NeedsResize_Always(s) == sts.exists /\ s # 0

NeedsResize(s) == sts.exists /\ s # 0 /\ s # sts.claim

Goto(label) == pc' = label

Done == Goto("idle") /\ mem' = Idle

ReconcilePVC ==
    /\ pc = "idle"
    /\ mem' = [want |-> want, size |-> size, next |-> 0, target |-> calculateDesiredReplicas(want)]
    /\ Goto(IF NeedsResize(size) THEN "resize" ELSE "size")
    /\ UNCHANGED <<want, size, sts, podVars, leapt, budget>>

(* A volume that does not exist yet ends the resize without deleting the     *)
(* StatefulSet; a StorageClass that cannot expand ends the loop.             *)
Claimed(i) == boot[i] # 0

ResizeStops ==
    /\ pc = "resize"
    /\ mem.next < mem.target /\ ~Claimed(mem.next)
    /\ Goto("size")
    /\ UNCHANGED <<want, size, sts, podVars, mem, leapt, budget>>

ResizeVolume ==
    /\ pc = "resize" /\ Expandable
    /\ mem.next < mem.target /\ Claimed(mem.next)
    /\ IF mem.size < sts.claim \/ pod[mem.next] = "none"
       THEN Done /\ UNCHANGED pod
       ELSE /\ pod' = [pod EXCEPT ![mem.next] = "none"]
            /\ mem' = [mem EXCEPT !.next = @ + 1]
            /\ UNCHANGED pc
    /\ UNCHANGED <<want, size, sts, boot, data, mark, members, leapt, budget>>

ResizeDeletesStatefulSet ==
    /\ pc = "resize"
    /\ mem.next < mem.target => ~Expandable /\ Claimed(mem.next)
    /\ sts' = NoStatefulSet
    /\ Goto("size")
    /\ UNCHANGED <<want, size, podVars, mem, leapt, budget>>

NextReplicas(n) ==
    LET desired == calculateDesiredReplicas(n)
    IN  IF sts.exists /\ desired > sts.replicas THEN sts.replicas + 1 ELSE desired

(* Mutant: it does not wait for the previous member.                         *)
PreviousMemberReady_Always(n) == TRUE

PreviousMemberReady(n) == sts.exists => NextReplicas(n) <= sts.readyReplicas + 1

generateEtcdStatefulSet(replicas, s) ==
    [NoStatefulSet EXCEPT !.exists = TRUE, !.replicas = replicas, !.claim = Claim(s)]

(* The claim templates are immutable: applying another size is refused.      *)
reconcileEtcdStatefulSet ==
    IF ~sts.exists
    THEN generateEtcdStatefulSet(NextReplicas(mem.want), mem.size)
    ELSE IF PreviousMemberReady(mem.want) /\ sts.claim = Claim(mem.size)
    THEN [sts EXCEPT !.replicas = NextReplicas(mem.want)]
    ELSE sts

(* The service and the defragmentation job are applied along with it; nobody *)
(* else writes them.                                                         *)
ReconcileEtcd ==
    /\ pc = "size"
    /\ sts' = reconcileEtcdStatefulSet
    /\ leapt' = (leapt \/ /\ ~sts.exists
                          /\ \E i, j \in Pod : Claimed(i) /\ ~Claimed(j) /\ j < sts'.replicas)
    /\ Done
    /\ UNCHANGED <<want, size, podVars, budget>>

Crash ==
    /\ pc # "idle"
    /\ Disturb("crash")
    /\ Done
    /\ UNCHANGED <<want, size, sts, podVars, leapt>>

----------------------------------------------------------------------------
(* The StatefulSet controller, with parallel pod management: external.       *)

CreatePod(i) ==
    /\ sts.exists /\ i < sts.replicas /\ pod[i] = "none"
    /\ pod' = [pod EXCEPT ![i] = "init"]
    /\ boot' = [boot EXCEPT ![i] = sts.replicas]
    /\ UNCHANGED <<want, size, sts, data, mark, members, pc, mem, leapt, budget>>

StopPod(i) ==
    /\ pod' = [pod EXCEPT ![i] = "none"]
    /\ UNCHANGED <<want, size, sts, boot, data, mark, members, pc, mem, leapt>>

RemovePod(i) == sts.exists /\ i >= sts.replicas /\ pod[i] # "none" /\ StopPod(i) /\ UNCHANGED budget

(* The rolling update goes from the highest ordinal down, one ready pod      *)
(* after the other.                                                          *)
UpdatePod(i) ==
    /\ sts.exists /\ i < sts.replicas /\ pod[i] # "none" /\ boot[i] # sts.replicas
    /\ \A j \in (i + 1)..(sts.replicas - 1) : boot[j] = sts.replicas /\ Ready(j)
    /\ StopPod(i) /\ UNCHANGED budget

ReportStatus ==
    /\ sts.exists
    /\ sts' = [sts EXCEPT !.statusReplicas = Cardinality({i \in Pod : pod[i] # "none"}),
                          !.readyReplicas = Cardinality({i \in Pod : Ready(i)})]
    /\ sts' # sts
    /\ UNCHANGED <<want, size, podVars, pc, mem, leapt, budget>>

----------------------------------------------------------------------------
(* The init container: with an empty volume it adds the pod as a member of   *)
(* the cluster that answers, in place of a member of the same name; if none  *)
(* answers it leaves it to etcd to bootstrap.  A command that fails starts   *)
(* the script again.                                                         *)

Move(i, stage) == pod' = [pod EXCEPT ![i] = stage]

InitFindsData(i) ==
    /\ pod[i] = "init" /\ data[i] # 0
    /\ Move(i, "start")
    /\ UNCHANGED <<want, size, sts, boot, data, mark, members, pc, mem, leapt, budget>>

AfterList(i, c) == IF i \in members[c] THEN "replace" ELSE "add"

InitListsMembers(i) ==
    /\ pod[i] = "init" /\ data[i] = 0
    /\ \E c \in Cluster : Functional(c) /\ Move(i, AfterList(i, c))
    /\ UNCHANGED <<want, size, sts, boot, data, mark, members, pc, mem, leapt, budget>>

InitFindsNoCluster(i) ==
    /\ pod[i] = "init" /\ data[i] = 0
    /\ IF \E c \in Cluster : Functional(c) THEN Disturb("listFails") ELSE UNCHANGED budget
    /\ Move(i, "start")
    /\ UNCHANGED <<want, size, sts, boot, data, mark, members, pc, mem, leapt>>

InitReplaces(i) ==
    /\ pod[i] = "replace"
    /\ \E c \in Cluster :
          /\ Functional(c) /\ i \in members[c]
          /\ members' = [members EXCEPT ![c] = @ \ {i}]
    /\ Move(i, "add")
    /\ UNCHANGED <<want, size, sts, boot, data, mark, pc, mem, leapt, budget>>

(* etcd refuses a member when too few of the present ones have started.      *)
MayAdd(c) ==
    LET n == Cardinality(members[c]) + 1
        s == Cardinality(Started(c))
    IN  (n = 2 /\ s = 1) \/ 2 * s > n

InitAdds(i) ==
    /\ pod[i] = "add"
    /\ \E c \in Cluster :
          /\ Functional(c) /\ MayAdd(c)
          /\ members' = [members EXCEPT ![c] = @ \cup {i}]
    /\ Move(i, "touch")
    /\ UNCHANGED <<want, size, sts, boot, data, mark, pc, mem, leapt, budget>>

InitMarks(i) ==
    /\ pod[i] = "touch"
    /\ mark' = [mark EXCEPT ![i] = TRUE]
    /\ Move(i, "start")
    /\ UNCHANGED <<want, size, sts, boot, data, members, pc, mem, leapt, budget>>

(* A command fails because the cluster no longer answers, or the container   *)
(* is killed between two commands.                                           *)
InitFails(i) ==
    /\ pod[i] \in {"replace", "add", "touch"}
    /\ IF pod[i] # "touch" /\ \A c \in Cluster : ~Functional(c)
       THEN UNCHANGED budget ELSE Disturb("initCrash")
    /\ Move(i, "init")
    /\ UNCHANGED <<want, size, sts, boot, data, mark, members, pc, mem, leapt>>

initialCluster(n) == 0..(n - 1)

ClusterState(i) == IF mark[i] THEN "existing" ELSE "new"

(* The etcd container, with ETCD_INITIAL_CLUSTER_STATE "existing" when the   *)
(* mark is there.                                                            *)
Restart(i) ==
    /\ pod[i] = "start" /\ data[i] # 0 /\ i \in members[data[i]]
    /\ Move(i, "up")
    /\ UNCHANGED <<want, size, sts, boot, data, mark, members, pc, mem, leapt, budget>>

Bootstrap(i) ==
    /\ pod[i] = "start" /\ data[i] = 0 /\ ClusterState(i) = "new"
    /\ members[boot[i]] = {} \/ i \in members[boot[i]]
    /\ members' = [members EXCEPT ![boot[i]] = IF @ = {} THEN initialCluster(boot[i]) ELSE @]
    /\ data' = [data EXCEPT ![i] = boot[i]]
    /\ Move(i, "up")
    /\ UNCHANGED <<want, size, sts, boot, mark, pc, mem, leapt, budget>>

JoinCluster(i) ==
    /\ pod[i] = "start" /\ data[i] = 0 /\ ClusterState(i) = "existing"
    /\ \E c \in Cluster :
          /\ i \in members[c] /\ members[c] = initialCluster(boot[i])
          /\ Running(c) # {}
          /\ data' = [data EXCEPT ![i] = c]
    /\ Move(i, "up")
    /\ UNCHANGED <<want, size, sts, boot, mark, members, pc, mem, leapt, budget>>

----------------------------------------------------------------------------
(* The environment.                                                          *)

PodFails(i) == pod[i] # "none" /\ Disturb("podFails") /\ StopPod(i)

Scale(kind, n) ==
    /\ Disturb(kind)
    /\ want' = n
    /\ UNCHANGED <<size, sts, podVars, pc, mem, leapt>>

Resize ==
    /\ Disturb("resize")
    /\ size' \in Size \ {size}
    /\ UNCHANGED <<want, sts, podVars, pc, mem, leapt>>

ControllerStep ==
    \/ ReconcilePVC \/ ResizeStops \/ ResizeVolume \/ ResizeDeletesStatefulSet
    \/ ReconcileEtcd

PodStep(i) ==
    \/ InitFindsData(i) \/ InitListsMembers(i) \/ InitFindsNoCluster(i)
    \/ InitReplaces(i) \/ InitAdds(i) \/ InitMarks(i) \/ InitFails(i)
    \/ Restart(i) \/ Bootstrap(i) \/ JoinCluster(i)

Next ==
    \/ ControllerStep \/ Crash \/ ReportStatus \/ Resize
    \/ \E n \in Replica : n > want /\ Scale("scaleUp", n)
    \/ \E i \in Pod : CreatePod(i) \/ UpdatePod(i) \/ PodStep(i) \/ PodFails(i)

Spec == Init /\ [][Next]_vars

(* The same with replicas taken away as well.                                *)
NextScaleDown ==
    \/ Next
    \/ \E n \in Replica : n < want /\ Scale("scaleDown", n)
    \/ \E i \in Pod : RemovePod(i)

SpecScaleDown == Init /\ [][NextScaleDown]_vars

Fairness ==
    /\ WF_vars(ControllerStep) /\ WF_vars(ReportStatus)
    /\ \A i \in Pod : /\ WF_vars(CreatePod(i)) /\ WF_vars(UpdatePod(i))
                      /\ WF_vars(PodStep(i))

FairSpec == Spec /\ Fairness

TypeOK ==
    /\ want \in Replica /\ size \in Size
    /\ sts \in StatefulSet
    /\ pod \in [Pod -> Stages]
    /\ boot \in [Pod -> Count]
    /\ data \in [Pod -> Count]
    /\ mark \in [Pod -> BOOLEAN]
    /\ members \in [Cluster -> SUBSET Pod]
    /\ pc \in {"idle", "resize", "size"}
    /\ mem \in [want : Replica \cup {1}, size : Size \cup {0}, next : Count, target : Count]
    /\ leapt \in BOOLEAN
    /\ budget \in 0..MaxDisturbances

----------------------------------------------------------------------------
(* Properties.                                                               *)

(* An etcd cluster holds the store when a majority of its members has data.  *)
Held(c) == 2 * Cardinality(Started(c)) > Cardinality(members[c])

(* There is one store: no second etcd cluster ever gets its data onto a      *)
(* majority of its members, whatever fails while pods bootstrap, join, roll  *)
(* or are resized (reconcileEtcdStatefulSet waits for the previous member;   *)
(* the init script joins a cluster that answers).                            *)
(* The one way out is a StatefulSet that is recreated larger after a resize. *)
OneStore == leapt \/ \A c, d \in Cluster : Held(c) /\ Held(d) => c = d

(* An existing StatefulSet gains at most one replica at a time, and only     *)
(* when every replica it had was reported ready (reconcileEtcdStatefulSet).  *)
OneMoreAtATime ==
    [][sts.exists /\ sts'.exists /\ sts'.replicas > sts.replicas =>
          /\ sts'.replicas = sts.replicas + 1
          /\ sts.readyReplicas >= sts.replicas]_vars

StoreUp == \E c \in Cluster : Functional(c)

(* A pod that bootstrapped a cluster of its own while another one counts it  *)
(* as a member.                                                              *)
StrayMember == \E c \in Cluster : \E i \in members[c] : data[i] \notin {0, c}

(* A resize that meets a volume not created yet: it deletes the pods before  *)
(* it, leaves the StatefulSet, and starts again.                             *)
ResizeBlocked ==
    /\ NeedsResize(size)
    /\ \E i \in Pod : i < calculateDesiredReplicas(want) /\ ~Claimed(i)

(* The store comes back after every restart, rolling update and resize,      *)
(* unless a pod strayed or the resize is blocked (resizeStatefulSetAndPVC,   *)
(* the init script).                                                         *)
StoreRecovers == []<>StoreUp \/ <>[](StrayMember \/ ResizeBlocked)

(* "k0smotron never scales etcd statefulsets down, only up."                 *)
EtcdNeverScaledDown ==
    [][sts.exists /\ sts'.exists => sts'.replicas >= sts.replicas]_vars
=============================================================================
