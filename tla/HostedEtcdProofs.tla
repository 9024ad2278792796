-------------------------- MODULE HostedEtcdProofs --------------------------
(***************************************************************************)
(* Proofs about HostedEtcd, for every set of replica counts and sizes and  *)
(* every number of disturbances: the store grows one member at a time,     *)
(* with replicas taken away as well, and there is only one store.          *)
(***************************************************************************)
EXTENDS HostedEtcd, FiniteSetTheorems, TLAPS

(* What no prover is named for goes to Zenon.                               *)
USE ZenonT(30)

USE ReplicaAssumption, SizeAssumption, DisturbanceAssumption

----------------------------------------------------------------------------
(* The number of members (calculateDesiredReplicas).                         *)

(* Rounding up to an odd number keeps the order.                             *)
LEMMA OddIsMonotone ==
    ASSUME NEW m \in Nat, NEW n \in Nat, m <= n
    PROVE  /\ OddReplicas(m) \in Nat /\ OddReplicas(n) \in Nat
           /\ OddReplicas(m) <= OddReplicas(n)
           /\ n <= OddReplicas(n)
BY SMTT(30) DEF OddReplicas

(* Largest bounds what any of the replica counts asks for.                   *)
LEMMA LargestBounds ==
    /\ Largest \in Nat \ {0}
    /\ \A n \in Replica : OddReplicas(n) \in 1..Largest
<1> DEFINE top == CHOOSE n \in Replica : \A m \in Replica : m <= n
<1>1. top \in Replica /\ \A m \in Replica : m <= top
    OBVIOUS
<1>2. top \in Nat \ {0}
    BY <1>1
<1>3. Largest = OddReplicas(top)
    BY DEF Largest
<1>4. Largest \in Nat \ {0}
    BY <1>2, <1>3, OddIsMonotone, SMTT(30)
<1>5. ASSUME NEW n \in Replica PROVE OddReplicas(n) \in 1..Largest
    BY <1>1, <1>2, <1>3, <1>4, OddIsMonotone, SMTT(30)
<1> QED BY <1>4, <1>5

(* What reconcileEtcdStatefulSet may ask for is within bounds.               *)
LEMMA DesiredBounds ==
    ASSUME TypeOK, NEW n \in Replica \cup {1}
    PROVE  calculateDesiredReplicas(n) \in 1..Largest
<1>1. sts.statusReplicas \in 0..Largest
    BY DEF TypeOK, StatefulSet, Count
<1>2. n > 1 => n \in Replica
    BY SMTT(30)
<1> QED BY <1>1, <1>2, LargestBounds, SMTT(30) DEF calculateDesiredReplicas

LEMMA NextBounds ==
    ASSUME TypeOK, NEW n \in Replica \cup {1}
    PROVE  NextReplicas(n) \in 1..Largest
<1>1. sts.replicas \in 0..Largest
    BY DEF TypeOK, StatefulSet, Count
<1> QED BY <1>1, DesiredBounds, LargestBounds, SMTT(30) DEF NextReplicas

----------------------------------------------------------------------------
(* Type correctness.                                                         *)

(* The number of pods in some state is one the StatefulSet may report.       *)
LEMMA PodCount ==
    ASSUME NEW S \in SUBSET Pod
    PROVE  Cardinality(S) \in Count
<1>1. Pod = 0..(Largest - 1) /\ Largest \in Nat /\ Largest - 1 \in Int
    BY LargestBounds, SMTT(30) DEF Pod
<1>2. IsFiniteSet(0..(Largest - 1)) /\ Cardinality(0..(Largest - 1)) = Largest
    BY <1>1, LargestBounds, FS_Interval, SMTT(30)
<1>3. IsFiniteSet(Pod) /\ Cardinality(Pod) = Largest
    BY <1>1, <1>2
<1>4. IsFiniteSet(S) /\ Cardinality(S) <= Largest
    BY <1>3, FS_Subset
<1>5. Cardinality(S) \in Nat
    BY <1>4, FS_CardinalityType
<1> QED BY <1>1, <1>4, <1>5, SMTT(30) DEF Count

(* The user starts from the smallest replica count and size there is.        *)
LEMMA SmallestIsThere ==
    ASSUME NEW S \in SUBSET Nat, S # {}
    PROVE  Smallest(S) \in S
<1> DEFINE less == OpToRel(<, Nat)
<1>1. IsWellFoundedOn(less, Nat)
    BY NatLessThanWellFounded
<1> HIDE DEF less
<1>2. PICK x \in S : \A y \in S : ~(<<y, x>> \in less)
    BY <1>1, WFMin
<1>3. ASSUME NEW y \in S PROVE x <= y
    <2>1. y < x => <<y, x>> \in less
        BY DEF less, OpToRel
    <2> QED BY <1>2, <2>1, SMTT(30)
<1> QED BY <1>2, <1>3 DEF Smallest

LEMMA InitType == Init => TypeOK
<1> SUFFICES ASSUME Init PROVE TypeOK
    OBVIOUS
<1>1. 0 \in Count
    BY LargestBounds, SMTT(30) DEF Count
<1>2. Smallest(Replica) \in Replica /\ Smallest(Size) \in Size
    BY SmallestIsThere
<1>3. MaxDisturbances \in 0..MaxDisturbances
    BY SMTT(30)
<1> QED BY <1>1, <1>2, <1>3 DEF Init, TypeOK, NoStatefulSet, StatefulSet, Idle, Stages

LEMMA ControllerType == TypeOK /\ ControllerStep => TypeOK'
<1> SUFFICES ASSUME TypeOK, ControllerStep PROVE TypeOK'
    OBVIOUS
<1> USE DEF Goto, podVars
<1>0. 0 \in Count /\ NoStatefulSet \in StatefulSet
    BY LargestBounds, SMTT(30) DEF Count, NoStatefulSet, StatefulSet
<1>1. CASE ReconcilePVC
  <2>1. calculateDesiredReplicas(want) \in Count
      BY DesiredBounds, LargestBounds, SMTT(30) DEF TypeOK, Count
  <2> QED BY <1>0, <1>1, <2>1 DEF TypeOK, ReconcilePVC
<1>2. CASE ResizeStops
    BY <1>2 DEF TypeOK, ResizeStops
<1>3. CASE ResizeVolume
  <2>1. CASE mem.size < sts.claim \/ pod[mem.next] = "none"
      BY <1>0, <1>3, <2>1, SMTT(30) DEF TypeOK, ResizeVolume, Done, Idle
  <2>2. CASE ~(mem.size < sts.claim \/ pod[mem.next] = "none")
    <3>1. mem.next + 1 \in Count
        BY <1>3, LargestBounds, SMTT(30) DEF TypeOK, ResizeVolume, Count
    <3>2. mem' \in [want : Replica \cup {1}, size : Size \cup {0}, next : Count, target : Count]
        BY <1>3, <2>2, <3>1, SMTT(30) DEF TypeOK, ResizeVolume
    <3>3. pod' \in [Pod -> Stages]
        BY <1>3, <2>2 DEF TypeOK, ResizeVolume, Stages
    <3> QED BY <1>3, <2>2, <3>2, <3>3 DEF TypeOK, ResizeVolume
  <2> QED BY <2>1, <2>2
<1>4. CASE ResizeDeletesStatefulSet
    BY <1>0, <1>4 DEF TypeOK, ResizeDeletesStatefulSet
<1>5. CASE ReconcileEtcd
  <2>1. NextReplicas(mem.want) \in Count /\ Claim(mem.size) \in Nat
    <3>1. mem.want \in Replica \cup {1} /\ mem.size \in Size \cup {0}
        BY DEF TypeOK
    <3>2. NextReplicas(mem.want) \in 1..Largest
        BY <3>1, NextBounds
    <3>3. \A s \in Size \cup {0} : s \in Nat
        BY SMTT(30)
    <3>4. Claim(mem.size) \in Nat
        BY <3>1, <3>3 DEF Claim
    <3> QED BY <3>2, <3>4, LargestBounds, SMTT(30) DEF Count
  <2>2. sts' \in StatefulSet
      BY <1>0, <1>5, <2>1 DEF TypeOK, ReconcileEtcd, reconcileEtcdStatefulSet,
                              generateEtcdStatefulSet, StatefulSet, NoStatefulSet
  <2>3. leapt' \in BOOLEAN
      BY <1>5 DEF TypeOK, ReconcileEtcd
  <2> QED BY <1>0, <1>5, <2>2, <2>3 DEF TypeOK, ReconcileEtcd, Done, Idle
<1> QED BY <1>1, <1>2, <1>3, <1>4, <1>5 DEF ControllerStep

(* A step of the environment that stops pods or changes the spec.            *)
LEMMA BudgetType ==
    ASSUME TypeOK, NEW kind, Disturb(kind) \/ UNCHANGED budget
    PROVE  budget' \in 0..MaxDisturbances
BY SMTT(30) DEF TypeOK, Disturb

LEMMA MoveType ==
    ASSUME TypeOK, NEW i \in Pod, NEW stage \in Stages, Move(i, stage)
    PROVE  pod' \in [Pod -> Stages]
BY DEF TypeOK, Move

(* A pod starts with the members of its template: as many as the StatefulSet *)
(* then had replicas.                                                        *)
LEMMA InitialClusterType ==
    ASSUME NEW n \in Count
    PROVE  initialCluster(n) \in SUBSET Pod
BY LargestBounds, SMTT(30) DEF initialCluster, Count, Pod

LEMMA PodType == \A i \in Pod : TypeOK /\ PodStep(i) => TypeOK'
<1> SUFFICES ASSUME NEW i \in Pod, TypeOK, PodStep(i) PROVE TypeOK'
    OBVIOUS
<1>0. {"start", "replace", "add", "touch", "init", "up"} \subseteq Stages
    BY DEF Stages
<1>1. CASE InitFindsData(i)
  <2>1. pod' \in [Pod -> Stages]
      BY <1>0, <1>1, MoveType DEF InitFindsData
  <2> QED BY <1>1, <2>1 DEF TypeOK, InitFindsData
<1>2. CASE InitListsMembers(i)
  <2>1. PICK c \in Cluster : Move(i, AfterList(i, c))
      BY <1>2 DEF InitListsMembers
  <2>2. AfterList(i, c) \in Stages
      BY <1>0 DEF AfterList
  <2>3. pod' \in [Pod -> Stages]
      BY <2>1, <2>2, MoveType
  <2> QED BY <1>2, <2>3 DEF TypeOK, InitListsMembers
<1>3. CASE InitFindsNoCluster(i)
  <2>1. pod' \in [Pod -> Stages]
      BY <1>0, <1>3, MoveType DEF InitFindsNoCluster
  <2>2. budget' \in 0..MaxDisturbances
      BY <1>3, BudgetType DEF InitFindsNoCluster
  <2> QED BY <1>3, <2>1, <2>2 DEF TypeOK, InitFindsNoCluster
<1>4. CASE InitReplaces(i)
  <2>1. pod' \in [Pod -> Stages]
      BY <1>0, <1>4, MoveType DEF InitReplaces
  <2>2. members' \in [Cluster -> SUBSET Pod]
      BY <1>4, SMTT(30) DEF TypeOK, InitReplaces
  <2> QED BY <1>4, <2>1, <2>2 DEF TypeOK, InitReplaces
<1>5. CASE InitAdds(i)
  <2>1. pod' \in [Pod -> Stages]
      BY <1>0, <1>5, MoveType DEF InitAdds
  <2>2. members' \in [Cluster -> SUBSET Pod]
      BY <1>5, SMTT(30) DEF TypeOK, InitAdds
  <2> QED BY <1>5, <2>1, <2>2 DEF TypeOK, InitAdds
<1>6. CASE InitMarks(i)
  <2>1. pod' \in [Pod -> Stages]
      BY <1>0, <1>6, MoveType DEF InitMarks
  <2> QED BY <1>6, <2>1 DEF TypeOK, InitMarks
<1>7. CASE InitFails(i)
  <2>1. pod' \in [Pod -> Stages]
      BY <1>0, <1>7, MoveType DEF InitFails
  <2>2. budget' \in 0..MaxDisturbances
      BY <1>7, BudgetType DEF InitFails
  <2> QED BY <1>7, <2>1, <2>2 DEF TypeOK, InitFails
<1>8. CASE Restart(i)
  <2>1. pod' \in [Pod -> Stages]
      BY <1>0, <1>8, MoveType DEF Restart
  <2> QED BY <1>8, <2>1 DEF TypeOK, Restart
<1>9. CASE Bootstrap(i)
  <2>1. pod' \in [Pod -> Stages]
      BY <1>0, <1>9, MoveType DEF Bootstrap
  <2>2. boot[i] \in Count /\ initialCluster(boot[i]) \in SUBSET Pod
      BY InitialClusterType DEF TypeOK
  <2>3. members' \in [Cluster -> SUBSET Pod]
      BY <1>9, <2>2 DEF TypeOK, Bootstrap
  <2>4. data' \in [Pod -> Count]
      BY <1>9, <2>2 DEF TypeOK, Bootstrap
  <2> QED BY <1>9, <2>1, <2>3, <2>4 DEF TypeOK, Bootstrap
<1>10. CASE JoinCluster(i)
  <2>1. pod' \in [Pod -> Stages]
      BY <1>0, <1>10, MoveType DEF JoinCluster
  <2>2. data' \in [Pod -> Count]
      BY <1>10, LargestBounds, SMTT(30) DEF TypeOK, JoinCluster, Cluster, Count
  <2> QED BY <1>10, <2>1, <2>2 DEF TypeOK, JoinCluster
<1> QED BY <1>1, <1>2, <1>3, <1>4, <1>5, <1>6, <1>7, <1>8, <1>9, <1>10 DEF PodStep

LEMMA NextType == TypeOK /\ [NextScaleDown]_vars => TypeOK'
<1> SUFFICES ASSUME TypeOK, [NextScaleDown]_vars PROVE TypeOK'
    OBVIOUS
<1> USE DEF podVars
<1>1. CASE ControllerStep
    BY <1>1, ControllerType
<1>2. CASE Crash
  <2>1. budget' \in 0..MaxDisturbances
      BY <1>2, BudgetType DEF Crash
  <2>2. 0 \in Count
      BY LargestBounds, SMTT(30) DEF Count
  <2> QED BY <1>2, <2>1, <2>2 DEF TypeOK, Crash, Done, Goto, Idle
<1>3. CASE ReportStatus
  <2>1. /\ Cardinality({i \in Pod : pod[i] # "none"}) \in Count
        /\ Cardinality({i \in Pod : Ready(i)}) \in Count
      BY PodCount
  <2> QED BY <1>3, <2>1 DEF TypeOK, ReportStatus, StatefulSet
<1>4. CASE Resize
  <2>1. budget' \in 0..MaxDisturbances
      BY <1>4, BudgetType DEF Resize
  <2> QED BY <1>4, <2>1 DEF TypeOK, Resize
<1>5. ASSUME NEW kind, NEW n \in Replica, Scale(kind, n) PROVE TypeOK'
  <2>1. budget' \in 0..MaxDisturbances
      BY <1>5, BudgetType DEF Scale
  <2> QED BY <1>5, <2>1 DEF TypeOK, Scale
<1>6. ASSUME NEW i \in Pod, CreatePod(i) PROVE TypeOK'
  <2>1. sts.replicas \in Count
      BY DEF TypeOK, StatefulSet
  <2> QED BY <1>6, <2>1 DEF TypeOK, CreatePod, Stages
<1>7. ASSUME NEW i \in Pod, PodStep(i) PROVE TypeOK'
    BY <1>7, PodType
<1>8. ASSUME NEW i \in Pod, StopPod(i), budget' \in 0..MaxDisturbances PROVE TypeOK'
    BY <1>8 DEF TypeOK, StopPod, Stages
<1>9. ASSUME NEW i \in Pod, UpdatePod(i) \/ RemovePod(i) PROVE TypeOK'
  <2>1. StopPod(i) /\ budget' \in 0..MaxDisturbances
      BY <1>9 DEF UpdatePod, RemovePod, TypeOK
  <2> QED BY <1>8, <2>1
<1>10. ASSUME NEW i \in Pod, PodFails(i) PROVE TypeOK'
  <2>1. budget' \in 0..MaxDisturbances
      BY <1>10, BudgetType DEF PodFails
  <2> QED BY <1>8, <1>10, <2>1 DEF PodFails
<1>11. CASE UNCHANGED vars
    BY <1>11 DEF TypeOK, vars
<1> QED BY <1>1, <1>2, <1>3, <1>4, <1>5, <1>6, <1>7, <1>9, <1>10, <1>11
        DEF NextScaleDown, Next

(* What is proved of SpecScaleDown holds of Spec.                            *)
LEMMA SpecIsCovered == Spec => SpecScaleDown
<1>1. [Next]_vars => [NextScaleDown]_vars
    BY DEF NextScaleDown
<1> QED BY <1>1, PTL DEF Spec, SpecScaleDown

(* The state stays well typed: a pod is only ever started with as many       *)
(* members as calculateDesiredReplicas allows, and every member list is one  *)
(* of pods (reconcileEtcd, the init script).                                 *)
THEOREM EtcdTypeCorrect == SpecScaleDown => []TypeOK
<1> QED BY InitType, NextType, PTL DEF SpecScaleDown

----------------------------------------------------------------------------
(* The store grows one member at a time.                                     *)

(* What reconcileEtcdStatefulSet does to a StatefulSet that is there: when   *)
(* it asks for more replicas it asks for one more, and had every one of the  *)
(* present ones reported ready.                                              *)
LEMMA GrowsByOne ==
    ASSUME TypeOK, ReconcileEtcd, sts.exists, sts'.replicas > sts.replicas
    PROVE  sts'.replicas = sts.replicas + 1 /\ sts.readyReplicas >= sts.replicas
<1>1. sts.replicas \in Nat /\ sts.readyReplicas \in Nat
    BY LargestBounds, SMTT(30) DEF TypeOK, StatefulSet, Count
<1>2. calculateDesiredReplicas(mem.want) \in 1..Largest
    BY DesiredBounds DEF TypeOK
<1>3. sts' = [sts EXCEPT !.replicas = NextReplicas(mem.want)] /\ PreviousMemberReady(mem.want)
    BY <1>1, SMTT(30) DEF ReconcileEtcd, reconcileEtcdStatefulSet
<1>4. sts'.replicas = NextReplicas(mem.want)
    BY <1>3 DEF TypeOK, StatefulSet
<1>5. NextReplicas(mem.want) = sts.replicas + 1
    BY <1>1, <1>2, <1>4, LargestBounds DEF NextReplicas
<1> QED BY <1>1, <1>3, <1>4, <1>5, SMTT(30) DEF PreviousMemberReady

LEMMA StepGrowsByOne ==
    ASSUME TypeOK, [NextScaleDown]_vars,
           sts.exists, sts'.exists, sts'.replicas > sts.replicas
    PROVE  sts'.replicas = sts.replicas + 1 /\ sts.readyReplicas >= sts.replicas
<1>1. sts.replicas \in Nat
    BY LargestBounds, SMTT(30) DEF TypeOK, StatefulSet, Count
<1>2. sts' # sts
    BY <1>1, SMTT(30)
<1>3. ~ReportStatus
  <2>1. ASSUME NEW m, NEW n, sts' = [sts EXCEPT !.statusReplicas = m, !.readyReplicas = n]
        PROVE  sts'.replicas = sts.replicas
      BY <2>1 DEF TypeOK, StatefulSet
  <2>2. ReportStatus => sts'.replicas = sts.replicas
      BY <2>1 DEF ReportStatus
  <2> QED BY <1>1, <2>2, SMTT(30)
<1>4. ~ResizeDeletesStatefulSet
    BY SMTT(30) DEF ResizeDeletesStatefulSet, NoStatefulSet
<1>5. ReconcileEtcd
    BY <1>2, <1>3, <1>4
       DEF NextScaleDown, Next, ControllerStep, ReconcilePVC, ResizeStops, ResizeVolume, Crash,
           Resize, Scale, CreatePod, UpdatePod, RemovePod, StopPod, PodFails, PodStep,
           InitFindsData, InitListsMembers, InitFindsNoCluster, InitReplaces, InitAdds,
           InitMarks, InitFails, Restart, Bootstrap, JoinCluster, vars
<1> QED BY <1>5, GrowsByOne

(* An existing StatefulSet gains at most one replica at a time, and only     *)
(* when every replica it had was reported ready, whatever replica counts are *)
(* asked for and however often (reconcileEtcdStatefulSet).                   *)
THEOREM EtcdGrowsOneAtATime == SpecScaleDown => OneMoreAtATime
<1>1. TypeOK /\ [NextScaleDown]_vars =>
        [sts.exists /\ sts'.exists /\ sts'.replicas > sts.replicas =>
            /\ sts'.replicas = sts.replicas + 1
            /\ sts.readyReplicas >= sts.replicas]_vars
    BY StepGrowsByOne
<1> QED BY <1>1, EtcdTypeCorrect, PTL DEF SpecScaleDown, OneMoreAtATime

----------------------------------------------------------------------------
(* There is one store.                                                       *)

(* What reconcileEtcd wants in the end, for the Cluster as it was read last. *)
Desired(n) == IF n > 1 THEN OddReplicas(n) ELSE 1
Asked == Desired(IF pc = "idle" THEN want ELSE mem.want)

(* A volume that was ever used is claimed.                                   *)
PodsOK ==
    /\ \A i \in Pod : /\ pod[i] # "none" \/ data[i] # 0 => Claimed(i)
                      /\ pod[i] = "up" => data[i] # 0
    /\ \A c \in Cluster : members[c] # {} => \E i \in Pod : Claimed(i)

(* Pods were created for no more replicas than there are and are asked for,  *)
(* and when all replicas are reported ready, all of them have data.          *)
Sizes ==
    /\ ~sts.exists => sts = NoStatefulSet
    /\ sts.exists =>
          /\ \A i \in Pod : Claimed(i) => i < sts.replicas
          /\ sts.replicas \in 1..Asked
          /\ sts.statusReplicas <= sts.replicas /\ sts.readyReplicas <= sts.replicas
          /\ sts.readyReplicas = sts.replicas => \A i \in Pod : i < sts.replicas => data[i] # 0
    /\ \A i \in Pod : Claimed(i) => i < Asked
    /\ pc # "idle" => mem.want <= want

(* The store is the cluster that the first b pods found.  Beyond them a pod  *)
(* is created only when all before it have data; so one that founds a        *)
(* cluster of its own is alone in it.                                        *)
Founded(b) ==
    /\ \A i \in Pod : Claimed(i) => b <= Asked
    /\ sts.exists => \/ sts.replicas = b
                     \/ sts.replicas > b /\ \A i \in Pod : i + 1 < sts.replicas => data[i] # 0
    /\ \A i \in Pod : Claimed(i) /\ i >= b => \A j \in Pod : j < i => data[j] # 0
    /\ \A i \in Pod : Claimed(i) /\ data[i] = 0 => boot[i] = IF i < b THEN b ELSE i + 1
    /\ \A i \in Pod : data[i] \in {0, b} \/ (i >= b /\ data[i] = i + 1)
    /\ \A c \in Cluster : \/ c = b \/ members[c] = {}
                          \/ c > b /\ members[c] = initialCluster(c) /\ data[c - 1] = c

Store == PodsOK /\ Sizes /\ \E b \in Cluster : Founded(b)

LEMMA Numbers ==
    /\ Largest \in Nat \ {0}
    /\ Pod \subseteq Nat /\ \A i \in Nat : i \in Pod <=> i < Largest
    /\ Cluster \subseteq Nat \ {0} /\ \A c \in Nat : c \in Cluster <=> c # 0 /\ c <= Largest
    /\ Count = Cluster \cup {0}
BY LargestBounds, SMTT(30) DEF Pod, Cluster, Count

LEMMA Counts == Replica \cup {1} \subseteq Nat \ {0}
BY SMTT(30)

LEMMA FirstPods ==
    ASSUME NEW n \in Nat
    PROVE  IsFiniteSet(0..(n - 1)) /\ Cardinality(0..(n - 1)) = n
<1>1. n - 1 \in Int /\ 0 \in Int
    BY SMTT(30)
<1> QED BY <1>1, FS_Interval, SMTT(30)

LEMMA DesiredIsMonotone ==
    ASSUME NEW m \in Replica \cup {1}, NEW n \in Replica \cup {1}
    PROVE  Desired(n) \in Cluster /\ (m <= n => Desired(m) <= Desired(n))
<1>1. m \in Nat \ {0} /\ n \in Nat \ {0} /\ (n > 1 => n \in Replica)
    BY SMTT(30)
<1>2. Desired(n) \in Cluster
    BY <1>1, LargestBounds, SMTT(30) DEF Desired, Cluster
<1>3. m <= n => Desired(m) <= Desired(n)
    BY <1>1, OddIsMonotone, SMTT(30) DEF Desired
<1> QED BY <1>2, <1>3

LEMMA AskedType == (TypeOK => Asked \in Cluster) /\ (TypeOK' => Asked' \in Cluster)
<1>1. TypeOK => (IF pc = "idle" THEN want ELSE mem.want) \in Replica \cup {1}
    BY DEF TypeOK
<1>2. TypeOK' => (IF pc' = "idle" THEN want' ELSE mem'.want) \in Replica \cup {1}
    BY DEF TypeOK
<1> QED BY <1>1, <1>2, DesiredIsMonotone DEF Asked

LEMMA InitStore == Init => Store
<1> SUFFICES ASSUME Init PROVE Store
    OBVIOUS
<1>1. \A i \in Pod : boot[i] = 0 /\ data[i] = 0 /\ pod[i] = "none"
    BY DEF Init
<1>2. /\ sts = NoStatefulSet /\ ~sts.exists /\ pc = "idle"
      /\ \A c \in Cluster : members[c] = {}
    BY DEF Init, NoStatefulSet
<1>3. PodsOK /\ Sizes
    BY <1>1, <1>2 DEF PodsOK, Sizes, Claimed
<1>4. 1 \in Cluster /\ Founded(1)
    BY <1>1, <1>2, LargestBounds, SMTT(30) DEF Founded, Claimed, Cluster
<1> QED BY <1>3, <1>4 DEF Store

(* A step that leaves the volumes and the member lists alone, and starts no  *)
(* pod that was not there.                                                   *)
LEMMA StoreFrame ==
    ASSUME TypeOK, TypeOK', Store, UNCHANGED <<boot, data, members>>,
           sts' = sts \/ sts' = NoStatefulSet, Asked <= Asked', pc' # "idle" => mem'.want <= want',
           \A i \in Pod : pod'[i] # "none" => pod[i] # "none" /\ (pod'[i] = "up" => data[i] # 0)
    PROVE  Store'
<1>0. Asked \in Nat /\ Asked' \in Nat /\ Pod \subseteq Nat /\ Cluster \subseteq Nat
    BY AskedType, Numbers
<1>1. PodsOK'
    BY DEF Store, PodsOK, Claimed
<1>2. Sizes'
  <2>1. CASE sts' = sts
    <3>1. sts.exists => sts.replicas \in Nat /\ sts.statusReplicas \in Nat
        BY LargestBounds, SMTT(30) DEF TypeOK, StatefulSet, Count
    <3> QED BY <1>0, <2>1, <3>1, SMTT(30) DEF Store, Sizes, Claimed
  <2>2. CASE sts' = NoStatefulSet
      BY <1>0, <2>2, SMTT(30) DEF Store, Sizes, Claimed, NoStatefulSet
  <2> QED BY <2>1, <2>2
<1>3. ASSUME NEW b \in Cluster, Founded(b) PROVE Founded(b)'
  <2>1. sts'.exists => sts' = sts
      BY SMTT(30) DEF NoStatefulSet
  <2>2. \A i \in Pod : Claimed(i)' => b <= Asked'
      BY <1>0, <1>3, SMTT(30) DEF Founded, Claimed
  <2> QED BY <1>3, <2>1, <2>2 DEF Founded, Claimed
<1> QED BY <1>1, <1>2, <1>3 DEF Store

(* A step that at most changes the reconciler asks for no less.              *)
LEMMA AsksForNoLess ==
    ASSUME TypeOK, TypeOK', Store, want' \in Nat, want <= want',
           \/ pc' = "idle"
           \/ pc # "idle" /\ mem'.want = mem.want
           \/ pc = "idle" /\ mem'.want = want
    PROVE  Asked <= Asked' /\ (pc' # "idle" => mem'.want <= want')
<1> DEFINE now == IF pc = "idle" THEN want ELSE mem.want
           then == IF pc' = "idle" THEN want' ELSE mem'.want
<1>0. want \in Replica /\ mem.want \in Replica \cup {1}
    BY DEF TypeOK
<1>1. now \in Replica \cup {1} /\ then \in Replica \cup {1}
    BY <1>0 DEF TypeOK
<1>2. pc # "idle" => mem.want <= want
    BY DEF Store, Sizes
<1>3. now <= then /\ (pc' # "idle" => mem'.want <= want')
  <2>1. want \in Nat /\ mem.want \in Nat
      BY <1>0, Counts
  <2>2. CASE pc' = "idle"
      BY <1>2, <2>1, <2>2, SMTT(30)
  <2>3. CASE pc' # "idle" /\ pc # "idle" /\ mem'.want = mem.want
      BY <1>2, <2>1, <2>3, SMTT(30)
  <2>4. CASE pc' # "idle" /\ pc = "idle" /\ mem'.want = want
      BY <2>1, <2>4, SMTT(30)
  <2> QED BY <2>2, <2>3, <2>4
<1>4. Asked = Desired(now) /\ Asked' = Desired(then)
    BY DEF Asked
<1> HIDE DEF now, then
<1> QED BY <1>1, <1>3, <1>4, DesiredIsMonotone

(* ReportStatus counts pods of the StatefulSet.                              *)
LEMMA ReportStore ==
    ASSUME TypeOK, TypeOK', Store, ReportStatus
    PROVE  Store'
<1> DEFINE n == sts.replicas
           there == {i \in Pod : pod[i] # "none"}
           ready == {i \in Pod : Ready(i)}
<1>0. /\ sts.exists /\ sts \in StatefulSet /\ n \in Nat \ {0} /\ n <= Largest /\ Largest \in Nat
      /\ Asked' = Asked /\ UNCHANGED <<want, pod, boot, data, members, pc, mem>>
    BY LargestBounds, AskedType, Numbers, SMTT(30)
       DEF ReportStatus, podVars, TypeOK, StatefulSet, Count, Asked, Store, Sizes
<1>1. IsFiniteSet(0..(n - 1)) /\ Cardinality(0..(n - 1)) = n
    BY <1>0, FirstPods
<1>2. ready \subseteq there /\ there \subseteq 0..(n - 1)
  <2>1. ASSUME NEW i \in Pod, Ready(i) PROVE pod[i] # "none"
      BY <2>1 DEF Ready
  <2>2. ASSUME NEW i \in Pod, pod[i] # "none" PROVE i \in 0..(n - 1)
      BY <1>0, <2>2, Numbers, SMTT(30) DEF Store, PodsOK, Sizes
  <2> QED BY <2>1, <2>2
<1>3. /\ Cardinality(there) <= n /\ Cardinality(ready) <= n
      /\ Cardinality(ready) = n => ready = 0..(n - 1)
  <2> DEFINE all == 0..(n - 1)
  <2>1. there \in SUBSET all /\ ready \in SUBSET all /\ IsFiniteSet(all) /\ Cardinality(all) = n
      BY <1>1, <1>2
  <2> HIDE DEF all, there, ready
  <2>2. Cardinality(there) <= Cardinality(all)
      BY <2>1, FS_Subset
  <2>3. Cardinality(ready) <= Cardinality(all) /\ (Cardinality(all) = Cardinality(ready) => all = ready)
      BY <2>1, FS_Subset
  <2> QED BY <2>1, <2>2, <2>3 DEF all
<1>4. /\ sts'.exists = sts.exists /\ sts'.replicas = n
      /\ sts'.statusReplicas = Cardinality(there) /\ sts'.readyReplicas = Cardinality(ready)
  <2>1. sts' = [sts EXCEPT !.statusReplicas = Cardinality(there), !.readyReplicas = Cardinality(ready)]
      BY DEF ReportStatus
  <2> HIDE DEF there, ready
  <2> QED BY <1>0, <2>1 DEF StatefulSet
<1>5. ASSUME NEW i \in Pod, i < n, sts'.readyReplicas = n PROVE data[i] # 0
  <2>1. i \in ready
      BY <1>0, <1>3, <1>4, <1>5, Numbers, SMTT(30)
  <2> QED BY <2>1 DEF Ready, Store, PodsOK
<1>6. Sizes'
  <2> HIDE DEF there, ready
  <2> QED BY <1>0, <1>3, <1>4, <1>5 DEF Store, Sizes, Claimed
<1>7. PodsOK'
    BY <1>0 DEF Store, PodsOK, Claimed
<1>8. ASSUME NEW b \in Cluster, Founded(b) PROVE Founded(b)'
    BY <1>0, <1>4, <1>8 DEF Founded, Claimed
<1> QED BY <1>6, <1>7, <1>8 DEF Store

(* reconcileEtcd adds a replica only when all of them have data, and unless  *)
(* it leaps it recreates the StatefulSet with as many as there were.         *)
LEMMA ReconcileStore ==
    ASSUME TypeOK, TypeOK', Store, ReconcileEtcd, ~leapt'
    PROVE  Store'
<1>0. /\ pc = "size" /\ pc' = "idle" /\ mem.want \in Replica \cup {1}
      /\ UNCHANGED <<want, pod, boot, data, members>>
      /\ sts' = reconcileEtcdStatefulSet /\ sts \in StatefulSet
    BY DEF ReconcileEtcd, podVars, Done, Goto, TypeOK
<1>1. Asked <= Asked' /\ Asked \in Nat \ {0} /\ Asked \in Cluster /\ Asked' \in Nat /\ Asked = Desired(mem.want)
  <2>1. want' \in Nat /\ want <= want'
      BY <1>0, Counts, SMTT(30) DEF TypeOK
  <2> QED BY <1>0, <2>1, AsksForNoLess, AskedType, Numbers DEF Asked
<1>2. PodsOK'
    BY <1>0 DEF Store, PodsOK, Claimed
<1>3. /\ sts.replicas \in Nat /\ sts.statusReplicas \in Nat /\ sts.readyReplicas \in Nat
      /\ Pod \subseteq Nat /\ Cluster \subseteq Nat \ {0}
    BY <1>0, Numbers, LargestBounds, SMTT(30) DEF StatefulSet, Count
<1>4. calculateDesiredReplicas(mem.want) = Asked
  <2>1. sts.statusReplicas <= Asked
      BY <1>1, <1>3, SMTT(30) DEF Store, Sizes, NoStatefulSet
  <2> QED BY <1>1, <1>3, <2>1, SMTT(30) DEF calculateDesiredReplicas, Desired
<1>5. CASE sts.exists
  <2>1. sts.replicas <= Asked /\ sts.replicas >= 1
      BY <1>1, <1>3, <1>5, SMTT(30) DEF Store, Sizes
  <2>2. \/ sts' = sts
        \/ /\ sts.readyReplicas = sts.replicas /\ sts.replicas + 1 <= Asked
           /\ sts' = [sts EXCEPT !.replicas = sts.replicas + 1]
    <3>1. NextReplicas(mem.want) = IF Asked > sts.replicas THEN sts.replicas + 1 ELSE Asked
        BY <1>4, <1>5 DEF NextReplicas
    <3>2. CASE Asked > sts.replicas /\ sts' # sts
      <4>1. /\ sts' = [sts EXCEPT !.replicas = sts.replicas + 1]
            /\ sts.replicas + 1 <= sts.readyReplicas + 1
          BY <1>0, <1>5, <3>1, <3>2 DEF reconcileEtcdStatefulSet, PreviousMemberReady
      <4>2. sts.readyReplicas <= sts.replicas
          BY <1>5 DEF Store, Sizes
      <4> QED BY <1>1, <1>3, <3>2, <4>1, <4>2, SMTT(30)
    <3>3. CASE ~(Asked > sts.replicas)
      <4>1. NextReplicas(mem.want) = sts.replicas
          BY <1>1, <1>3, <2>1, <3>1, <3>3, SMTT(30)
      <4>2. [sts EXCEPT !.replicas = sts.replicas] = sts
          BY <1>0 DEF StatefulSet
      <4> QED BY <1>0, <1>5, <4>1, <4>2 DEF reconcileEtcdStatefulSet
    <3> QED BY <3>2, <3>3
  <2>3. CASE sts' = sts
      BY <1>0, <1>1, <2>3, StoreFrame DEF Store, PodsOK
  <2>4. CASE /\ sts.readyReplicas = sts.replicas /\ sts.replicas + 1 <= Asked
             /\ sts' = [sts EXCEPT !.replicas = sts.replicas + 1]
    <3>1. /\ sts'.exists /\ sts'.replicas = sts.replicas + 1
          /\ sts'.statusReplicas = sts.statusReplicas /\ sts'.readyReplicas = sts.readyReplicas
        BY <1>0, <1>5, <2>4 DEF StatefulSet
    <3>2. \A i \in Pod : i < sts.replicas => data[i] # 0
        BY <1>5, <2>4 DEF Store, Sizes
    <3>3. Sizes'
      <4>1. sts'.replicas \in 1..Asked'
          BY <1>1, <1>3, <2>4, <3>1, SMTT(30)
      <4>2. \A i \in Pod : Claimed(i) => i < sts.replicas /\ sts.statusReplicas <= sts.replicas
          BY <1>5 DEF Store, Sizes
      <4>3. \A i \in Pod : Claimed(i)' => i < sts'.replicas /\ i < Asked'
          BY <1>0, <1>1, <1>3, <2>1, <3>1, <4>2, SMTT(30) DEF Claimed
      <4>4. sts'.statusReplicas <= sts'.replicas /\ sts'.readyReplicas < sts'.replicas
          BY <1>3, <1>5, <2>4, <3>1, SMTT(30) DEF Store, Sizes
      <4> QED BY <1>0, <1>3, <3>1, <4>1, <4>3, <4>4, SMTT(30) DEF Sizes
    <3>4. ASSUME NEW b \in Cluster, Founded(b) PROVE Founded(b)'
      <4>a. sts.replicas = b \/ sts.replicas > b
          BY <1>5, <3>4 DEF Founded
      <4>b. sts'.replicas > b
          BY <1>3, <3>1, <4>a, SMTT(30)
      <4>c. \A i \in Pod : i + 1 < sts.replicas + 1 => i < sts.replicas
          BY <1>3, SMTT(30)
      <4>1. sts'.replicas > b /\ \A i \in Pod : i + 1 < sts'.replicas => data'[i] # 0
          BY <1>0, <3>1, <3>2, <4>b, <4>c
      <4>2. \A i \in Pod : Claimed(i)' => b <= Asked'
        <5>1. b <= Asked => b <= Asked'
            BY <1>1, <1>3, <3>4, SMTT(30)
        <5> QED BY <1>0, <3>4, <5>1 DEF Founded, Claimed
      <4> QED BY <1>0, <3>4, <4>1, <4>2 DEF Founded, Claimed
    <3> QED BY <1>2, <3>3, <3>4 DEF Store
  <2> QED BY <2>2, <2>3, <2>4
<1>6. CASE ~sts.exists
  <2>1. /\ sts'.exists /\ sts'.replicas = Asked
        /\ sts'.statusReplicas = 0 /\ sts'.readyReplicas = 0
    <3>1. NextReplicas(mem.want) = Asked
        BY <1>4, <1>6 DEF NextReplicas
    <3> QED BY <1>0, <1>6, <3>1 DEF reconcileEtcdStatefulSet, generateEtcdStatefulSet, NoStatefulSet
  <2>2. Sizes'
      BY <1>0, <1>1, <1>3, <2>1, SMTT(30) DEF Store, Sizes, Claimed
  <2>3. \A i, j \in Pod : Claimed(i) /\ j < Asked => Claimed(j)
      BY <1>6, <2>1 DEF ReconcileEtcd
  <2>4. CASE \A i \in Pod : ~Claimed(i)
    <3>1. /\ \A i \in Pod : data[i] = 0
          /\ \A c \in Cluster : members[c] = {}
        BY <2>4 DEF Store, PodsOK
    <3>2. PICK b \in Cluster : b = Asked
        BY <1>1
    <3>3. Founded(b)'
        BY <1>0, <2>1, <2>4, <3>1, <3>2 DEF Founded, Claimed
    <3> QED BY <1>2, <2>2, <3>3 DEF Store
  <2>5. CASE \E i \in Pod : Claimed(i)
    <3>1. PICK b \in Cluster : Founded(b)
        BY DEF Store
    <3>2. b <= Asked
        BY <2>5, <3>1 DEF Founded
    <3>3. Asked - 1 \in Pod /\ Claimed(Asked - 1)
        BY <1>1, <2>3, <2>5, Numbers, SMTT(30)
    <3>4. \/ sts'.replicas = b
          \/ sts'.replicas > b /\ \A i \in Pod : i + 1 < sts'.replicas => data'[i] # 0
        BY <1>0, <1>1, <1>3, <2>1, <3>1, <3>2, <3>3, SMTT(30) DEF Founded
    <3>5. \A i \in Pod : Claimed(i)' => b <= Asked'
        BY <1>0, <1>1, <1>3, <3>2, SMTT(30) DEF Claimed
    <3>6. Founded(b)'
        BY <1>0, <3>1, <3>4, <3>5 DEF Founded, Claimed
    <3> QED BY <1>2, <2>2, <3>6 DEF Store
  <2> QED BY <2>4, <2>5
<1> QED BY <1>5, <1>6

(* The StatefulSet controller creates a pod.                                 *)
LEMMA CreateStore ==
    ASSUME TypeOK, TypeOK', Store, NEW i \in Pod, CreatePod(i)
    PROVE  Store'
<1>0. /\ sts.exists /\ i < sts.replicas /\ UNCHANGED <<want, sts, data, members, pc, mem>>
      /\ Asked' = Asked /\ Asked \in Nat /\ sts.replicas \in Nat /\ sts.replicas <= Asked
      /\ i \in Nat /\ Pod \subseteq Nat /\ Cluster \subseteq Nat \ {0}
  <2>1. sts.replicas \in 1..Asked
      BY DEF CreatePod, Store, Sizes
  <2>2. sts.exists /\ i < sts.replicas /\ UNCHANGED <<want, sts, data, members, pc, mem>>
      BY DEF CreatePod
  <2>3. Asked' = Asked
      BY <2>2 DEF Asked
  <2>4. Asked \in Nat
      BY AskedType, Numbers
  <2> QED BY <2>1, <2>2, <2>3, <2>4, Numbers, SMTT(30)
<1>1. \A k \in Pod : boot'[k] = IF k = i THEN sts.replicas ELSE boot[k]
    BY DEF CreatePod, TypeOK
<1>2. \A k \in Pod : pod'[k] = IF k = i THEN "init" ELSE pod[k]
    BY DEF CreatePod, TypeOK
<1>3. \A k \in Pod : Claimed(k)' <=> k = i \/ Claimed(k)
    BY <1>0, <1>1, SMTT(30) DEF Claimed
<1>4. PodsOK'
    BY <1>0, <1>2, <1>3 DEF Store, PodsOK
<1>5. Sizes'
    BY <1>0, <1>3, SMTT(30) DEF Store, Sizes
<1>6. ASSUME NEW b \in Cluster, Founded(b) PROVE Founded(b)'
  <2>1. \/ sts.replicas = b
        \/ sts.replicas > b /\ \A k \in Pod : k + 1 < sts.replicas => data[k] # 0
      BY <1>0, <1>6 DEF Founded
  <2>2. b <= Asked'
      BY <1>0, <2>1, SMTT(30)
  <2>3. ASSUME NEW k \in Pod, Claimed(k)', k >= b, NEW j \in Pod, j < k PROVE data'[j] # 0
    <3>1. CASE Claimed(k)
        BY <1>0, <1>6, <2>3, <3>1 DEF Founded
    <3>2. CASE k = i
        BY <1>0, <2>1, <2>3, <3>2, SMTT(30)
    <3> QED BY <1>3, <2>3, <3>1, <3>2
  <2>4. ASSUME NEW k \in Pod, Claimed(k)', data'[k] = 0 PROVE boot'[k] = IF k < b THEN b ELSE k + 1
    <3>1. CASE k # i
        BY <1>0, <1>1, <1>3, <1>6, <2>4, <3>1 DEF Founded
    <3>2. CASE k = i
        BY <1>0, <1>1, <2>1, <2>4, <3>2, SMTT(30)
    <3> QED BY <3>1, <3>2
  <2> QED BY <1>0, <1>6, <2>1, <2>2, <2>3, <2>4 DEF Founded
<1> QED BY <1>4, <1>5, <1>6 DEF Store

(* A cluster other than the store has at most the one member with data that  *)
(* founded it, and others without.                                           *)
LEMMA OthersAreAlone ==
    ASSUME TypeOK, NEW b \in Cluster, Founded(b), NEW c \in Cluster, c # b,
           NEW S \in SUBSET Started(c)
    PROVE  /\ 2 * Cardinality(S) <= Cardinality(members[c])
           /\ members[c] # {} => S \subseteq {c - 1} /\ members[c] = initialCluster(c) /\ data[c - 1] = c
<1>0. b \in Nat \ {0} /\ c \in Nat \ {0}
    BY Numbers
<1>1. CASE members[c] = {}
  <2>1. S = {}
      BY <1>1 DEF Started
  <2> QED BY <1>1, <2>1, FS_EmptySet, SMTT(30)
<1>2. CASE members[c] # {}
  <2>1. c > b /\ members[c] = 0..(c - 1) /\ data[c - 1] = c
      BY <1>2 DEF Founded, initialCluster
  <2>2. ASSUME NEW i \in S PROVE i = c - 1
    <3>1. i \in Pod /\ data[i] = c
        BY DEF Started, TypeOK
    <3>2. i >= b /\ c = i + 1
        BY <1>0, <3>1 DEF Founded
    <3> QED BY <3>1, <3>2, Numbers, SMTT(30)
  <2>3. Cardinality(members[c]) = c
      BY <1>0, <2>1, FirstPods
  <2>4. S \in SUBSET {c - 1} /\ IsFiniteSet({c - 1}) /\ Cardinality({c - 1}) = 1
      BY <2>2, FS_Singleton
  <2>5. Cardinality(S) <= 1 /\ Cardinality(S) \in Nat
    <3> DEFINE one == {c - 1}
    <3> HIDE DEF one
    <3>1. S \in SUBSET one /\ IsFiniteSet(one) /\ Cardinality(one) = 1
        BY <2>4 DEF one
    <3> QED BY <3>1, FS_Subset, FS_CardinalityType
  <2> QED BY <1>0, <2>1, <2>3, <2>4, <2>5, SMTT(30) DEF initialCluster
<1> QED BY <1>1, <1>2

LEMMA OnlyTheStoreWorks ==
    ASSUME TypeOK, NEW b \in Cluster, Founded(b), NEW c \in Cluster, Functional(c) \/ Held(c)
    PROVE  c = b
<1> SUFFICES ASSUME c # b PROVE FALSE
    OBVIOUS
<1>1. Running(c) \in SUBSET Started(c) /\ Started(c) \in SUBSET Started(c) /\ members[c] \in SUBSET Pod
    BY DEF Running, Started, TypeOK
<1>2. /\ 2 * Cardinality(Running(c)) <= Cardinality(members[c])
      /\ 2 * Cardinality(Started(c)) <= Cardinality(members[c])
    BY <1>1, OthersAreAlone
<1>3. /\ Cardinality(Running(c)) \in Nat /\ Cardinality(Started(c)) \in Nat
      /\ Cardinality(members[c]) \in Nat
  <2>1. Running(c) \in SUBSET Pod /\ Started(c) \in SUBSET Pod
      BY <1>1 DEF Started
  <2>2. Count \subseteq Nat
      BY Numbers, SMTT(30)
  <2> QED BY <1>1, <2>1, <2>2, PodCount
<1> QED BY <1>2, <1>3, SMTT(30) DEF Functional, Held

(* The members of the store change.                                          *)
LEMMA MembersStore ==
    ASSUME TypeOK, TypeOK', Store, NEW i \in Pod, InitReplaces(i) \/ InitAdds(i)
    PROVE  Store'
<1>1. PICK c \in Cluster : Functional(c) /\ \E S : members' = [members EXCEPT ![c] = S]
    BY DEF InitReplaces, InitAdds
<1>2. /\ UNCHANGED <<want, sts, boot, data, pc, mem>> /\ Asked' = Asked
      /\ \A k \in Pod : pod'[k] = pod[k] \/ (pod[k] # "none" /\ pod'[k] # "up")
  <2>1. UNCHANGED <<want, sts, boot, data, pc, mem>>
      BY DEF InitReplaces, InitAdds
  <2>2. pod[i] \in {"replace", "add"} /\ (Move(i, "add") \/ Move(i, "touch"))
      BY DEF InitReplaces, InitAdds
  <2>3. \A k \in Pod : pod'[k] = pod[k] \/ (k = i /\ pod'[k] \in {"add", "touch"})
      BY <2>2 DEF Move, TypeOK
  <2>4. \A k \in Pod : pod'[k] = pod[k] \/ (pod[k] # "none" /\ pod'[k] # "up")
      BY <2>2, <2>3
  <2>5. Asked' = Asked
      BY <2>1 DEF Asked
  <2> QED BY <2>1, <2>4, <2>5
<1>3. \A d \in Cluster \ {c} : members'[d] = members[d]
    BY <1>1 DEF TypeOK
<1>4. members[c] # {}
  <2>1. ASSUME members[c] = {} PROVE FALSE
    <3>1. Running(c) = {} /\ Cardinality({}) = 0
        BY <2>1, FS_EmptySet DEF Running
    <3> QED BY <1>1, <2>1, <3>1, SMTT(30) DEF Functional
  <2> QED BY <2>1
<1>5. PodsOK'
  <2>1. \E k \in Pod : Claimed(k)
      BY <1>4 DEF Store, PodsOK
  <2> QED BY <1>2, <2>1 DEF Store, PodsOK, Claimed
<1>6. Sizes'
    BY <1>2 DEF Store, Sizes, Claimed
<1>7. ASSUME NEW b \in Cluster, Founded(b) PROVE Founded(b)'
  <2>1. c = b
      BY <1>1, <1>7, OnlyTheStoreWorks
  <2> QED BY <1>2, <1>3, <1>7, <2>1 DEF Founded, Claimed
<1> QED BY <1>5, <1>6, <1>7 DEF Store

(* A pod gets data: it founds the cluster of its template or joins one.      *)
LEMMA DataStore ==
    ASSUME TypeOK, TypeOK', Store, NEW i \in Pod, Bootstrap(i) \/ JoinCluster(i)
    PROVE  Store'
<1>0. /\ UNCHANGED <<want, sts, boot, pc, mem>> /\ Asked' = Asked
      /\ pod[i] = "start" /\ data[i] = 0 /\ Claimed(i)
      /\ Pod \subseteq Nat /\ Cluster \subseteq Nat \ {0} /\ Count = Cluster \cup {0}
  <2>1. UNCHANGED <<want, sts, boot, pc, mem>> /\ pod[i] = "start" /\ data[i] = 0
      BY DEF Bootstrap, JoinCluster
  <2>2. Claimed(i)
      BY <2>1 DEF Store, PodsOK
  <2> QED BY <2>1, <2>2, Numbers DEF Asked
<1>1. PICK c \in Cluster : data' = [data EXCEPT ![i] = c]
  <2>1. boot[i] \in Cluster
      BY <1>0 DEF Claimed, TypeOK
  <2> QED BY <2>1 DEF Bootstrap, JoinCluster
<1>2. \A k \in Pod : data'[k] = IF k = i THEN c ELSE data[k]
    BY <1>1 DEF TypeOK
<1>3. \A k \in Pod : pod'[k] = IF k = i THEN "up" ELSE pod[k]
    BY DEF Bootstrap, JoinCluster, Move, TypeOK
<1>4. \A k \in Pod : Claimed(k)' <=> Claimed(k)
    BY <1>0 DEF Claimed
<1>5. PodsOK'
    BY <1>0, <1>2, <1>3, <1>4 DEF Store, PodsOK
<1>6. Sizes'
    BY <1>0, <1>2, <1>4 DEF Store, Sizes
<1>7. ASSUME NEW b \in Cluster, Founded(b) PROVE Founded(b)'
  <2>1. \A d \in Cluster : \/ d = b \/ members[d] = {}
                           \/ d > b /\ members[d] = initialCluster(d) /\ data[d - 1] = d
      BY <1>7 DEF Founded
  <2>2. \A d \in Cluster : d > b => d - 1 \in Pod /\ d - 1 >= b
      BY <1>0, Numbers, SMTT(30)
  <2>3. /\ c = b \/ (i >= b /\ c = i + 1)
        /\ \A d \in Cluster : \/ d = b \/ members'[d] = {}
                              \/ d > b /\ members'[d] = initialCluster(d) /\ data'[d - 1] = d
    <3>1. CASE Bootstrap(i)
      <4>1. boot[i] = IF i < b THEN b ELSE i + 1
          BY <1>0, <1>7 DEF Founded
      <4>2. c = boot[i]
          BY <1>0, <1>1, <3>1, SMTT(30) DEF Bootstrap, TypeOK
      <4>3. \A d \in Cluster : members'[d] = IF d = c /\ members[d] = {} THEN initialCluster(d) ELSE members[d]
          BY <3>1, <4>2 DEF Bootstrap, TypeOK
      <4>4. c # b => i >= b /\ c = i + 1 /\ c > b /\ c - 1 = i
          BY <1>0, <4>1, <4>2, SMTT(30)
      <4>5. ASSUME NEW d \in Cluster, d # b, members'[d] # {}
            PROVE  d > b /\ members'[d] = initialCluster(d) /\ data'[d - 1] = d
        <5>1. CASE d = c /\ members[d] = {}
            BY <1>2, <4>3, <4>4, <4>5, <5>1
        <5>2. CASE ~(d = c /\ members[d] = {})
            BY <1>0, <1>2, <2>1, <2>2, <4>3, <4>5, <5>2
        <5> QED BY <5>1, <5>2
      <4> QED BY <4>4, <4>5
    <3>2. CASE JoinCluster(i)
      <4>1. i \in members[c] /\ UNCHANGED members
          BY <1>1, <3>2 DEF JoinCluster, TypeOK
      <4>2. c = b
        <5> SUFFICES ASSUME c # b PROVE FALSE
            OBVIOUS
        <5>1. c > b /\ i \in 0..(c - 1) /\ data[c - 1] = c
            BY <2>1, <4>1 DEF initialCluster
        <5>2. c - 1 \in Pod /\ c - 1 >= b /\ data[c - 1] # 0 /\ i < c - 1
            BY <1>0, <2>2, <5>1, SMTT(30)
        <5>3. Claimed(c - 1)
            BY <5>2 DEF Store, PodsOK
        <5> QED BY <1>0, <1>7, <5>2, <5>3 DEF Founded
      <4> QED BY <1>0, <1>2, <2>1, <2>2, <4>1, <4>2
    <3> QED BY <3>1, <3>2
  <2>4. /\ sts'.exists => \/ sts'.replicas = b
                          \/ /\ sts'.replicas > b
                             /\ \A k \in Pod : k + 1 < sts'.replicas => data'[k] # 0
        /\ \A k \in Pod : Claimed(k) /\ k >= b => \A j \in Pod : j < k => data'[j] # 0
      BY <1>0, <1>2, <1>7 DEF Founded
  <2>5. \A k \in Pod : Claimed(k) /\ data'[k] = 0 => boot[k] = IF k < b THEN b ELSE k + 1
      BY <1>0, <1>2, <1>7 DEF Founded
  <2>6. \A k \in Pod : data'[k] \in {0, b} \/ (k >= b /\ data'[k] = k + 1)
      BY <1>2, <1>7, <2>3 DEF Founded
  <2>7. \A k \in Pod : Claimed(k) => b <= Asked
      BY <1>7 DEF Founded
  <2> QED BY <1>0, <1>4, <2>3, <2>4, <2>5, <2>6, <2>7 DEF Founded
<1> QED BY <1>5, <1>6, <1>7 DEF Store

LEMMA NextStore == TypeOK /\ TypeOK' /\ Store /\ [Next]_vars /\ ~leapt' => Store'
<1> SUFFICES ASSUME TypeOK, TypeOK', Store, [Next]_vars, ~leapt' PROVE Store'
    OBVIOUS
<1> USE DEF podVars
<1>0. want \in Nat /\ want <= want
    BY Counts, SMTT(30) DEF TypeOK
<1>1. ASSUME UNCHANGED <<boot, data, members>>, sts' = sts \/ sts' = NoStatefulSet,
             want' \in Nat, want <= want',
             \/ pc' = "idle"
             \/ pc # "idle" /\ mem'.want = mem.want
             \/ pc = "idle" /\ mem'.want = want,
             \A i \in Pod : pod'[i] # "none" => pod[i] # "none" /\ (pod'[i] = "up" => data[i] # 0)
      PROVE  Store'
  <2>1. Asked <= Asked' /\ (pc' # "idle" => mem'.want <= want')
      BY <1>1, AsksForNoLess
  <2> QED BY <1>1, <2>1, StoreFrame
<1>2. \A i \in Pod : pod[i] = "up" => data[i] # 0
    BY DEF Store, PodsOK
<1>3. CASE ReconcilePVC \/ ResizeStops \/ ResizeDeletesStatefulSet \/ Crash \/ Resize \/ UNCHANGED vars
  <2>1. /\ UNCHANGED <<boot, data, members, want, pod>> /\ (sts' = sts \/ sts' = NoStatefulSet)
        /\ \/ pc' = "idle"
           \/ pc # "idle" /\ mem'.want = mem.want
           \/ pc = "idle" /\ mem'.want = want
      BY <1>3, SMTT(30) DEF ReconcilePVC, ResizeStops, ResizeDeletesStatefulSet, Crash, Resize, Done, Goto, vars
  <2> QED BY <1>0, <1>1, <1>2, <2>1
<1>4. CASE ResizeVolume
  <2>1. /\ UNCHANGED <<boot, data, members, want, sts>> /\ pc = "resize"
        /\ pc' = "idle" \/ mem'.want = mem.want
      BY <1>4 DEF ResizeVolume, Done, Goto, TypeOK
  <2>2. \A i \in Pod : pod'[i] # "none" => pod'[i] = pod[i]
      BY <1>4 DEF ResizeVolume, TypeOK
  <2> QED BY <1>0, <1>1, <1>2, <2>1, <2>2
<1>5. CASE ReconcileEtcd
    BY <1>5, ReconcileStore
<1>6. CASE ReportStatus
    BY <1>6, ReportStore
<1>7. ASSUME NEW n \in Replica, n > want, Scale("scaleUp", n) PROVE Store'
  <2>1. /\ UNCHANGED <<boot, data, members, pod, sts, pc, mem>> /\ want' = n
      BY <1>7 DEF Scale
  <2>2. n \in Nat /\ want <= n
      BY <1>0, <1>7, Counts, SMTT(30)
  <2> QED BY <1>1, <1>2, <2>1, <2>2
<1>8. ASSUME NEW i \in Pod, CreatePod(i) PROVE Store'
    BY <1>8, CreateStore
<1>9. ASSUME NEW i \in Pod, UpdatePod(i) \/ PodFails(i) PROVE Store'
  <2>1. UNCHANGED <<boot, data, members, want, sts, pc, mem>>
      BY <1>9 DEF UpdatePod, PodFails, StopPod
  <2>2. \A k \in Pod : pod'[k] # "none" => pod'[k] = pod[k]
      BY <1>9 DEF UpdatePod, PodFails, StopPod, TypeOK
  <2> QED BY <1>0, <1>1, <1>2, <2>1, <2>2
<1>10. ASSUME NEW i \in Pod, PodStep(i) PROVE Store'
  <2>1. CASE InitReplaces(i) \/ InitAdds(i)
      BY <2>1, MembersStore
  <2>2. CASE Bootstrap(i) \/ JoinCluster(i)
      BY <2>2, DataStore
  <2>3. CASE InitFindsData(i) \/ InitListsMembers(i) \/ InitFindsNoCluster(i) \/ InitMarks(i)
             \/ InitFails(i) \/ Restart(i)
    <3>1. UNCHANGED <<boot, data, members, want, sts, pc, mem>>
        BY <2>3 DEF InitFindsData, InitListsMembers, InitFindsNoCluster, InitMarks, InitFails, Restart
    <3>2. PICK stage : Move(i, stage) /\ (stage = "up" => data[i] # 0) /\ pod[i] # "none"
        BY <2>3 DEF InitFindsData, InitListsMembers, InitFindsNoCluster, InitMarks, InitFails, Restart,
                    AfterList
    <3>3. \A k \in Pod : pod'[k] = IF k = i THEN stage ELSE pod[k]
        BY <3>2 DEF Move, TypeOK
    <3> QED BY <1>0, <1>1, <1>2, <3>1, <3>2, <3>3
  <2> QED BY <1>10, <2>1, <2>2, <2>3 DEF PodStep
<1> QED BY <1>3, <1>4, <1>5, <1>6, <1>7, <1>8, <1>9, <1>10 DEF Next, ControllerStep

(* Once the StatefulSet leapt, it has leapt.                                 *)
LEMMA LeaptStays == [Next]_vars /\ leapt => leapt'
<1> SUFFICES ASSUME [Next]_vars, leapt PROVE leapt'
    OBVIOUS
<1>1. CASE ReconcileEtcd
    BY <1>1 DEF ReconcileEtcd
<1>2. CASE ~ReconcileEtcd
  <2>1. leapt' = leapt
      BY <1>2
         DEF Next, ControllerStep, ReconcilePVC, ResizeStops, ResizeVolume, ResizeDeletesStatefulSet,
             ReportStatus, Crash, Resize, Scale, CreatePod, UpdatePod, StopPod, PodFails, PodStep,
             InitFindsData, InitListsMembers, InitFindsNoCluster, InitReplaces, InitAdds,
             InitMarks, InitFails, Restart, Bootstrap, JoinCluster, vars
  <2> QED BY <2>1
<1> QED BY <1>1, <1>2

(* No second etcd cluster ever gets its data onto a majority of its members, *)
(* for every set of replica counts and whatever fails while pods bootstrap,  *)
(* join, roll or are resized, unless a resize recreates the StatefulSet with *)
(* more replicas than there were volumes (reconcileEtcdStatefulSet, the init *)
(* script).                                                                  *)
THEOREM OneStoreHolds == Spec => []OneStore
<1> DEFINE Inv == TypeOK /\ (leapt \/ Store)
<1>1. Init => Inv
    BY InitType, InitStore
<1>2. Inv /\ [Next]_vars => Inv'
  <2>1. TypeOK /\ [Next]_vars => TypeOK'
      BY NextType DEF NextScaleDown
  <2> QED BY <2>1, NextStore, LeaptStays
<1>3. Inv => OneStore
  <2> SUFFICES ASSUME TypeOK, Store, NEW c \in Cluster, NEW d \in Cluster, Held(c), Held(d) PROVE c = d
      BY DEF OneStore
  <2>1. PICK b \in Cluster : Founded(b)
      BY DEF Store
  <2> QED BY <2>1, OnlyTheStoreWorks
<1> HIDE DEF Inv
<1> QED BY <1>1, <1>2, <1>3, PTL DEF Spec
=============================================================================
