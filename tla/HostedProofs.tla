---------------------------- MODULE HostedProofs ----------------------------
(***************************************************************************)
(* Proofs about Hosted, for every set of modes, any number of revisions    *)
(* and any disturbances: what the deferred writes of the control plane     *)
(* controller tell Cluster API, that merge patches computed from old       *)
(* copies lose neither the address nor a deletion, and that the pods mount *)
(* only what exists.                                                       *)
(***************************************************************************)
EXTENDS Hosted, TLAPS

(* What no prover is named for goes to Zenon.                               *)
USE ZenonT(30)

----------------------------------------------------------------------------
(* The inductive invariant.                                                  *)

CHolds == [before : ControlPlane, after : ControlPlane, found : KmcType, endpoint : BOOLEAN, failed : BOOLEAN]
KHolds == [before : KmcType, after : KmcType, svc : BOOLEAN, kubeconfig : BOOLEAN,
           sts : [exists : BOOLEAN, up : BOOLEAN]]
LabelsOK ==
    /\ pcC \in {"idle", "delete", "certificates", "sync", "push", "address", "status", "cluster", "infra"}
    /\ pcK \in {"idle", "wait", "objects", "statefulset", "status", "delete"}

(* The endpoint is on the infrastructure cluster before it is on the         *)
(* Cluster, and there before the infrastructure is reported ready.           *)
InfraInv ==
    /\ endpoint \/ c.endpoint => infra.endpoint
    /\ pcC # "idle" /\ endpoint => c.endpoint
    /\ pcC = "infra" => endpoint = c.endpoint
    /\ infra.ready => endpoint

(* What a patch sends never takes the address away.                          *)
AddressInv ==
    /\ ~kmc.exists => kmc = NoKmc
    /\ pcC # "push" => c.found = NoKmc
    /\ c.found.address => c.after.address
    /\ pcK # "idle" => k.before.exists
    /\ k.before.address => k.after.address

(* No patch changes whether an object exists or is being deleted, and the    *)
(* Cluster is deleted only with its control plane.                           *)
SameLife(before, after) == after.exists = before.exists /\ after.deleting = before.deleting

Creates == pcC \in {"certificates", "sync", "push", "address"}

DeletionInv ==
    /\ SameLife(c.before, c.after) /\ SameLife(k.before, k.after)
    /\ kcp.deleting => kcp.finalizer
    /\ Creates => kcp.exists /\ kcp.finalizer
    /\ pcC = "delete" => kcp.deleting
    /\ kmc.deleting => (kcp.exists => kcp.deleting) /\ ~Creates

Live == kmc.exists /\ ~kmc.deleting
Exist(S) == \A o \in S : objects[o].exists
MayCreate == pcC \in {"certificates", "sync"} \/ (kcp.exists /\ ~kcp.deleting)
Nothing == ~sts.exists /\ pcK = "idle" /\ \A o \in Object : ~objects[o].exists
AppliedFor(m) ==
    m.manifests.added \cup (IF "etcdClient" \in m.certs THEN {"etcdCerts"} ELSE {})
AlwaysMounted ==
    {"config", "entrypoint", "telemetry"} \cup addMonitoringStack
        \cup (IF mode.storage = "nats" THEN {"nats"} ELSE {})

MountsInv ==
    /\ ~kmc.exists /\ MayCreate => Nothing
    /\ pcK = "delete" => ~Live
    /\ Live /\ mode.remote /\ ~Nothing => owner
    /\ Live => /\ Exist(AppliedFor(kmc))
               /\ pcK # "idle" => Exist(AppliedFor(k.after))
               /\ pcK = "statefulset" => Exist(AlwaysMounted)
               /\ sts.exists => Exist(MountedObjects(sts.template))
    /\ pcK = "objects" /\ mode.service = "LoadBalancer" => k.after.address

Inv == TypeOK /\ LabelsOK /\ InfraInv /\ AddressInv /\ DeletionInv /\ MountsInv

----------------------------------------------------------------------------
(* What a merge patch does to the fields of the two objects.                 *)

LEMMA PatchKmc ==
    ASSUME NEW current \in KmcType, NEW before \in KmcType, NEW after \in KmcType
    PROVE  /\ MergePatch(current, before, after) \in KmcType
           /\ \A f \in {"exists", "finalizer", "deleting", "hash", "manifests", "version", "address", "certs",
                        "ready", "conditions"} :
                  MergePatch(current, before, after)[f] = IF after[f] # before[f] THEN after[f] ELSE current[f]
<1> DEFINE new == MergePatch(current, before, after)
<1>1. DOMAIN current = {"exists", "finalizer", "deleting", "hash", "manifests", "version", "address", "certs",
                        "ready", "conditions"}
    BY DEF KmcType
<1>2. new = [f \in DOMAIN current |-> IF after[f] # before[f] THEN after[f] ELSE current[f]]
    BY DEF MergePatch
<1> HIDE DEF new
<1>3. \A f \in DOMAIN current : new[f] = IF after[f] # before[f] THEN after[f] ELSE current[f]
    BY <1>2
<1>4. new = [exists |-> new.exists, finalizer |-> new.finalizer, deleting |-> new.deleting, hash |-> new.hash,
             manifests |-> new.manifests, version |-> new.version, address |-> new.address, certs |-> new.certs,
             ready |-> new.ready, conditions |-> new.conditions]
    BY <1>1, <1>2
<1>5. /\ new.exists \in BOOLEAN /\ new.finalizer \in BOOLEAN /\ new.deleting \in BOOLEAN
      /\ new.address \in BOOLEAN /\ new.ready \in BOOLEAN
    BY <1>1, <1>3 DEF KmcType
<1>6. /\ new.hash \in Hash /\ new.manifests \in Manifests /\ new.version \in Revision
      /\ new.certs \in SUBSET Certificates /\ new.conditions \in SUBSET Conditions
    BY <1>1, <1>3 DEF KmcType
<1>7. new \in KmcType
    BY <1>4, <1>5, <1>6 DEF KmcType
<1> QED BY <1>1, <1>3, <1>7 DEF new

LEMMA PatchKcp ==
    ASSUME NEW current \in ControlPlane, NEW before \in ControlPlane, NEW after \in ControlPlane
    PROVE  /\ MergePatch(current, before, after) \in ControlPlane
           /\ \A f \in {"exists", "finalizer", "deleting", "manifests", "version", "address", "certs",
                        "initialized"} :
                  MergePatch(current, before, after)[f] = IF after[f] # before[f] THEN after[f] ELSE current[f]
<1> DEFINE new == MergePatch(current, before, after)
<1>1. DOMAIN current = {"exists", "finalizer", "deleting", "manifests", "version", "address", "certs",
                        "initialized"}
    BY DEF ControlPlane
<1>2. new = [f \in DOMAIN current |-> IF after[f] # before[f] THEN after[f] ELSE current[f]]
    BY DEF MergePatch
<1> HIDE DEF new
<1>3. \A f \in DOMAIN current : new[f] = IF after[f] # before[f] THEN after[f] ELSE current[f]
    BY <1>2
<1>4. new = [exists |-> new.exists, finalizer |-> new.finalizer, deleting |-> new.deleting,
             manifests |-> new.manifests, version |-> new.version, address |-> new.address, certs |-> new.certs,
             initialized |-> new.initialized]
    BY <1>1, <1>2
<1>5. /\ new.exists \in BOOLEAN /\ new.finalizer \in BOOLEAN /\ new.deleting \in BOOLEAN
      /\ new.address \in BOOLEAN /\ new.certs \in BOOLEAN /\ new.initialized \in BOOLEAN
      /\ new.manifests \in Revision /\ new.version \in Revision
    BY <1>1, <1>3 DEF ControlPlane
<1>6. new \in ControlPlane
    BY <1>4, <1>5 DEF ControlPlane
<1> QED BY <1>1, <1>3, <1>6 DEF new

(* A patch that does not say otherwise keeps the life of what it patches,    *)
(* unless it removes the last finalizer of what is being deleted.            *)
LEMMA PatchedKmc ==
    ASSUME NEW current \in KmcType, NEW before \in KmcType, NEW after \in KmcType,
           SameLife(before, after), NEW new, new = Patched(current, before, after, NoKmc)
    PROVE  /\ new \in KmcType
           /\ \/ new = current /\ ~current.exists
              \/ new = NoKmc /\ current.exists /\ current.deleting
              \/ /\ current.exists /\ new.exists /\ new.deleting = current.deleting
                 /\ new.address = IF after.address # before.address THEN after.address ELSE current.address
                 /\ new.manifests \in {after.manifests, current.manifests}
                 /\ new.certs \in {after.certs, current.certs}
<1> DEFINE merged == MergePatch(current, before, after)
<1>1. NoKmc \in KmcType
    BY RevisionAssumption, SMTT(30) DEF NoKmc, KmcType, NoHash, Hash, NoManifests, Manifests, Revision
<1>2. /\ merged \in KmcType
      /\ merged.exists = current.exists /\ merged.deleting = current.deleting
      /\ merged.address = IF after.address # before.address THEN after.address ELSE current.address
      /\ merged.manifests \in {after.manifests, current.manifests}
      /\ merged.certs \in {after.certs, current.certs}
    BY PatchKmc, SMTT(30) DEF SameLife
<1>3. new = CASE ~current.exists -> current
              [] current.exists /\ merged.deleting /\ ~merged.finalizer -> NoKmc
              [] OTHER -> merged
    BY DEF Patched
<1> HIDE DEF merged
<1>4. /\ current.exists \in BOOLEAN /\ merged.deleting \in BOOLEAN /\ merged.finalizer \in BOOLEAN
      /\ merged.exists \in BOOLEAN /\ current.deleting \in BOOLEAN
    BY <1>2 DEF KmcType
<1>5. \/ new = current /\ ~current.exists
      \/ new = NoKmc /\ current.exists /\ merged.deleting
      \/ new = merged /\ current.exists /\ (merged.deleting => merged.finalizer)
  <2>1. CASE ~current.exists
      BY <1>3, <2>1
  <2>2. CASE current.exists /\ merged.deleting /\ ~merged.finalizer
      BY <1>3, <2>2
  <2>3. CASE current.exists /\ ~(merged.deleting /\ ~merged.finalizer)
      BY <1>3, <2>3
  <2> QED BY <2>1, <2>2, <2>3
<1> QED BY <1>1, <1>2, <1>4, <1>5

LEMMA PatchedKcp ==
    ASSUME NEW current \in ControlPlane, NEW before \in ControlPlane, NEW after \in ControlPlane,
           SameLife(before, after), NEW new, new = Patched(current, before, after, NoControlPlane)
    PROVE  /\ new \in ControlPlane
           /\ \/ new = current /\ ~current.exists
              \/ new = NoControlPlane
              \/ /\ current.exists /\ new.exists /\ new.deleting = current.deleting
                 /\ new.deleting => new.finalizer
<1> DEFINE merged == MergePatch(current, before, after)
<1>1. NoControlPlane \in ControlPlane
    BY RevisionAssumption, SMTT(30) DEF NoControlPlane, ControlPlane, Revision
<1>2. /\ merged \in ControlPlane
      /\ merged.exists = current.exists /\ merged.deleting = current.deleting
    BY PatchKcp, SMTT(30) DEF SameLife
<1>3. new = CASE ~current.exists -> current
              [] current.exists /\ merged.deleting /\ ~merged.finalizer -> NoControlPlane
              [] OTHER -> merged
    BY DEF Patched
<1> HIDE DEF merged
<1>4. /\ current.exists \in BOOLEAN /\ merged.deleting \in BOOLEAN /\ merged.finalizer \in BOOLEAN
      /\ merged.exists \in BOOLEAN /\ current.deleting \in BOOLEAN
    BY <1>2 DEF ControlPlane
<1>5. \/ new = current /\ ~current.exists
      \/ new = NoControlPlane /\ current.exists /\ merged.deleting
      \/ new = merged /\ current.exists /\ (merged.deleting => merged.finalizer)
  <2>1. CASE ~current.exists
      BY <1>3, <2>1
  <2>2. CASE current.exists /\ merged.deleting /\ ~merged.finalizer
      BY <1>3, <2>2
  <2>3. CASE current.exists /\ ~(merged.deleting /\ ~merged.finalizer)
      BY <1>3, <2>3
  <2> QED BY <2>1, <2>2, <2>3
<1> QED BY <1>1, <1>2, <1>4, <1>5

----------------------------------------------------------------------------
(* Types.                                                                    *)

LEMMA Records ==
    /\ NoKmc \in KmcType /\ NoControlPlane \in ControlPlane /\ NoStatefulSet \in StatefulSet
    /\ NoC \in CHolds /\ NoK \in KHolds /\ Absent \in Content /\ Static \in Content
<1>1. NoHash \in Hash /\ NoManifests \in Manifests /\ 0 \in Revision
    BY RevisionAssumption, SMTT(30) DEF NoHash, Hash, NoManifests, Manifests, Revision
<1>2. NoTemplate \in Template
    BY <1>1 DEF NoTemplate, Template
<1>3. NoKmc \in KmcType /\ NoControlPlane \in ControlPlane /\ NoStatefulSet \in StatefulSet
    BY <1>1, <1>2 DEF NoKmc, KmcType, NoControlPlane, ControlPlane, NoStatefulSet, StatefulSet
<1>4. NoC \in CHolds /\ NoK \in KHolds
    BY <1>3 DEF NoC, NoK, CHolds, KHolds
<1>5. Absent \in Content /\ Static \in Content
    BY <1>1 DEF Absent, Static, From, Content
<1> QED BY <1>3, <1>4, <1>5

LEMMA DesiredType ==
    ASSUME NEW cluster \in KmcType, NEW spec \in ControlPlane
    PROVE  /\ Desired(cluster, spec) \in KmcType
           /\ SameLife(cluster, Desired(cluster, spec))
           /\ Desired(cluster, spec).address = spec.address
           /\ Desired(cluster, spec).manifests.added = {}
           /\ "etcdClient" \notin Desired(cluster, spec).certs
<1>1. generateClusterSpecHashWithoutExternalAddress(spec) \in Hash
    BY DEF generateClusterSpecHashWithoutExternalAddress, Hash, ControlPlane
<1>2. [user |-> spec.manifests, added |-> {}] \in Manifests
    BY DEF ControlPlane, Manifests
<1>3. (IF spec.certs THEN {"base"} ELSE {}) \in SUBSET Certificates
    BY DEF Certificates
<1>4. spec.version \in Revision /\ spec.address \in BOOLEAN
    BY DEF ControlPlane
<1>5. Desired(cluster, spec) \in KmcType
    BY <1>1, <1>2, <1>3, <1>4 DEF Desired, KmcType
<1>6. /\ SameLife(cluster, Desired(cluster, spec))
      /\ Desired(cluster, spec).address = spec.address
      /\ Desired(cluster, spec).manifests.added = {}
      /\ "etcdClient" \notin Desired(cluster, spec).certs
    BY DEF Desired, KmcType, SameLife
<1> QED BY <1>5, <1>6

LEMMA GeneratedType ==
    ASSUME NEW m \in KmcType, NEW o \in {Order[i] : i \in 1..Len(Order)}
    PROVE  Generated(o, m) \in Content /\ Generated(o, m).exists
<1>1. m.version \in Revision /\ m.address \in BOOLEAN /\ 0 \in Revision
    BY RevisionAssumption, SMTT(30) DEF KmcType, Revision
<1>2. o \in {"endpoint", "ingressManifests", "konnectivity", "ingress", "config", "entrypoint",
             "monitoring", "etcdCerts", "haproxyCerts", "nats", "telemetry"}
    BY SMTT(30) DEF Order
<1>3. /\ From(m.version, FALSE) \in Content /\ From(m.version, FALSE).exists
      /\ From(0, m.address) \in Content /\ From(0, m.address).exists
      /\ From(m.version, m.address) \in Content /\ From(m.version, m.address).exists
      /\ From(0, FALSE) \in Content /\ From(0, FALSE).exists
    BY <1>1 DEF From, Content
<1>4. Generated(o, m) \in {From(m.version, FALSE), From(0, m.address), From(m.version, m.address), From(0, FALSE)}
    BY <1>2 DEF Generated, generateService, generateEndpointConfigMap, generateIngressManifestsConfigMap,
        getKonnectivityAgentImage, generateKonnectivityIngressConfigMap, generateIngress, genSANs,
        getV1Beta1Spec, generateConfig, getControllerFlags, generateEntrypointCM, generateMonitoringCM,
        ensureEtcdCertificates, ensureHAProxyCerts, reconcileNats, generateTelemetryCM, Static
<1> QED BY <1>3, <1>4

LEMMA CompletedType ==
    ASSUME NEW m \in KmcType, NEW S
    PROVE  /\ Completed(m, S) \in KmcType
           /\ SameLife(m, Completed(m, S))
           /\ Completed(m, S).address = m.address
           /\ Completed(m, S).manifests.added \subseteq m.manifests.added \cup S
           /\ "etcdClient" \in Completed(m, S).certs => "etcdClient" \in m.certs \/ "etcdCerts" \in S
<1> DEFINE kept == IF "ingressManifests" \in S THEN WithoutStale(m) ELSE m.manifests
           manifests == [kept EXCEPT !.added = @ \cup (S \cap Volume)]
           certs == m.certs \cup (IF "etcdCerts" \in S THEN {"etcdClient"} ELSE {})
<1>1. m.manifests \in Manifests /\ m.certs \in SUBSET Certificates
    BY DEF KmcType
<1>2. kept \in Manifests /\ kept.added \subseteq m.manifests.added
    BY <1>1 DEF WithoutStale, Manifests
<1> HIDE DEF kept
<1>3. manifests \in Manifests /\ manifests.added = kept.added \cup (S \cap Volume)
    BY <1>2 DEF Manifests
<1>4. certs \in SUBSET Certificates
    BY <1>1 DEF Certificates
<1>5. Completed(m, S) = [m EXCEPT !.manifests = manifests, !.certs = certs]
    BY DEF Completed, kept
<1> HIDE DEF manifests
<1>6. "etcdClient" \in certs => "etcdClient" \in m.certs \/ "etcdCerts" \in S
    OBVIOUS
<1> HIDE DEF certs
<1>7. Completed(m, S) \in KmcType /\ SameLife(m, Completed(m, S)) /\ Completed(m, S).address = m.address
      /\ Completed(m, S).manifests = manifests /\ Completed(m, S).certs = certs
    BY <1>3, <1>4, <1>5 DEF KmcType, SameLife
<1> QED BY <1>2, <1>3, <1>6, <1>7

KcpTypes == kcp \in ControlPlane /\ c \in CHolds /\ endpoint \in BOOLEAN
            /\ infra \in [endpoint : BOOLEAN, ready : BOOLEAN]
KmcTypes == kmc \in KmcType /\ k \in KHolds
HostTypes == /\ mode \in Modes
             /\ ca \in BOOLEAN /\ owner \in BOOLEAN /\ lb \in BOOLEAN
             /\ objects \in [Object -> Content] /\ sts \in StatefulSet
             /\ budget \in 0..MaxDisturbances

LEMMA TypeParts == TypeOK <=> KcpTypes /\ KmcTypes /\ HostTypes
    BY DEF TypeOK, KcpTypes, KmcTypes, HostTypes, CHolds, KHolds

LEMMA DisturbType ==
    ASSUME HostTypes, NEW kind, Disturb(kind)
    PROVE  budget' \in 0..MaxDisturbances
    BY DisturbanceAssumption, SMTT(30) DEF HostTypes, Disturb

LEMMA KcpStepType ==
    ASSUME Inv, KcpController
    PROVE  KcpTypes' /\ LabelsOK'
<1> USE DEF DoneC, GotoC, capi, hosting
<1>0. KcpTypes /\ KmcTypes /\ HostTypes /\ LabelsOK
    BY TypeParts DEF Inv
<1>1. /\ kcp \in ControlPlane /\ c \in CHolds /\ kmc \in KmcType /\ NoC \in CHolds
      /\ c.before \in ControlPlane /\ c.after \in ControlPlane /\ c.found \in KmcType
      /\ NoControlPlane \in ControlPlane /\ NoKmc \in KmcType
      /\ endpoint \in BOOLEAN /\ infra \in [endpoint : BOOLEAN, ready : BOOLEAN]
      /\ c.endpoint \in BOOLEAN /\ ca \in BOOLEAN
    BY <1>0, Records DEF KcpTypes, KmcTypes, HostTypes, CHolds
<1>2. CASE KcpStart
  <2>1. CASE EnsureFinalizer(kcp)
      BY <1>0, <1>1, <1>2, <2>1 DEF KcpStart, KcpTypes, LabelsOK, ControlPlane
  <2>2. CASE ~EnsureFinalizer(kcp)
    <3>1. c' \in CHolds
        BY <1>1, <1>2, <2>2 DEF KcpStart, NoC, CHolds
    <3>2. LabelsOK'
        BY <1>0, <1>2, <2>2 DEF KcpStart, LabelsOK
    <3> QED BY <1>1, <1>2, <2>2, <3>1, <3>2 DEF KcpStart, KcpTypes
  <2> QED BY <2>1, <2>2
<1>3. CASE KcpCertificates
  <2>0. [c.after EXCEPT !.certs = TRUE] \in ControlPlane
      BY <1>1 DEF ControlPlane
  <2>1. c' \in CHolds
      BY <1>1, <1>3, <2>0 DEF KcpCertificates, CHolds
  <2> QED BY <1>0, <1>1, <1>3, <2>1 DEF KcpCertificates, KcpTypes, LabelsOK
<1>4. CASE KcpSync
  <2>1. c' \in CHolds
    <3>1. [c.after EXCEPT !.address = @ \/ kmc.address] \in ControlPlane
        BY <1>1, SMTT(30) DEF ControlPlane, KmcType
    <3>2. CASE ~kmc.exists
        BY <1>1, <1>4, <3>2 DEF KcpSync
    <3>3. CASE kmc.exists
        BY <1>1, <1>4, <3>1, <3>3 DEF KcpSync, CHolds
    <3> QED BY <3>2, <3>3
  <2>2. LabelsOK'
      BY <1>0, <1>4 DEF KcpSync, LabelsOK
  <2> QED BY <1>1, <1>4, <2>1, <2>2 DEF KcpSync, KcpTypes
<1>5. CASE KcpPush
  <2>1. c' \in CHolds
      BY <1>1, <1>5 DEF KcpPush, CHolds, KmcType
  <2> QED BY <1>0, <1>1, <1>5, <2>1 DEF KcpPush, KcpTypes, LabelsOK
<1>6. CASE KcpAddress
    BY <1>0, <1>1, <1>6 DEF KcpAddress, KcpTypes, LabelsOK, CHolds
<1>7. CASE KcpAddressTimeout
    BY <1>0, <1>1, <1>7 DEF KcpAddressTimeout, KcpTypes, LabelsOK, CHolds
<1>8. CASE reconcileDelete
  <2>0. [c.after EXCEPT !.finalizer = FALSE] \in ControlPlane
      BY <1>1 DEF ControlPlane
  <2>1. c' = c \/ c' = [c EXCEPT !.after = [c.after EXCEPT !.finalizer = FALSE]]
      BY <1>1, <1>8 DEF reconcileDelete, CHolds
  <2>2. c' \in CHolds
      BY <1>1, <2>0, <2>1 DEF CHolds
  <2> QED BY <1>0, <1>1, <1>8, <2>2 DEF reconcileDelete, KcpTypes, LabelsOK
<1>9. CASE KcpStatus
  <2>1. c' \in CHolds /\ LabelsOK'
      BY <1>0, <1>1, <1>9 DEF KcpStatus, AfterCluster, CHolds, LabelsOK
  <2>2. /\ computeStatus(c.after) \in ControlPlane
        /\ SameLife(c.before, computeStatus(c.after))
      BY <1>1 DEF Inv, DeletionInv, SameLife, computeStatus, ControlPlane, Reachable
  <2>3. kcp' \in ControlPlane
      BY <1>1, <1>9, <2>2, PatchedKcp DEF KcpStatus
  <2> QED BY <1>1, <1>9, <2>1, <2>3 DEF KcpStatus, KcpTypes
<1>10. CASE KcpPatchCluster
    BY <1>0, <1>1, <1>10 DEF KcpPatchCluster, AfterCluster, KcpTypes, LabelsOK
<1>11. CASE patchInfrastructureStatus
    BY <1>0, <1>1, <1>11 DEF patchInfrastructureStatus, KcpTypes, LabelsOK
<1> QED BY <1>2, <1>3, <1>4, <1>5, <1>6, <1>7, <1>8, <1>9, <1>10, <1>11 DEF KcpController

(* What the control plane controller does to the Cluster.                    *)
LEMMA KcpOnKmc ==
    ASSUME Inv, KcpController
    PROVE  /\ kmc' \in KmcType /\ UNCHANGED <<mode, k, pcK, objects, sts, lb>>
           /\ ca' \in BOOLEAN /\ owner' \in BOOLEAN /\ budget' \in 0..MaxDisturbances
<1> USE DEF DoneC, GotoC, capi, hosting
<1>0. KcpTypes /\ KmcTypes /\ HostTypes /\ DeletionInv
    BY TypeParts DEF Inv
<1>1. /\ kmc \in KmcType /\ NoKmc \in KmcType /\ [NoKmc EXCEPT !.exists = TRUE] \in KmcType
      /\ c.after \in ControlPlane /\ c.found \in KmcType
    BY <1>0, Records DEF KcpTypes, KmcTypes, CHolds, KmcType
<1>2. CASE KcpSync
  <2>1. Desired([NoKmc EXCEPT !.exists = TRUE], c.after) \in KmcType
      BY <1>1, DesiredType
  <2>2. kmc' \in KmcType
      BY <1>1, <1>2, <2>1 DEF KcpSync
  <2> QED BY <1>0, <1>2, <2>2 DEF KcpSync, HostTypes
<1>3. CASE KcpPush
  <2>1. Desired(c.found, c.after) \in KmcType /\ SameLife(c.found, Desired(c.found, c.after))
      BY <1>1, DesiredType
  <2>2. kmc' \in KmcType
      BY <1>1, <1>3, <2>1, PatchedKmc DEF KcpPush
  <2> QED BY <1>0, <1>3, <2>2 DEF KcpPush, HostTypes
<1>4. CASE reconcileDelete
  <2>1. [kmc EXCEPT !.deleting = TRUE] \in KmcType
      BY <1>1 DEF KmcType
  <2>2. kmc' \in KmcType
      BY <1>1, <1>4, <2>1 DEF reconcileDelete
  <2> QED BY <1>0, <1>4, <2>2 DEF reconcileDelete, HostTypes
<1>5. CASE KcpStart
    BY <1>0, <1>1, <1>5 DEF KcpStart, HostTypes
<1>6. CASE KcpCertificates
    BY <1>0, <1>1, <1>6, DisturbType DEF KcpCertificates, HostTypes
<1>7. CASE KcpAddress \/ KcpAddressTimeout \/ KcpStatus \/ KcpPatchCluster \/ patchInfrastructureStatus
    BY <1>0, <1>1, <1>7 DEF KcpAddress, KcpAddressTimeout, KcpStatus, KcpPatchCluster, patchInfrastructureStatus,
        HostTypes
<1> QED BY <1>2, <1>3, <1>4, <1>5, <1>6, <1>7 DEF KcpController

(* The status changes neither the spec nor the life of the Cluster.          *)
LEMMA StatusType ==
    ASSUME Inv
    PROVE  /\ updateStatus(k.after) \in KmcType /\ SameLife(k.before, updateStatus(k.after))
           /\ updateStatus(k.after).address = k.after.address
           /\ updateStatus(k.after).manifests = k.after.manifests
           /\ updateStatus(k.after).certs = k.after.certs
<1>1. k \in KHolds /\ k.after \in KmcType
    BY DEF Inv, TypeOK, KHolds
<1>2. {x \in Conditions : \/ x = "Exposed" /\ Exposed
                          \/ x = "Kubeconfig" /\ KubeconfigAvailable
                          \/ x = "Functional" /\ Functional
                          \/ x = "Certificates" /\ CertificatesAvailable
                          \/ x = "Available" /\ Available} \in SUBSET Conditions
    OBVIOUS
<1>3. (IF k.sts.exists THEN k.sts.up ELSE k.after.ready) \in BOOLEAN
    BY <1>1 DEF KHolds, KmcType
<1> QED BY <1>1, <1>2, <1>3 DEF updateStatus, KmcType, Inv, DeletionInv, SameLife

(* What the Cluster controller does.                                         *)
LEMMA KmcStepType ==
    ASSUME Inv, KmcController
    PROVE  /\ KmcTypes' /\ HostTypes' /\ LabelsOK'
           /\ UNCHANGED <<mode, kcp, endpoint, infra, ca, lb, pcC, c>>
<1> USE DEF GotoK, capi, hosting
<1>0. KmcTypes /\ HostTypes /\ LabelsOK
    BY TypeParts DEF Inv
<1>1. /\ kmc \in KmcType /\ k \in KHolds /\ k.before \in KmcType /\ k.after \in KmcType
      /\ NoK \in KHolds /\ Static \in Content
      /\ objects \in [Object -> Content] /\ sts \in StatefulSet /\ owner \in BOOLEAN
    BY <1>0, Records DEF KmcTypes, HostTypes, KHolds
<1>2. CASE KmcStart
  <2>1. CASE EnsureFinalizer(kmc)
    <3>1. kmc' \in KmcType
        BY <1>1, <1>2, <2>1 DEF KmcStart, KmcType
    <3> QED BY <1>0, <1>1, <1>2, <2>1, <3>1 DEF KmcStart, KmcTypes, HostTypes, LabelsOK
  <2>2. CASE ~EnsureFinalizer(kmc)
    <3>0. [kmc EXCEPT !.address = @ \/ mode.service = "NodePort"] \in KmcType
        BY <1>1 DEF KmcType
    <3>1. k' \in KHolds
      <4>1. CASE kmc.deleting
          BY <1>1, <1>2, <2>2, <4>1 DEF KmcStart, KHolds
      <4>2. CASE ~kmc.deleting
          BY <1>1, <1>2, <2>2, <3>0, <4>2 DEF KmcStart, reconcileServices, KHolds
      <4> QED BY <4>1, <4>2
    <3>2. objects' \in [Object -> Content]
        BY <1>1, <1>2, <2>2 DEF KmcStart, reconcileServices, generateService
    <3>3. kmc' = kmc /\ owner' \in BOOLEAN /\ pcK' \in {"delete", "wait", "objects"}
          /\ UNCHANGED <<mode, kcp, endpoint, infra, ca, lb, pcC, c, budget, sts>>
        BY <1>2, <2>2 DEF KmcStart, reconcileServices
    <3> QED BY <1>0, <3>1, <3>2, <3>3 DEF KmcTypes, HostTypes, LabelsOK
  <2> QED BY <2>1, <2>2
<1>3. CASE KmcLoadBalancer
  <2>1. [k.after EXCEPT !.address = TRUE] \in KmcType /\ [kmc EXCEPT !.address = TRUE] \in KmcType
      BY <1>1 DEF KmcType
  <2>2. k' \in KHolds
      BY <1>1, <1>3, <2>1 DEF KmcLoadBalancer, KHolds
  <2> QED BY <1>0, <1>1, <1>3, <2>1, <2>2 DEF KmcLoadBalancer, KmcTypes, HostTypes, LabelsOK
<1>4. CASE KmcLoadBalancerTimeout
    BY <1>0, <1>4 DEF KmcLoadBalancerTimeout, KmcTypes, HostTypes, LabelsOK
<1>5. CASE KmcObjects
  <2>1. PICK S : /\ S \subseteq {Order[i] : i \in 1..Len(Order)}
                 /\ objects' = [o \in Object |-> IF o \in S THEN Generated(o, k.after) ELSE objects[o]]
                 /\ k' = [k EXCEPT !.after = Completed(k.after, S)]
                 /\ pcK' \in {"statefulset", "status"}
                 /\ budget' = budget \/ Disturb("applyFails")
    <3>1. PICK n \in 0..Len(Order) :
              LET done == {Order[i] : i \in {j \in 1..n : Needed(Order[j], k.after)}}
              IN  /\ objects' = [o \in Object |-> IF o \in done THEN Generated(o, k.after) ELSE objects[o]]
                  /\ k' = [k EXCEPT !.after = Completed(k.after, done)]
                  /\ pcK' \in {"statefulset", "status"}
                  /\ budget' = budget \/ Disturb("applyFails")
        BY <1>1, <1>5 DEF KmcObjects, KHolds
    <3>2. {Order[i] : i \in {j \in 1..n : Needed(Order[j], k.after)}} \subseteq {Order[i] : i \in 1..Len(Order)}
        BY SMTT(30) DEF Order
    <3> QED BY <3>1, <3>2
  <2>2. objects' \in [Object -> Content]
      BY <1>1, <2>1, GeneratedType
  <2>3. k' \in KHolds
      BY <1>1, <2>1, CompletedType DEF KHolds
  <2>4. budget' \in 0..MaxDisturbances
      BY <1>0, <2>1, DisturbType DEF HostTypes
  <2>5. UNCHANGED <<mode, kcp, kmc, endpoint, infra, ca, owner, sts, lb, pcC, c>>
      BY <1>5 DEF KmcObjects
  <2> QED BY <1>0, <2>1, <2>2, <2>3, <2>4, <2>5 DEF KmcTypes, HostTypes, LabelsOK
<1>6. CASE reconcileStatefulSet
  <2>1. WithoutHash(k.after) \in KmcType
      BY <1>1, Records DEF WithoutHash, KmcType, NoKmc
  <2>2. generateStatefulSet(k.after) \in Template
      BY <1>1 DEF generateStatefulSet, Template, KmcType
  <2>3. [exists |-> sts.exists, up |-> sts.up] \in [exists : BOOLEAN, up : BOOLEAN]
      BY <1>1 DEF StatefulSet
  <2>4. sts' = [sts EXCEPT !.exists = TRUE, !.template = generateStatefulSet(k.after)]
      BY <1>6 DEF reconcileStatefulSet
  <2>5. sts' \in StatefulSet
      BY <1>1, <2>2, <2>4 DEF StatefulSet
  <2>6. \E have \in BOOLEAN : /\ k' = [k EXCEPT !.after = WithoutHash(k.after),
                                                !.sts = [exists |-> sts.exists, up |-> sts.up],
                                                !.kubeconfig = have]
                              /\ objects' \in {objects, [objects EXCEPT !["kubeconfig"] = Static]}
      BY <1>1, <1>6 DEF reconcileStatefulSet, KHolds
  <2>7. k' \in KHolds
      BY <1>1, <2>1, <2>3, <2>6 DEF KHolds
  <2>8. objects' \in [Object -> Content]
      BY <1>1, <2>6
  <2>9. UNCHANGED <<mode, kcp, kmc, endpoint, infra, ca, owner, lb, pcC, c, budget>> /\ pcK' = "status"
      BY <1>6 DEF reconcileStatefulSet
  <2> QED BY <1>0, <2>5, <2>7, <2>8, <2>9 DEF KmcTypes, HostTypes, LabelsOK
<1>7. CASE KmcStatus
  <2>1. updateStatus(k.after) \in KmcType /\ SameLife(k.before, updateStatus(k.after))
      BY StatusType
  <2>2. kmc' \in KmcType
      BY <1>1, <1>7, <2>1, PatchedKmc DEF KmcStatus
  <2> QED BY <1>0, <1>1, <1>7, <2>2 DEF KmcStatus, KmcTypes, HostTypes, LabelsOK
<1>8. CASE KmcDelete
  <2>1. [k.after EXCEPT !.finalizer = FALSE] \in KmcType
      BY <1>1 DEF KmcType
  <2>2. k' \in KHolds
      BY <1>1, <1>8, <2>1 DEF KmcDelete, KHolds
  <2>3. budget' \in 0..MaxDisturbances
      BY <1>0, <1>8, DisturbType DEF KmcDelete, HostTypes
  <2> QED BY <1>0, <1>1, <1>8, <2>2, <2>3 DEF KmcDelete, KmcTypes, HostTypes, LabelsOK
<1> QED BY <1>2, <1>3, <1>4, <1>5, <1>6, <1>7, <1>8 DEF KmcController

(* What everyone else does.                                                  *)
Outside == World \/ Edit \/ Delete \/ Crash

LEMMA OutsideType ==
    ASSUME Inv, Outside
    PROVE  KcpTypes' /\ KmcTypes' /\ HostTypes' /\ LabelsOK'
<1> USE DEF capi, hosting
<1>0. KcpTypes /\ KmcTypes /\ HostTypes /\ LabelsOK
    BY TypeParts DEF Inv
<1>1. /\ kcp \in ControlPlane /\ kmc \in KmcType /\ objects \in [Object -> Content] /\ sts \in StatefulSet
      /\ NoC \in CHolds /\ NoK \in KHolds /\ NoKmc \in KmcType /\ NoControlPlane \in ControlPlane
      /\ Absent \in Content /\ NoStatefulSet \in StatefulSet
    BY <1>0, Records DEF KcpTypes, KmcTypes, HostTypes
<1>2. CASE LoadBalancerReady
    BY <1>0, <1>2, SMTT(30) DEF LoadBalancerReady, KcpTypes, KmcTypes, HostTypes, LabelsOK
<1>3. CASE PodsRoll \/ PodsReady
  <2>1. sts' \in StatefulSet
      BY <1>1, <1>3 DEF PodsRoll, PodsReady, StatefulSet
  <2> QED BY <1>0, <1>3, <2>1, SMTT(30) DEF PodsRoll, PodsReady, KcpTypes, KmcTypes, HostTypes, LabelsOK
<1>4. CASE CollectKmc
  <2>1. [kmc EXCEPT !.deleting = TRUE] \in KmcType
      BY <1>1 DEF KmcType
  <2> QED BY <1>0, <1>1, <1>4, <2>1, SMTT(30) DEF CollectKmc, KcpTypes, KmcTypes, HostTypes, LabelsOK
<1>5. CASE CollectObjects
    BY <1>0, <1>1, <1>5 DEF CollectObjects, KcpTypes, KmcTypes, HostTypes, LabelsOK
<1>6. CASE Edit
  <2>1. kcp' \in ControlPlane
      BY <1>1, <1>6, RevisionAssumption, SMTT(30) DEF Edit, ControlPlane, Revision
  <2>2. budget' \in 0..MaxDisturbances
      BY <1>0, <1>6, DisturbType DEF Edit
  <2> QED BY <1>0, <1>6, <2>1, <2>2, SMTT(30) DEF Edit, KcpTypes, KmcTypes, HostTypes, LabelsOK
<1>7. CASE Delete
  <2>1. kcp' \in ControlPlane
      BY <1>1, <1>7 DEF Delete, ControlPlane
  <2>2. budget' \in 0..MaxDisturbances
      BY <1>0, <1>7, DisturbType DEF Delete
  <2> QED BY <1>0, <1>7, <2>1, <2>2, SMTT(30) DEF Delete, KcpTypes, KmcTypes, HostTypes, LabelsOK
<1>8. CASE Crash
  <2>1. budget' \in 0..MaxDisturbances
      BY <1>0, <1>8, DisturbType DEF Crash
  <2> QED BY <1>0, <1>1, <1>8, <2>1 DEF Crash, KcpTypes, KmcTypes, HostTypes, LabelsOK
<1> QED BY <1>2, <1>3, <1>4, <1>5, <1>6, <1>7, <1>8 DEF Outside, World

LEMMA TypeNext == Inv /\ Next => TypeOK' /\ LabelsOK'
<1> SUFFICES ASSUME Inv, Next PROVE TypeOK' /\ LabelsOK'
    OBVIOUS
<1>0. KcpTypes /\ KmcTypes /\ HostTypes
    BY TypeParts DEF Inv
<1>a. TypeOK' <=> KcpTypes' /\ KmcTypes' /\ HostTypes'
    BY DEF TypeOK, KcpTypes, KmcTypes, HostTypes, CHolds, KHolds
<1>1. CASE KcpController
  <2>1. KmcTypes' /\ HostTypes'
      BY <1>0, <1>1, KcpOnKmc DEF KmcTypes, HostTypes
  <2> QED BY <1>a, <1>1, <2>1, KcpStepType
<1>2. CASE KmcController
  <2>1. KcpTypes'
      BY <1>0, <1>2, KmcStepType DEF KcpTypes
  <2> QED BY <1>a, <1>2, <2>1, KmcStepType
<1>3. CASE Outside
    BY <1>a, <1>3, OutsideType
<1> QED BY <1>1, <1>2, <1>3 DEF Next, Outside

----------------------------------------------------------------------------
(* The writes of the control plane controller.                               *)

LEMMA InfraNext == Inv /\ Next => InfraInv'
<1> SUFFICES ASSUME Inv, Next PROVE InfraInv'
    OBVIOUS
<1> USE DEF DoneC, GotoC, capi, hosting
<1>0. /\ InfraInv /\ c \in CHolds /\ infra \in [endpoint : BOOLEAN, ready : BOOLEAN] /\ endpoint \in BOOLEAN
      /\ NoC.endpoint = FALSE /\ c.endpoint \in BOOLEAN
    BY DEF Inv, TypeOK, CHolds, NoC
<1>1. ASSUME UNCHANGED <<endpoint, infra>>, c'.endpoint = c.endpoint, pcC # "idle", pcC' # "infra"
      PROVE  InfraInv'
    BY <1>0, <1>1 DEF InfraInv
<1>2. CASE KcpStart
    BY <1>0, <1>2 DEF KcpStart, InfraInv, NoC
<1>3. CASE KcpCertificates \/ KcpSync \/ KcpPush \/ KcpAddressTimeout \/ reconcileDelete
  <2>1. UNCHANGED <<endpoint, infra>> /\ pcC # "idle" /\ pcC' # "infra"
      BY <1>3 DEF KcpCertificates, KcpSync, KcpPush, KcpAddressTimeout, reconcileDelete
  <2>2. c'.endpoint = c.endpoint
    <3>1. CASE KcpCertificates \/ KcpPush \/ KcpAddressTimeout
        BY <1>0, <3>1 DEF KcpCertificates, KcpPush, KcpAddressTimeout, CHolds
    <3>2. CASE KcpSync
      <4>1. CASE ~kmc.exists
          BY <3>2, <4>1 DEF KcpSync
      <4>2. CASE kmc.exists
          BY <1>0, <3>2, <4>2 DEF KcpSync, CHolds
      <4> QED BY <4>1, <4>2
    <3>3. CASE reconcileDelete
      <4>1. c' = c \/ c' = [c EXCEPT !.after.finalizer = FALSE]
          BY <3>3 DEF reconcileDelete
      <4> QED BY <1>0, <4>1 DEF CHolds
    <3> QED BY <1>3, <3>1, <3>2, <3>3
  <2> QED BY <1>1, <2>1, <2>2
<1>4. CASE KcpAddress
    BY <1>0, <1>4 DEF KcpAddress, InfraInv, CHolds
<1>5. CASE KcpStatus
    BY <1>0, <1>5 DEF KcpStatus, AfterCluster, InfraInv, CHolds
<1>6. CASE KcpPatchCluster
    BY <1>0, <1>6 DEF KcpPatchCluster, AfterCluster, InfraInv
<1>7. CASE patchInfrastructureStatus
    BY <1>0, <1>7 DEF patchInfrastructureStatus, InfraInv
<1>8. CASE KmcController
    BY <1>0, <1>8, KmcStepType, SMTT(30) DEF InfraInv
<1>9. CASE Outside
  <2>1. CASE Crash
      BY <1>0, <2>1 DEF Crash, InfraInv
  <2>2. CASE World \/ Edit \/ Delete
      BY <1>0, <2>2 DEF World, LoadBalancerReady, PodsRoll, PodsReady, CollectKmc, CollectObjects, Edit, Delete,
          InfraInv
  <2> QED BY <1>9, <2>1, <2>2 DEF Outside
<1> QED BY <1>2, <1>3, <1>4, <1>5, <1>6, <1>7, <1>8, <1>9 DEF Next, KcpController, Outside

----------------------------------------------------------------------------
(* Merge patches.                                                            *)

LEMMA AddressNext == Inv /\ Next => AddressInv'
<1> SUFFICES ASSUME Inv, Next PROVE AddressInv'
    OBVIOUS
<1> USE DEF DoneC, GotoC, GotoK, capi, hosting
<1>0. /\ AddressInv /\ c \in CHolds /\ k \in KHolds /\ kmc \in KmcType
      /\ c.after \in ControlPlane /\ c.found \in KmcType
      /\ k.before \in KmcType /\ k.after \in KmcType
    BY DEF Inv, TypeOK, CHolds, KHolds
<1>n. /\ NoC.found.address = FALSE /\ NoK.before.address = FALSE
      /\ NoKmc.address = FALSE /\ NoKmc.exists = FALSE
    BY DEF NoC, NoK, NoKmc
<1>1. CASE KcpController
  <2>0. k' = k
      BY <1>1, KcpOnKmc
  <2>1. CASE KcpSync
    <3>1. CASE ~kmc.exists
      <4>1. [NoKmc EXCEPT !.exists = TRUE] \in KmcType /\ [NoKmc EXCEPT !.exists = TRUE].exists
          BY Records DEF KmcType
      <4>2. kmc' = Desired([NoKmc EXCEPT !.exists = TRUE], c.after)
          BY <2>1, <3>1 DEF KcpSync
      <4>3. kmc'.exists
          BY <1>0, <4>1, <4>2, DesiredType DEF SameLife
      <4> QED BY <1>0, <2>0, <2>1, <3>1, <4>3 DEF KcpSync, AddressInv
    <3>2. CASE kmc.exists
      <4> DEFINE after == [c.after EXCEPT !.address = @ \/ kmc.address]
                 synced == isClusterSpecSynced(kmc, after)
      <4>1. /\ c' = [c EXCEPT !.after = after, !.found = IF synced THEN NoKmc ELSE kmc]
            /\ ~synced => pcC' = "push"
            /\ kmc' = kmc /\ pcK' = pcK
          BY <2>1, <3>2 DEF KcpSync
      <4>2. after.address = (c.after.address \/ kmc.address)
          BY <1>0 DEF ControlPlane
      <4> HIDE DEF after, synced
      <4>3. /\ c'.after = after /\ c'.found \in {NoKmc, kmc}
            /\ pcC' # "push" => c'.found = NoKmc
          BY <1>0, <4>1 DEF CHolds
      <4> QED BY <1>0, <1>n, <2>0, <4>1, <4>2, <4>3 DEF AddressInv
    <3> QED BY <3>1, <3>2
  <2>2. CASE KcpPush
    <3>1. ~kmc'.exists => kmc' = NoKmc
        BY <1>0, <2>2, DesiredType, PatchedKmc DEF KcpPush, AddressInv
    <3>2. c'.found = NoKmc /\ pcK' = pcK
        BY <1>0, <2>2 DEF KcpPush, CHolds
    <3> QED BY <1>0, <1>n, <2>0, <3>1, <3>2 DEF AddressInv
  <2>3. CASE reconcileDelete
    <3>1. c' = c \/ c' = [c EXCEPT !.after.finalizer = FALSE]
        BY <2>3 DEF reconcileDelete
    <3>2. c'.found = c.found /\ c'.after.address = c.after.address
        BY <1>0, <3>1, SMTT(30) DEF CHolds, ControlPlane
    <3>3. CASE kmc.exists
      <4>1. kmc' \in {kmc, NoKmc} \/ kmc' = [kmc EXCEPT !.deleting = TRUE]
          BY <2>3, <3>3 DEF reconcileDelete
      <4>2. ~kmc'.exists => kmc' = NoKmc
          BY <1>0, <3>3, <4>1 DEF KmcType
      <4> QED BY <1>0, <2>0, <2>3, <3>2, <4>2 DEF AddressInv, reconcileDelete
    <3>4. CASE ~kmc.exists
      <4>1. kmc' = kmc
          BY <2>3, <3>4 DEF reconcileDelete
      <4> QED BY <1>0, <2>0, <2>3, <3>2, <4>1 DEF AddressInv, reconcileDelete
    <3> QED BY <3>3, <3>4
  <2>4. CASE KcpStart \/ KcpStatus \/ KcpPatchCluster \/ patchInfrastructureStatus
    <3>1. kmc' = kmc /\ pcC # "push" /\ pcK' = pcK
        BY <2>4 DEF KcpStart, KcpStatus, KcpPatchCluster, patchInfrastructureStatus
    <3>2. c.found = NoKmc
        BY <1>0, <3>1 DEF AddressInv
    <3>3. c'.found = NoKmc
      <4>1. CASE KcpStart
          BY <3>2, <4>1 DEF KcpStart, NoC
      <4>2. CASE KcpStatus \/ KcpPatchCluster \/ patchInfrastructureStatus
        <5>1. c' = c \/ c' = NoC \/ c' = [c EXCEPT !.before = NoControlPlane, !.after = NoControlPlane]
          <6>1. CASE KcpStatus /\ c.endpoint # endpoint
              BY <6>1 DEF KcpStatus
          <6>2. CASE KcpStatus /\ c.endpoint = endpoint
              BY <6>2 DEF KcpStatus, AfterCluster
          <6>3. CASE KcpPatchCluster \/ patchInfrastructureStatus
              BY <6>3 DEF KcpPatchCluster, patchInfrastructureStatus, AfterCluster
          <6> QED BY <4>2, <6>1, <6>2, <6>3
        <5>2. NoC.found = NoKmc
            BY DEF NoC
        <5>3. [c EXCEPT !.before = NoControlPlane, !.after = NoControlPlane].found = c.found
            BY <1>0 DEF CHolds
        <5> QED BY <3>2, <5>1, <5>2, <5>3
      <4> QED BY <2>4, <4>1, <4>2
    <3> QED BY <1>0, <1>n, <2>0, <3>1, <3>3 DEF AddressInv
  <2>5. CASE KcpCertificates \/ KcpAddress \/ KcpAddressTimeout
    <3>1. kmc' = kmc /\ c'.found = c.found /\ c'.after.address = c.after.address /\ pcC # "push" /\ pcK' = pcK
        BY <1>0, <2>5 DEF KcpCertificates, KcpAddress, KcpAddressTimeout, CHolds, ControlPlane
    <3> QED BY <1>0, <2>0, <3>1 DEF AddressInv
  <2> QED BY <1>1, <2>1, <2>2, <2>3, <2>4, <2>5 DEF KcpController
<1>2. CASE KmcController
  <2>0. c' = c
      BY <1>2, KmcStepType
  <2>1. CASE KmcStart
    <3>1. CASE EnsureFinalizer(kmc)
        BY <1>0, <2>0, <2>1, <3>1 DEF KmcStart, AddressInv, KmcType
    <3>2. CASE ~EnsureFinalizer(kmc)
      <4>1. kmc' = kmc /\ kmc.exists /\ pcC' = pcC
          BY <2>1, <3>2 DEF KmcStart
      <4>2. k'.before = kmc /\ (kmc.address => k'.after.address)
        <5>1. CASE kmc.deleting
            BY <2>1, <3>2, <5>1 DEF KmcStart, NoK
        <5>2. CASE ~kmc.deleting
          <6>1. k' = [NoK EXCEPT !.before = kmc, !.svc = TRUE,
                                 !.after = [kmc EXCEPT !.address = @ \/ mode.service = "NodePort"]]
              BY <2>1, <3>2, <5>2 DEF KmcStart, reconcileServices
          <6>2. kmc.address => [kmc EXCEPT !.address = @ \/ mode.service = "NodePort"].address
              BY <1>0 DEF KmcType
          <6> QED BY <6>1, <6>2 DEF NoK
        <5> QED BY <5>1, <5>2
      <4> QED BY <1>0, <2>0, <4>1, <4>2 DEF AddressInv
    <3> QED BY <3>1, <3>2
  <2>2. CASE KmcLoadBalancer
    <3>0. pcK = "wait" /\ pcC' = pcC
        BY <2>2 DEF KmcLoadBalancer
    <3>1. kmc' = kmc \/ (kmc' = [kmc EXCEPT !.address = TRUE] /\ kmc.exists)
      <4>1. CASE mode.remote \/ kmc # k.before
          BY <2>2, <4>1 DEF KmcLoadBalancer
      <4>2. CASE ~(mode.remote \/ kmc # k.before)
          BY <1>0, <2>2, <3>0, <4>2 DEF KmcLoadBalancer, AddressInv
      <4> QED BY <4>1, <4>2
    <3>2. k'.before = k.before /\ k'.after.address
        BY <1>0, <2>2 DEF KmcLoadBalancer, KHolds, KmcType
    <3>3. ~kmc'.exists => kmc' = NoKmc
        BY <1>0, <3>1 DEF KmcType, AddressInv
    <3> QED BY <1>0, <2>0, <3>0, <3>2, <3>3 DEF AddressInv
  <2>3. CASE KmcLoadBalancerTimeout
      BY <1>0, <2>0, <2>3 DEF KmcLoadBalancerTimeout, AddressInv
  <2>4. CASE KmcObjects
    <3>1. \E S : k' = [k EXCEPT !.after = Completed(k.after, S)]
        BY <1>0, <2>4 DEF KmcObjects, KHolds
    <3>2. k'.before = k.before /\ k'.after.address = k.after.address
        BY <1>0, <3>1, CompletedType, SMTT(30) DEF KHolds
    <3> QED BY <1>0, <2>0, <2>4, <3>2 DEF KmcObjects, AddressInv
  <2>5. CASE reconcileStatefulSet
    <3>1. k'.before = k.before /\ k'.after.address = k.after.address
        BY <1>0, <2>5 DEF reconcileStatefulSet, KHolds, KmcType, WithoutHash
    <3> QED BY <1>0, <2>0, <2>5, <3>1 DEF reconcileStatefulSet, AddressInv
  <2>6. CASE KmcStatus
    <3>1. k' = NoK /\ pcK' = "idle" /\ pcC' = pcC
        BY <2>6 DEF KmcStatus
    <3>2. updateStatus(k.after) \in KmcType /\ SameLife(k.before, updateStatus(k.after))
        BY <1>0, StatusType
    <3>3. ~kmc'.exists => kmc' = NoKmc
        BY <1>0, <2>6, <3>2, PatchedKmc DEF KmcStatus, AddressInv
    <3> QED BY <1>0, <1>n, <2>0, <3>1, <3>3 DEF AddressInv
  <2>7. CASE KmcDelete
    <3>1. k'.before = k.before /\ k'.after.address = k.after.address
        BY <1>0, <2>7, SMTT(30) DEF KmcDelete, KHolds, KmcType
    <3> QED BY <1>0, <2>0, <2>7, <3>1 DEF KmcDelete, AddressInv
  <2> QED BY <1>2, <2>1, <2>2, <2>3, <2>4, <2>5, <2>6, <2>7 DEF KmcController
<1>3. CASE Outside
  <2>1. CASE Crash
    <3>1. NoC.found = NoKmc
        BY DEF NoC
    <3> QED BY <1>0, <1>n, <2>1, <3>1 DEF Crash, AddressInv
  <2>2. CASE CollectKmc
    <3>1. ~kmc'.exists => kmc' = NoKmc
        BY <1>0, <2>2 DEF CollectKmc, KmcType
    <3> QED BY <1>0, <2>2, <3>1 DEF CollectKmc, AddressInv
  <2>3. CASE LoadBalancerReady \/ PodsRoll \/ PodsReady \/ CollectObjects \/ Edit \/ Delete
      BY <1>0, <2>3 DEF LoadBalancerReady, PodsRoll, PodsReady, CollectObjects, Edit, Delete, AddressInv
  <2> QED BY <1>3, <2>1, <2>2, <2>3 DEF Outside, World
<1> QED BY <1>1, <1>2, <1>3 DEF Next, Outside

(* What the Cluster controller holds and writes keeps the life of what it    *)
(* read.                                                                     *)
LEMMA KmcStepLife ==
    ASSUME Inv, KmcController
    PROVE  /\ SameLife(k.before, k.after)'
           /\ kmc'.deleting = kmc.deleting \/ (kmc' = NoKmc /\ kmc.deleting)
           /\ kmc'.exists => kmc.exists
           /\ kmc.exists /\ ~kmc.deleting => kmc'.exists
<1> USE DEF GotoK, capi, hosting
<1>0. /\ k \in KHolds /\ kmc \in KmcType /\ k.before \in KmcType /\ k.after \in KmcType
      /\ SameLife(k.before, k.after)
    BY DEF Inv, TypeOK, KHolds, DeletionInv
<1>1. CASE KmcStart
  <2>1. CASE EnsureFinalizer(kmc)
      BY <1>0, <1>1, <2>1 DEF KmcStart, KmcType
  <2>2. CASE ~EnsureFinalizer(kmc)
    <3>1. kmc' = kmc
        BY <1>1, <2>2 DEF KmcStart
    <3>2. CASE kmc.deleting
      <4>1. k' = [NoK EXCEPT !.before = kmc, !.after = kmc]
          BY <1>1, <2>2, <3>2 DEF KmcStart
      <4> QED BY <3>1, <3>2, <4>1 DEF NoK, SameLife
    <3>3. CASE ~kmc.deleting
      <4>1. k' = [NoK EXCEPT !.before = kmc, !.svc = TRUE,
                             !.after = [kmc EXCEPT !.address = @ \/ mode.service = "NodePort"]]
          BY <1>1, <2>2, <3>3 DEF KmcStart, reconcileServices
      <4>2. SameLife(kmc, [kmc EXCEPT !.address = @ \/ mode.service = "NodePort"])
          BY <1>0 DEF KmcType, SameLife
      <4> QED BY <3>1, <4>1, <4>2 DEF NoK, SameLife
    <3> QED BY <3>2, <3>3
  <2> QED BY <2>1, <2>2
<1>2. CASE KmcLoadBalancer
  <2>1. SameLife(k.before, k.after)'
      BY <1>0, <1>2 DEF KmcLoadBalancer, KHolds, KmcType, SameLife
  <2>2. kmc' = kmc \/ kmc' = [kmc EXCEPT !.address = TRUE]
      BY <1>2 DEF KmcLoadBalancer
  <2>3. kmc'.deleting = kmc.deleting /\ kmc'.exists = kmc.exists
      BY <1>0, <2>2 DEF KmcType
  <2> QED BY <2>1, <2>3
<1>3. CASE KmcLoadBalancerTimeout
    BY <1>0, <1>3 DEF KmcLoadBalancerTimeout, SameLife
<1>4. CASE KmcObjects
  <2>1. \E S : k' = [k EXCEPT !.after = Completed(k.after, S)]
      BY <1>0, <1>4 DEF KmcObjects, KHolds
  <2>2. SameLife(k.before, k.after)'
      BY <1>0, <2>1, CompletedType, SMTT(30) DEF KHolds, SameLife
  <2> QED BY <1>4, <2>2 DEF KmcObjects
<1>5. CASE reconcileStatefulSet
  <2>1. SameLife(k.before, k.after)'
      BY <1>0, <1>5 DEF reconcileStatefulSet, KHolds, KmcType, WithoutHash, SameLife
  <2> QED BY <1>5, <2>1 DEF reconcileStatefulSet
<1>6. CASE KmcStatus
  <2>1. SameLife(k.before, k.after)'
      BY <1>6 DEF KmcStatus, NoK, SameLife
  <2>2. updateStatus(k.after) \in KmcType /\ SameLife(k.before, updateStatus(k.after))
      BY StatusType
  <2>3. kmc' = Patched(kmc, k.before, updateStatus(k.after), NoKmc)
      BY <1>6 DEF KmcStatus
  <2>4. NoKmc.exists = FALSE
      BY DEF NoKmc
  <2> QED BY <1>0, <2>1, <2>2, <2>3, <2>4, PatchedKmc, SMTT(30)
<1>7. CASE KmcDelete
  <2>1. SameLife(k.before, k.after)'
      BY <1>0, <1>7, SMTT(30) DEF KmcDelete, KHolds, KmcType, SameLife
  <2> QED BY <1>7, <2>1 DEF KmcDelete
<1> QED BY <1>1, <1>2, <1>3, <1>4, <1>5, <1>6, <1>7 DEF KmcController

LEMMA DeletionNext == Inv /\ Next => DeletionInv'
<1> SUFFICES ASSUME Inv, Next PROVE DeletionInv'
    OBVIOUS
<1> USE DEF DoneC, GotoC, capi, hosting
<1>0. /\ DeletionInv /\ AddressInv /\ c \in CHolds /\ kmc \in KmcType /\ kcp \in ControlPlane
      /\ c.before \in ControlPlane /\ c.after \in ControlPlane /\ c.found \in KmcType
      /\ kcp.deleting \in BOOLEAN /\ kcp.finalizer \in BOOLEAN
    BY DEF Inv, TypeOK, CHolds, ControlPlane
<1>n. /\ NoKmc.deleting = FALSE /\ NoControlPlane.deleting = FALSE /\ NoControlPlane.exists = FALSE
      /\ SameLife(NoC.before, NoC.after) /\ SameLife(NoK.before, NoK.after)
    BY DEF NoKmc, NoControlPlane, NoC, NoK, SameLife
<1>1. CASE KcpController
  <2>0. UNCHANGED <<k, pcK>>
      BY <1>1, KcpOnKmc
  <2>1. CASE KcpStart
    <3>1. CASE EnsureFinalizer(kcp)
        BY <1>0, <2>0, <2>1, <3>1 DEF KcpStart, EnsureFinalizer, DeletionInv, Creates, ControlPlane
    <3>2. CASE ~EnsureFinalizer(kcp)
      <4>1. /\ kcp.exists /\ UNCHANGED <<kcp, kmc>>
            /\ pcC' = CASE kcp.deleting -> "delete" [] kcp.certs /\ ~kcp.deleting -> "sync" [] OTHER -> "certificates"
          BY <2>1, <3>2 DEF KcpStart
      <4>2. SameLife(c.before, c.after)'
          BY <2>1, <3>2 DEF KcpStart, NoC, SameLife
      <4>3. (pcC' = "delete" => kcp.deleting) /\ (Creates' => ~kcp.deleting)
        <5>1. CASE kcp.deleting
            BY <4>1, <5>1 DEF Creates
        <5>2. CASE ~kcp.deleting
            BY <4>1, <5>2
        <5> QED BY <5>1, <5>2
      <4> QED BY <1>0, <2>0, <3>2, <4>1, <4>2, <4>3 DEF EnsureFinalizer, DeletionInv
    <3> QED BY <3>1, <3>2
  <2>2. CASE KcpCertificates
    <3>0. c'.before = c.before /\ c'.after = [c.after EXCEPT !.certs = TRUE]
        BY <1>0, <2>2 DEF KcpCertificates, CHolds
    <3>1. SameLife(c.before, c.after)'
        BY <1>0, <3>0 DEF ControlPlane, SameLife, DeletionInv
    <3> QED BY <1>0, <2>0, <2>2, <3>1 DEF KcpCertificates, DeletionInv, Creates
  <2>3. CASE KcpSync
    <3>1. CASE ~kmc.exists
      <4>1. [NoKmc EXCEPT !.exists = TRUE] \in KmcType /\ [NoKmc EXCEPT !.exists = TRUE].deleting = FALSE
          BY Records DEF KmcType, NoKmc
      <4>2. kmc' = Desired([NoKmc EXCEPT !.exists = TRUE], c.after)
          BY <2>3, <3>1 DEF KcpSync
      <4>3. kmc'.deleting = FALSE
          BY <1>0, <4>1, <4>2, DesiredType DEF SameLife
      <4> QED BY <1>0, <2>0, <2>3, <3>1, <4>3 DEF KcpSync, DeletionInv, Creates
    <3>2. CASE kmc.exists
      <4> DEFINE after == [c.after EXCEPT !.address = @ \/ kmc.address]
      <4>1. c'.before = c.before /\ c'.after = after /\ UNCHANGED <<kcp, kmc>>
          BY <1>0, <2>3, <3>2 DEF KcpSync, CHolds
      <4>2. SameLife(c.after, after)
          BY <1>0 DEF ControlPlane, SameLife
      <4>3. pcC' \in {"push", "status", "address"} /\ Creates
          BY <2>3, <3>2 DEF KcpSync, Creates
      <4> QED BY <1>0, <2>0, <4>1, <4>2, <4>3, SMTT(30) DEF DeletionInv, SameLife
    <3> QED BY <3>1, <3>2
  <2>4. CASE KcpPush
    <3>1. Creates /\ pcC' \in {"address", "status"} /\ kcp' = kcp
        BY <2>4 DEF KcpPush, Creates
    <3>2. kmc'.deleting = kmc.deleting \/ kmc'.deleting = FALSE
      <4>1. kmc' = Patched(kmc, c.found, Desired(c.found, c.after), NoKmc)
          BY <2>4 DEF KcpPush
      <4>2. Desired(c.found, c.after) \in KmcType /\ SameLife(c.found, Desired(c.found, c.after))
          BY <1>0, DesiredType
      <4> QED BY <1>0, <1>n, <4>1, <4>2, PatchedKmc, SMTT(30)
    <3>3. c'.before = c.before /\ c'.after = c.after
        BY <1>0, <2>4 DEF KcpPush, CHolds
    <3> QED BY <1>0, <2>0, <3>1, <3>2, <3>3 DEF DeletionInv, SameLife
  <2>5. CASE KcpAddress \/ KcpAddressTimeout
    <3>1. c'.before = c.before /\ c'.after = c.after
        BY <1>0, <2>5 DEF KcpAddress, KcpAddressTimeout, CHolds
    <3> QED BY <1>0, <2>0, <2>5, <3>1 DEF KcpAddress, KcpAddressTimeout, DeletionInv, SameLife, Creates
  <2>6. CASE reconcileDelete
    <3>1. c' = c \/ c' = [c EXCEPT !.after.finalizer = FALSE]
        BY <2>6 DEF reconcileDelete
    <3>2. SameLife(c.before, c.after)'
        BY <1>0, <3>1, SMTT(30) DEF CHolds, ControlPlane, SameLife, DeletionInv
    <3> QED BY <1>0, <2>0, <2>6, <3>2 DEF reconcileDelete, DeletionInv, Creates
  <2>7. CASE KcpStatus
    <3>1. SameLife(c.before, c.after)'
        BY <1>0, <1>n, <2>7 DEF KcpStatus, AfterCluster, CHolds, SameLife, DeletionInv
    <3>2. computeStatus(c.after) \in ControlPlane /\ SameLife(c.before, computeStatus(c.after))
        BY <1>0 DEF DeletionInv, SameLife, computeStatus, ControlPlane, Reachable
    <3>3. kcp' = Patched(kcp, c.before, computeStatus(c.after), NoControlPlane) /\ kmc' = kmc
          /\ pcC' \in {"cluster", "idle", "infra"}
        BY <2>7 DEF KcpStatus, AfterCluster
    <3>4. (kcp'.deleting => kcp'.finalizer) /\ (kcp'.exists => kcp.exists /\ kcp'.deleting = kcp.deleting)
        BY <1>0, <1>n, <3>2, <3>3, PatchedKcp, SMTT(30) DEF DeletionInv
    <3> QED BY <1>0, <2>0, <3>1, <3>3, <3>4 DEF DeletionInv, Creates
  <2>8. CASE KcpPatchCluster \/ patchInfrastructureStatus
    <3>1. (c' = c \/ c' = NoC) /\ UNCHANGED <<kcp, kmc>> /\ pcC' \in {"idle", "infra"}
        BY <2>8 DEF KcpPatchCluster, patchInfrastructureStatus, AfterCluster
    <3> QED BY <1>0, <1>n, <2>0, <3>1 DEF DeletionInv, Creates
  <2> QED BY <1>1, <2>1, <2>2, <2>3, <2>4, <2>5, <2>6, <2>7, <2>8 DEF KcpController
<1>2. CASE KmcController
    BY <1>0, <1>n, <1>2, KmcStepType, KmcStepLife DEF DeletionInv, Creates, SameLife
<1>3. CASE Outside
  <2>1. CASE Crash
      BY <1>0, <1>n, <2>1 DEF Crash, DeletionInv, Creates
  <2>2. CASE CollectKmc
      BY <1>0, <1>n, <2>2 DEF CollectKmc, DeletionInv, Creates
  <2>3. CASE LoadBalancerReady \/ PodsRoll \/ PodsReady \/ CollectObjects
      BY <1>0, <2>3 DEF LoadBalancerReady, PodsRoll, PodsReady, CollectObjects, DeletionInv, Creates
  <2>4. CASE Edit
    <3>1. kcp'.exists = kcp.exists /\ kcp'.deleting = kcp.deleting /\ kcp'.finalizer = kcp.finalizer
        BY <1>0, <2>4 DEF Edit, ControlPlane
    <3> QED BY <1>0, <2>4, <3>1 DEF Edit, DeletionInv, Creates
  <2>5. CASE Delete
    <3>1. \/ ~kcp.finalizer /\ kcp' = NoControlPlane
          \/ kcp.finalizer /\ kcp'.exists /\ kcp'.deleting /\ kcp'.finalizer
        BY <1>0, <2>5 DEF Delete, ControlPlane
    <3> QED BY <1>0, <1>n, <2>5, <3>1 DEF Delete, DeletionInv, Creates
  <2> QED BY <1>3, <2>1, <2>2, <2>3, <2>4, <2>5 DEF Outside, World
<1> QED BY <1>1, <1>2, <1>3 DEF Next, Outside

----------------------------------------------------------------------------
(* What the pods mount.                                                      *)

LEMMA MountedParts ==
    ASSUME NEW m
    PROVE  MountedObjects(generateStatefulSet(m)) = AlwaysMounted \cup AppliedFor(m)
    BY DEF MountedObjects, generateStatefulSet, AlwaysMounted, AppliedFor

(* Neither the objects nor the StatefulSet are touched by the control plane  *)
(* controller, and what it writes into the Cluster needs no more of them.    *)
LEMMA KcpOnMounts ==
    ASSUME Inv, KcpController
    PROVE  MountsInv'
<1> USE DEF DoneC, GotoC, capi, hosting
<1>0. /\ MountsInv /\ DeletionInv /\ AddressInv /\ c \in CHolds /\ kmc \in KmcType /\ kcp \in ControlPlane
      /\ c.before \in ControlPlane /\ c.after \in ControlPlane /\ c.found \in KmcType
    BY DEF Inv, TypeOK, CHolds
<1>1. UNCHANGED <<mode, k, pcK, objects, sts, lb>>
    BY KcpOnKmc
<1>2. /\ AlwaysMounted' = AlwaysMounted /\ (Nothing' <=> Nothing)
      /\ \A S : Exist(S)' <=> Exist(S)
      /\ \A t : MountedObjects(t)' = MountedObjects(t)
    BY <1>1 DEF AlwaysMounted, addMonitoringStack, Nothing, Exist, MountedObjects
<1>a. AppliedFor(k.after)' = AppliedFor(k.after)
    BY <1>1 DEF AppliedFor
<1>b. MountedObjects(sts.template)' = MountedObjects(sts.template)
    BY <1>1, <1>2
<1>3. ASSUME owner => owner',
             ~kmc'.exists /\ MayCreate' => Nothing,
             Live' => Live /\ Exist(AppliedFor(kmc'))
      PROVE  MountsInv'
  <2>1. Live' => Exist(AppliedFor(kmc))'
    <3>1. AppliedFor(kmc)' = AppliedFor(kmc')
        BY DEF AppliedFor
    <3> QED BY <1>2, <1>3, <3>1
  <2> QED BY <1>0, <1>1, <1>2, <1>a, <1>b, <1>3, <2>1 DEF MountsInv
<1>4. CASE KcpSync /\ ~kmc.exists
  <2>1. Nothing /\ UNCHANGED owner
      BY <1>0, <1>4 DEF MountsInv, MayCreate, KcpSync
  <2>2. kmc' = Desired([NoKmc EXCEPT !.exists = TRUE], c.after)
      BY <1>4 DEF KcpSync
  <2>3. [NoKmc EXCEPT !.exists = TRUE] \in KmcType /\ [NoKmc EXCEPT !.exists = TRUE].exists
      BY Records DEF KmcType
  <2>4. kmc'.manifests.added = {} /\ "etcdClient" \notin kmc'.certs /\ kmc'.exists
      BY <1>0, <2>2, <2>3, DesiredType DEF SameLife
  <2>5. AppliedFor(kmc)' = {}
      BY <2>4 DEF AppliedFor
  <2>6. Exist(AppliedFor(kmc))'
      BY <2>5 DEF Exist
  <2>7. ~sts'.exists /\ pcK' = "idle"
      BY <1>1, <2>1 DEF Nothing
  <2> QED BY <1>2, <2>1, <2>4, <2>6, <2>7 DEF MountsInv
<1>5. CASE KcpSync /\ kmc.exists
  <2>1. UNCHANGED <<kmc, owner>>
      BY <1>5 DEF KcpSync
  <2> QED BY <1>0, <1>3, <1>5, <2>1 DEF MountsInv, Live
<1>6. CASE KcpPush
  <2>1. kmc' = Patched(kmc, c.found, Desired(c.found, c.after), NoKmc) /\ UNCHANGED <<kcp, owner>>
      BY <1>6 DEF KcpPush
  <2>2. ~kmc.deleting /\ (MayCreate' => MayCreate)
    <3>1. pcC = "push" /\ pcC' \in {"address", "status"}
        BY <1>6 DEF KcpPush
    <3> QED BY <1>0, <2>1, <3>1 DEF Creates, MayCreate, DeletionInv
  <2> DEFINE d == Desired(c.found, c.after)
  <2>3. /\ d \in KmcType /\ SameLife(c.found, d)
        /\ d.manifests.added = {} /\ "etcdClient" \notin d.certs
      BY <1>0, DesiredType
  <2> HIDE DEF d
  <2>4. \/ kmc' = kmc /\ ~kmc.exists
        \/ /\ kmc.exists /\ kmc'.exists
           /\ kmc'.manifests \in {d.manifests, kmc.manifests}
           /\ kmc'.certs \in {d.certs, kmc.certs}
      BY <1>0, <2>1, <2>2, <2>3, PatchedKmc, SMTT(30) DEF d
  <2>5. CASE kmc' = kmc /\ ~kmc.exists
      BY <1>0, <1>3, <2>1, <2>2, <2>5 DEF MountsInv, Live
  <2>6. CASE /\ kmc.exists /\ kmc'.exists
             /\ kmc'.manifests \in {d.manifests, kmc.manifests}
             /\ kmc'.certs \in {d.certs, kmc.certs}
    <3>1. AppliedFor(kmc') \subseteq AppliedFor(kmc)
        BY <2>3, <2>6 DEF AppliedFor
    <3>2. Live
        BY <2>2, <2>6 DEF Live
    <3>3. Exist(AppliedFor(kmc'))
        BY <1>0, <3>1, <3>2 DEF MountsInv, Exist
    <3> QED BY <1>3, <2>1, <2>6, <3>2, <3>3
  <2> QED BY <2>4, <2>5, <2>6
<1>7. CASE reconcileDelete
  <2>1. pcC' = "status" /\ UNCHANGED <<kcp, owner>> /\ kcp.deleting
      BY <1>0, <1>7 DEF reconcileDelete, DeletionInv
  <2>2. ~MayCreate'
      BY <2>1 DEF MayCreate
  <2>3. kmc' = kmc \/ ~Live'
      BY <1>0, <1>7, SMTT(30) DEF reconcileDelete, Live, KmcType, NoKmc
  <2> QED BY <1>0, <1>3, <2>1, <2>2, <2>3 DEF MountsInv, Live
<1>8. CASE KcpStart
  <2>1. UNCHANGED kmc /\ (owner => owner') /\ pcC = "idle"
      BY <1>8 DEF KcpStart
  <2>2. MayCreate' => MayCreate
    <3>1. CASE EnsureFinalizer(kcp)
        BY <1>0, <1>8, <3>1 DEF KcpStart, MayCreate, ControlPlane
    <3>2. CASE ~EnsureFinalizer(kcp)
      <4>1. kcp.exists /\ kcp' = kcp
          BY <1>8, <3>2 DEF KcpStart
      <4>2. kcp.deleting => pcC' = "delete"
          BY <1>8, <3>2 DEF KcpStart
      <4> QED BY <4>1, <4>2 DEF MayCreate
    <3> QED BY <3>1, <3>2
  <2> QED BY <1>0, <1>3, <2>1, <2>2 DEF MountsInv, Live
<1>9. CASE KcpStatus
  <2>1. computeStatus(c.after) \in ControlPlane /\ SameLife(c.before, computeStatus(c.after))
      BY <1>0 DEF DeletionInv, SameLife, computeStatus, ControlPlane, Reachable
  <2>2. kcp' = Patched(kcp, c.before, computeStatus(c.after), NoControlPlane) /\ UNCHANGED <<kmc, owner>>
        /\ pcC' \in {"cluster", "idle", "infra"}
      BY <1>9 DEF KcpStatus, AfterCluster
  <2>3. kcp'.exists => kcp.exists /\ kcp'.deleting = kcp.deleting
      BY <1>0, <2>1, <2>2, PatchedKcp, SMTT(30) DEF NoControlPlane
  <2>4. MayCreate' => MayCreate
      BY <2>2, <2>3 DEF MayCreate
  <2> QED BY <1>0, <1>3, <2>2, <2>4 DEF MountsInv, Live
<1>10. CASE KcpCertificates \/ KcpAddress \/ KcpAddressTimeout \/ KcpPatchCluster \/ patchInfrastructureStatus
  <2>1. UNCHANGED <<kcp, kmc, owner>> /\ (MayCreate' => MayCreate)
      BY <1>10 DEF KcpCertificates, KcpAddress, KcpAddressTimeout, KcpPatchCluster, patchInfrastructureStatus,
          AfterCluster, MayCreate
  <2> QED BY <1>0, <1>3, <2>1 DEF MountsInv, Live
<1> QED BY <1>4, <1>5, <1>6, <1>7, <1>8, <1>9, <1>10 DEF KcpController

LEMMA MountedAreObjects ==
    /\ \A m \in KmcType : AppliedFor(m) \subseteq Object
    /\ \A t \in Template : MountedObjects(t) \subseteq Object
    /\ AlwaysMounted \subseteq Object
<1>1. Volume \subseteq Object
    BY DEF Volume, Object
<1>2. AlwaysMounted \subseteq Object
    BY DEF AlwaysMounted, addMonitoringStack, Object
<1>3. \A m \in KmcType : AppliedFor(m) \subseteq Object
    BY <1>1 DEF KmcType, Manifests, AppliedFor, Object
<1>4. \A t \in Template : MountedObjects(t) \subseteq Object
    BY <1>1, <1>2 DEF Template, Manifests, MountedObjects, AlwaysMounted, Object
<1> QED BY <1>2, <1>3, <1>4

(* The objects are applied before the pods that mount them, and stay.        *)
LEMMA KmcOnMounts ==
    ASSUME Inv, KmcController
    PROVE  MountsInv'
<1> USE DEF GotoK, capi, hosting
<1>0. /\ MountsInv /\ DeletionInv /\ AddressInv /\ k \in KHolds /\ kmc \in KmcType
      /\ k.before \in KmcType /\ k.after \in KmcType
      /\ objects \in [Object -> Content] /\ sts \in StatefulSet /\ sts.template \in Template
    BY DEF Inv, TypeOK, KHolds, StatefulSet
<1>1. UNCHANGED <<mode, kcp, pcC>> /\ (MayCreate' <=> MayCreate) /\ AlwaysMounted' = AlwaysMounted
    BY KmcStepType DEF MayCreate, AlwaysMounted, addMonitoringStack
<1>2. Live' => Live
    BY KmcStepLife, SMTT(30) DEF Live, NoKmc
<1>3. ASSUME \A o \in Object : objects[o].exists => objects'[o].exists
      PROVE  \A S \in SUBSET Object : Exist(S) => Exist(S)'
    BY <1>3 DEF Exist
<1>4. ASSUME UNCHANGED <<kmc, sts>>, \A o \in Object : objects[o].exists => objects'[o].exists,
             kmc.exists \/ ~MayCreate, pcK' \notin {"idle", "delete"},
             Live /\ mode.remote => owner',
             Live => Exist(AppliedFor(k.after))',
             Live /\ pcK' = "statefulset" => Exist(AlwaysMounted)',
             pcK' = "objects" /\ mode.service = "LoadBalancer" => k'.after.address
      PROVE  MountsInv'
  <2>1. (Live' <=> Live) /\ AppliedFor(kmc)' = AppliedFor(kmc) /\ AppliedFor(kmc) \in SUBSET Object
      BY <1>0, <1>4, MountedAreObjects DEF Live, AppliedFor
  <2>2. MountedObjects(sts.template)' = MountedObjects(sts.template) /\ MountedObjects(sts.template) \subseteq Object
      BY <1>0, <1>1, <1>4, MountedAreObjects DEF MountedObjects, addMonitoringStack
  <2>3. Live /\ sts.exists => Exist(MountedObjects(sts.template))'
      BY <1>0, <1>3, <1>4, <2>2 DEF MountsInv
  <2>4. Live => Exist(AppliedFor(kmc))'
    <3>1. Live => Exist(AppliedFor(kmc))
        BY <1>0 DEF MountsInv
    <3> QED BY <1>3, <1>4, <2>1, <3>1 DEF Exist
  <2> QED BY <1>1, <1>4, <2>1, <2>3, <2>4 DEF MountsInv
<1>5. pcK # "idle" => ~Nothing /\ (kmc.exists \/ ~MayCreate)
    BY <1>0 DEF MountsInv, Nothing
<1>6. CASE KmcStart
  <2>1. CASE EnsureFinalizer(kmc)
    <3>1. UNCHANGED <<owner, objects, pcK, k, sts>> /\ kmc' = [kmc EXCEPT !.finalizer = TRUE] /\ kmc.exists
        BY <1>6, <2>1 DEF KmcStart
    <3>2. /\ kmc'.exists = kmc.exists /\ kmc'.deleting = kmc.deleting
          /\ kmc'.manifests = kmc.manifests /\ kmc'.certs = kmc.certs
        BY <1>0, <3>1 DEF KmcType
    <3>3. /\ AppliedFor(kmc)' = AppliedFor(kmc) /\ AppliedFor(k.after)' = AppliedFor(k.after)
          /\ (Live' <=> Live) /\ (Nothing' <=> Nothing) /\ (\A S : Exist(S)' <=> Exist(S))
          /\ MountedObjects(sts.template)' = MountedObjects(sts.template)
        BY <1>1, <3>1, <3>2 DEF AppliedFor, Live, Nothing, Exist, MountedObjects, addMonitoringStack
    <3> QED BY <1>0, <1>1, <3>1, <3>2, <3>3 DEF MountsInv
  <2>2. CASE ~EnsureFinalizer(kmc) /\ kmc.deleting
    <3>1. kmc.exists /\ kmc' = kmc /\ pcK' = "delete"
        BY <1>6, <2>2 DEF KmcStart
    <3> QED BY <2>2, <3>1 DEF MountsInv, Live
  <2>3. CASE ~EnsureFinalizer(kmc) /\ ~kmc.deleting
    <3> DEFINE m == [kmc EXCEPT !.address = @ \/ mode.service = "NodePort"]
    <3>1. /\ kmc.exists /\ UNCHANGED <<kmc, sts>>
          /\ owner' = (owner \/ ensureExternalOwner(kmc.deleting))
          /\ objects' = [objects EXCEPT !["service"] = generateService(kmc)]
          /\ k' = [NoK EXCEPT !.before = kmc, !.svc = TRUE, !.after = m]
          /\ pcK' = IF mode.service = "LoadBalancer" /\ ~kmc.address THEN "wait" ELSE "objects"
        BY <1>6, <2>3 DEF KmcStart, reconcileServices
    <3>2. m.manifests = kmc.manifests /\ m.certs = kmc.certs /\ (kmc.address => m.address)
        BY <1>0 DEF KmcType
    <3> HIDE DEF m
    <3>3. k'.after = m
        BY <3>1 DEF NoK
    <3>4. \A o \in Object : objects[o].exists => objects'[o].exists
        BY <1>0, <3>1 DEF generateService, Static, From
    <3>5. AppliedFor(k.after)' = AppliedFor(kmc)
        BY <3>2, <3>3 DEF AppliedFor
    <3>6. mode.remote => owner'
        BY <2>3, <3>1 DEF ensureExternalOwner
    <3>7. Live => Exist(AppliedFor(k.after))'
      <4>1. Live => Exist(AppliedFor(kmc)) /\ AppliedFor(kmc) \in SUBSET Object
          BY <1>0, MountedAreObjects DEF MountsInv
      <4> QED BY <3>4, <3>5, <4>1 DEF Exist
    <3> QED BY <1>4, <3>1, <3>2, <3>3, <3>4, <3>6, <3>7
  <2> QED BY <2>1, <2>2, <2>3
<1>7. CASE KmcObjects
  <2>1. pcK = "objects" /\ UNCHANGED <<kmc, owner, sts>>
      BY <1>7 DEF KmcObjects
  <2>2. PICK n \in 0..Len(Order) :
            LET done == {Order[i] : i \in {j \in 1..n : Needed(Order[j], k.after)}}
            IN  /\ objects' = [o \in Object |-> IF o \in done THEN Generated(o, k.after) ELSE objects[o]]
                /\ k' = [k EXCEPT !.after = Completed(k.after, done)]
                /\ pcK' = IF n = Len(Order) THEN "statefulset" ELSE "status"
      BY <1>0, <1>7 DEF KmcObjects, KHolds
  <2> DEFINE S == {Order[i] : i \in {j \in 1..n : Needed(Order[j], k.after)}}
  <2>3. /\ objects' = [o \in Object |-> IF o \in S THEN Generated(o, k.after) ELSE objects[o]]
        /\ k'.after = Completed(k.after, S)
        /\ pcK' = IF n = Len(Order) THEN "statefulset" ELSE "status"
      BY <1>0, <2>2 DEF KHolds
  <2>4. S \subseteq {Order[i] : i \in 1..Len(Order)}
      BY SMTT(30) DEF Order
  <2>5. n = Len(Order) => AlwaysMounted \subseteq S
    <3> SUFFICES ASSUME n = Len(Order) PROVE AlwaysMounted \subseteq S
        OBVIOUS
    <3>1. \A i \in 1..11 : Needed(Order[i], k.after) => Order[i] \in S
        BY DEF Order
    <3>2. /\ Order[5] = "config" /\ Order[6] = "entrypoint" /\ Order[7] = "monitoring"
          /\ Order[10] = "nats" /\ Order[11] = "telemetry"
        BY DEF Order
    <3>3. Needed("config", k.after) /\ Needed("entrypoint", k.after) /\ Needed("telemetry", k.after)
        BY <1>0, <2>1 DEF Needed, MountsInv
    <3>4. (mode.monitoring => Needed("monitoring", k.after)) /\ (mode.storage = "nats" => Needed("nats", k.after))
        BY DEF Needed
    <3> HIDE DEF S
    <3> QED BY <3>1, <3>2, <3>3, <3>4, SMTT(30) DEF AlwaysMounted, addMonitoringStack
  <2> HIDE DEF S
  <2>6. \A o \in Object : (objects[o].exists \/ o \in S) => objects'[o].exists
      BY <1>0, <2>3, <2>4, GeneratedType
  <2>7. S \subseteq Object
      BY <2>4, SMTT(30) DEF Order, Object
  <2>8. Live => Exist(AppliedFor(k.after))'
    <3>0. /\ k'.after.manifests.added \subseteq k.after.manifests.added \cup S
          /\ "etcdClient" \in k'.after.certs => "etcdClient" \in k.after.certs \/ "etcdCerts" \in S
        BY <1>0, <2>3, CompletedType
    <3>1. AppliedFor(k.after)' \subseteq AppliedFor(k.after) \cup S
        BY <3>0 DEF AppliedFor
    <3>2. Live => Exist(AppliedFor(k.after)) /\ AppliedFor(k.after) \subseteq Object
        BY <1>0, <2>1, MountedAreObjects DEF MountsInv
    <3> QED BY <2>6, <2>7, <3>1, <3>2 DEF Exist
  <2>9. pcK' = "statefulset" => Exist(AlwaysMounted)'
      BY <1>1, <2>3, <2>5, <2>6, <2>7 DEF Exist
  <2>10. Live /\ mode.remote => owner'
      BY <1>0, <1>5, <2>1 DEF MountsInv
  <2>11. pcK' \in {"statefulset", "status"} /\ (kmc.exists \/ ~MayCreate)
      BY <1>5, <2>1, <2>3
  <2> QED BY <1>4, <2>1, <2>6, <2>8, <2>9, <2>10, <2>11
<1>8. CASE reconcileStatefulSet
  <2>1. pcK = "statefulset" /\ pcK' = "status" /\ UNCHANGED <<kmc, owner>>
      BY <1>8 DEF reconcileStatefulSet
  <2>2. sts' = [sts EXCEPT !.exists = TRUE, !.template = generateStatefulSet(k.after)]
      BY <1>8 DEF reconcileStatefulSet
  <2>3. objects' = objects \/ objects' = [objects EXCEPT !["kubeconfig"] = Static]
      BY <1>8 DEF reconcileStatefulSet
  <2>4. \A o \in Object : objects[o].exists => objects'[o].exists
      BY <1>0, <2>3, SMTT(30) DEF Static, From
  <2>5. k'.after = WithoutHash(k.after)
      BY <1>0, <1>8 DEF reconcileStatefulSet, KHolds
  <2>6. AppliedFor(k.after)' = AppliedFor(k.after)
      BY <1>0, <2>5 DEF AppliedFor, WithoutHash, KmcType
  <2>7. MountedObjects(sts.template)' = AlwaysMounted \cup AppliedFor(k.after)
    <3>1. sts'.template = generateStatefulSet(k.after)
        BY <1>0, <2>2 DEF StatefulSet
    <3>2. MountedObjects(sts.template)' = MountedObjects(sts'.template)
        BY <1>1 DEF MountedObjects, addMonitoringStack
    <3> QED BY <3>1, <3>2, MountedParts
  <2>8. Live => /\ Exist(AppliedFor(k.after))' /\ Exist(AlwaysMounted)'
                /\ Exist(AppliedFor(kmc))'
    <3>1. Live => Exist(AppliedFor(k.after)) /\ Exist(AlwaysMounted) /\ Exist(AppliedFor(kmc))
        BY <1>0, <2>1 DEF MountsInv
    <3>2. /\ AppliedFor(k.after) \subseteq Object /\ AlwaysMounted \subseteq Object
          /\ AppliedFor(kmc) \subseteq Object
        BY <1>0, MountedAreObjects
    <3>3. AppliedFor(kmc)' = AppliedFor(kmc)
        BY <2>1 DEF AppliedFor
    <3> QED BY <1>1, <2>4, <2>6, <3>1, <3>2, <3>3 DEF Exist
  <2>9. Live => Exist(MountedObjects(sts.template))'
    <3>1. Exist(AppliedFor(k.after))' <=> \A o \in AppliedFor(k.after) : objects'[o].exists
        BY <2>6 DEF Exist
    <3>2. Exist(AlwaysMounted)' <=> \A o \in AlwaysMounted : objects'[o].exists
        BY <1>1 DEF Exist
    <3>3. Exist(MountedObjects(sts.template))'
              <=> \A o \in AlwaysMounted \cup AppliedFor(k.after) : objects'[o].exists
        BY <2>7 DEF Exist
    <3> QED BY <2>8, <3>1, <3>2, <3>3
  <2>10. (Live' <=> Live) /\ (Live /\ mode.remote => owner)
      BY <1>0, <1>5, <2>1 DEF MountsInv, Live
  <2> QED BY <1>1, <1>5, <2>1, <2>8, <2>9, <2>10 DEF MountsInv
<1>9. CASE KmcLoadBalancer
  <2>1. pcK = "wait" /\ pcK' \in {"status", "objects"} /\ UNCHANGED <<owner, objects, sts>>
      BY <1>9 DEF KmcLoadBalancer
  <2>2. kmc' = kmc \/ kmc' = [kmc EXCEPT !.address = TRUE]
      BY <1>9 DEF KmcLoadBalancer
  <2>3. /\ kmc'.exists = kmc.exists /\ kmc'.deleting = kmc.deleting
        /\ kmc'.manifests = kmc.manifests /\ kmc'.certs = kmc.certs
      BY <1>0, <2>2 DEF KmcType
  <2>4. k'.after = [k.after EXCEPT !.address = TRUE]
      BY <1>0, <1>9 DEF KmcLoadBalancer, KHolds
  <2>5. /\ k'.after.manifests = k.after.manifests /\ k'.after.certs = k.after.certs /\ k'.after.address
      BY <1>0, <2>4 DEF KmcType
  <2>6. /\ AppliedFor(kmc)' = AppliedFor(kmc) /\ AppliedFor(k.after)' = AppliedFor(k.after)
        /\ (Live' <=> Live) /\ (\A S : Exist(S)' <=> Exist(S))
        /\ MountedObjects(sts.template)' = MountedObjects(sts.template)
      BY <1>1, <2>1, <2>3, <2>5 DEF AppliedFor, Live, Exist, MountedObjects, addMonitoringStack
  <2> QED BY <1>0, <1>1, <1>5, <2>1, <2>3, <2>5, <2>6 DEF MountsInv
<1>10. CASE KmcLoadBalancerTimeout
  <2>1. pcK = "wait" /\ pcK' = "status" /\ UNCHANGED <<kmc, owner, objects, sts, k>>
      BY <1>10 DEF KmcLoadBalancerTimeout
  <2>2. Live => Exist(AppliedFor(k.after))'
      BY <1>0, <2>1 DEF MountsInv, Exist, AppliedFor
  <2>3. Live /\ mode.remote => owner'
      BY <1>0, <1>5, <2>1 DEF MountsInv
  <2> QED BY <1>4, <1>5, <2>1, <2>2, <2>3
<1>11. CASE KmcStatus
  <2>1. /\ pcK = "status" /\ pcK' = "idle" /\ UNCHANGED <<owner, objects, sts>>
        /\ kmc' = Patched(kmc, k.before, updateStatus(k.after), NoKmc)
      BY <1>11 DEF KmcStatus
  <2> DEFINE a == updateStatus(k.after)
  <2>2. /\ a \in KmcType /\ SameLife(k.before, a) /\ a.manifests = k.after.manifests /\ a.certs = k.after.certs
      BY StatusType
  <2> HIDE DEF a
  <2>3. \/ kmc' = kmc /\ ~kmc.exists
        \/ kmc' = NoKmc /\ kmc.deleting
        \/ /\ kmc.exists /\ kmc'.exists /\ kmc'.deleting = kmc.deleting
           /\ kmc'.manifests \in {k.after.manifests, kmc.manifests}
           /\ kmc'.certs \in {k.after.certs, kmc.certs}
      BY <1>0, <2>1, <2>2, PatchedKmc, SMTT(30) DEF a
  <2>4. ~kmc'.exists => ~MayCreate
    <3>1. kmc.deleting => ~MayCreate
        BY <1>0 DEF DeletionInv, Creates, MayCreate
    <3> QED BY <1>5, <2>1, <2>3, <3>1
  <2>5. CASE Live'
    <3>1. Live
        BY <1>2, <2>5
    <3>2. AppliedFor(kmc') \subseteq AppliedFor(kmc) \cup AppliedFor(k.after)
        BY <2>3, <2>5, <3>1 DEF AppliedFor, Live
    <3>3. Exist(AppliedFor(kmc)) /\ Exist(AppliedFor(k.after)) /\ (mode.remote => owner)
          /\ (sts.exists => Exist(MountedObjects(sts.template)))
        BY <1>0, <1>5, <2>1, <3>1 DEF MountsInv
    <3>4. Exist(AppliedFor(kmc))'
        BY <2>1, <3>2, <3>3 DEF Exist, AppliedFor
    <3>5. sts'.exists => Exist(MountedObjects(sts.template))'
      <4>1. MountedObjects(sts.template)' = MountedObjects(sts.template)
          BY <1>1, <2>1 DEF MountedObjects, addMonitoringStack
      <4> QED BY <2>1, <3>3, <4>1 DEF Exist
    <3> QED BY <1>1, <2>1, <2>5, <3>3, <3>4, <3>5 DEF MountsInv, Live
  <2>6. CASE ~Live'
      BY <1>1, <2>1, <2>4, <2>6 DEF MountsInv
  <2> QED BY <2>5, <2>6
<1>12. CASE KmcDelete
  <2>1. pcK = "delete" /\ pcK' = "status" /\ UNCHANGED kmc
      BY <1>12 DEF KmcDelete
  <2> QED BY <1>0, <1>1, <1>5, <2>1 DEF MountsInv, Live
<1> QED BY <1>6, <1>7, <1>8, <1>9, <1>10, <1>11, <1>12 DEF KmcController

LEMMA OutsideOnMounts ==
    ASSUME Inv, Outside
    PROVE  MountsInv'
<1> USE DEF capi, hosting
<1>0. /\ MountsInv /\ DeletionInv /\ kmc \in KmcType /\ kcp \in ControlPlane /\ sts \in StatefulSet
    BY DEF Inv, TypeOK
<1>1. ASSUME UNCHANGED <<mode, kmc, owner, objects>>, sts'.exists = sts.exists, sts'.template = sts.template,
             MayCreate' => MayCreate,
             (pcK' = pcK /\ k' = k) \/ pcK' = "idle"
      PROVE  MountsInv'
  <2>1. /\ AlwaysMounted' = AlwaysMounted /\ (Nothing => Nothing') /\ (Live' <=> Live)
        /\ (\A S : Exist(S)' <=> Exist(S)) /\ AppliedFor(kmc)' = AppliedFor(kmc)
        /\ MountedObjects(sts.template)' = MountedObjects(sts.template)
      BY <1>1 DEF AlwaysMounted, addMonitoringStack, Nothing, Live, Exist, AppliedFor, MountedObjects
  <2>2. pcK' # "idle" => pcK' = pcK /\ k' = k /\ AppliedFor(k.after)' = AppliedFor(k.after)
      BY <1>1 DEF AppliedFor
  <2> QED BY <1>0, <1>1, <2>1, <2>2 DEF MountsInv
<1>2. CASE LoadBalancerReady
    BY <1>1, <1>2 DEF LoadBalancerReady, MayCreate
<1>3. CASE PodsRoll \/ PodsReady
  <2>1. sts'.exists = sts.exists /\ sts'.template = sts.template
      BY <1>0, <1>3 DEF PodsRoll, PodsReady, StatefulSet
  <2> QED BY <1>1, <1>3, <2>1 DEF PodsRoll, PodsReady, MayCreate
<1>4. CASE CollectKmc
  <2>1. ~Live' /\ UNCHANGED <<mode, kcp, pcC, pcK, k>> /\ ~kcp.exists
      BY <1>0, <1>4 DEF CollectKmc, Live, NoKmc, KmcType
  <2>2. ~MayCreate'
      BY <1>0, <2>1 DEF MayCreate, DeletionInv, Creates
  <2> QED BY <1>0, <2>1, <2>2 DEF MountsInv
<1>5. CASE CollectObjects
  <2>1. ~Nothing /\ (IF mode.remote THEN ~owner ELSE ~kmc.exists)
        /\ UNCHANGED <<mode, kcp, kmc, pcC, pcK, k>>
      BY <1>5 DEF CollectObjects, Nothing
  <2>2. ~Live
      BY <1>0, <2>1 DEF MountsInv, Live
  <2>3. ~Live' /\ (kmc'.exists \/ ~MayCreate')
      BY <1>0, <2>1, <2>2 DEF MountsInv, Live, MayCreate
  <2> QED BY <1>0, <2>1, <2>3 DEF MountsInv
<1>6. CASE Edit
  <2>1. kcp'.exists = kcp.exists /\ kcp'.deleting = kcp.deleting
      BY <1>0, <1>6 DEF Edit, ControlPlane
  <2> QED BY <1>1, <1>6, <2>1 DEF Edit, MayCreate
<1>7. CASE Delete
  <2>1. kcp.exists /\ ~kcp.deleting
      BY <1>7 DEF Delete
  <2> QED BY <1>1, <1>7, <2>1 DEF Delete, MayCreate
<1>8. CASE Crash
    BY <1>1, <1>8 DEF Crash, MayCreate
<1> QED BY <1>2, <1>3, <1>4, <1>5, <1>6, <1>7, <1>8 DEF Outside, World

LEMMA MountsNext == Inv /\ Next => MountsInv'
    BY KcpOnMounts, KmcOnMounts, OutsideOnMounts DEF Next, Outside

----------------------------------------------------------------------------
(* The theorems.                                                             *)

LEMMA InitInv == Init => Inv
<1> SUFFICES ASSUME Init PROVE Inv
    OBVIOUS
<1>n. /\ NoC \in CHolds /\ NoK \in KHolds /\ NoKmc \in KmcType /\ NoStatefulSet \in StatefulSet
      /\ Absent \in Content
    BY Records
<1>1. kcp \in ControlPlane
  <2>1. 1 \in Revision
      BY RevisionAssumption, SMTT(30) DEF Revision
  <2> QED BY <2>1, Records DEF Init, ControlPlane
<1>2. TypeOK /\ LabelsOK
  <2>1. KcpTypes /\ KmcTypes /\ LabelsOK
      BY <1>n, <1>1 DEF Init, KcpTypes, KmcTypes, LabelsOK
  <2>2. objects \in [Object -> Content] /\ sts \in StatefulSet /\ mode \in Modes
      BY <1>n DEF Init
  <2>3. budget \in 0..MaxDisturbances
      BY DisturbanceAssumption, SMTT(30) DEF Init
  <2>4. HostTypes
      BY <2>2, <2>3 DEF Init, HostTypes
  <2> QED BY <2>1, <2>4, TypeParts
<1>3. InfraInv
    BY DEF Init, InfraInv, NoC
<1>4. AddressInv
    BY DEF Init, AddressInv, NoC, NoK, NoKmc
<1>5. DeletionInv
    BY DEF Init, DeletionInv, Creates, SameLife, NoC, NoK, NoKmc, NoControlPlane
<1>6. MountsInv
  <2>1. Nothing /\ ~Live
      BY DEF Init, Nothing, Live, NoStatefulSet, Absent, NoKmc
  <2> QED BY <2>1 DEF Init, MountsInv
<1> QED BY <1>2, <1>3, <1>4, <1>5, <1>6 DEF Inv

LEMMA NextInv == Inv /\ [Next]_vars => Inv'
<1> SUFFICES ASSUME Inv, [Next]_vars PROVE Inv'
    OBVIOUS
<1>1. CASE Next
    BY <1>1, TypeNext, InfraNext, AddressNext, DeletionNext, MountsNext DEF Inv
<1>2. CASE UNCHANGED vars
  <2> USE <1>2 DEF vars, capi, hosting
  <2>1. TypeOK' /\ LabelsOK' /\ InfraInv'
      BY SMTT(30) DEF Inv, TypeOK, LabelsOK, InfraInv
  <2>2. AddressInv' /\ DeletionInv'
      BY DEF Inv, AddressInv, DeletionInv, Creates
  <2>3. MountsInv'
      BY DEF Inv, MountsInv, Live, Exist, MayCreate, Nothing, AppliedFor, AlwaysMounted, addMonitoringStack,
          MountedObjects
  <2> QED BY <2>1, <2>2, <2>3 DEF Inv
<1> QED BY <1>1, <1>2

(* Every variable keeps its type: whatever patch is applied to whatever is   *)
(* left of an object, the result is one the API server could hold            *)
(* (MergePatch, updateStatus).                                               *)
THEOREM HostedTypeCorrect == Spec => []TypeOK
<1>1. Inv => TypeOK
    BY DEF Inv
<1> QED BY <1>1, InitInv, NextInv, PTL DEF Spec

(* Cluster API is told that the infrastructure is ready only when the        *)
(* endpoint is on the Cluster and on the infrastructure cluster, wherever    *)
(* the deferred writes of the control plane controller fail or stop.         *)
THEOREM InfraReadyHolds == Spec => []InfraReadyMeansEndpoint
<1>1. Inv => InfraReadyMeansEndpoint
    BY DEF Inv, InfraInv, InfraReadyMeansEndpoint
<1> QED BY <1>1, InitInv, NextInv, PTL DEF Spec

(* Every ConfigMap and Secret a pod template mounts exists while the Cluster *)
(* lives: Reconcile applies them in order, the StatefulSet last, and the     *)
(* garbage collector takes them only with the Cluster or its external owner. *)
THEOREM MountsExistHolds == Spec => []MountsExist
<1>1. Inv => MountsExist
    BY DEF Inv, MountsInv, MountsExist, Live, Exist
<1> QED BY <1>1, InitInv, NextInv, PTL DEF Spec

(* No patch of either controller takes the external address out of the       *)
(* Cluster, however old the copy it was computed from.                       *)
THEOREM AddressKeptHolds == Spec => AddressKept
<1>1. Inv /\ [Next]_vars => [kmc.address /\ kmc'.exists => kmc'.address]_vars
  <2> SUFFICES ASSUME Inv, Next, kmc.address, kmc'.exists PROVE kmc'.address
      BY DEF vars, capi, hosting
  <2> USE DEF GotoC, GotoK, capi, hosting
  <2>0. /\ AddressInv /\ DeletionInv /\ kmc \in KmcType /\ k \in KHolds
        /\ c.after \in ControlPlane /\ c.found \in KmcType /\ k.before \in KmcType /\ k.after \in KmcType
        /\ c.after.address \in BOOLEAN /\ c.found.address \in BOOLEAN
        /\ k.before.address \in BOOLEAN /\ k.after.address \in BOOLEAN
      BY DEF Inv, TypeOK, CHolds, KHolds, ControlPlane, KmcType
  <2>n. NoKmc.exists = FALSE /\ NoKmc.address = FALSE
      BY DEF NoKmc
  <2>1. kmc.exists
      BY <2>0, <2>n DEF AddressInv
  <2>2. CASE KcpPush
    <3> DEFINE d == Desired(c.found, c.after)
    <3>1. d \in KmcType /\ SameLife(c.found, d) /\ d.address = c.after.address
        BY <2>0, DesiredType
    <3>2. kmc' = Patched(kmc, c.found, d, NoKmc)
        BY <2>2 DEF KcpPush
    <3> HIDE DEF d
    <3>3. \/ ~kmc.exists \/ kmc' = NoKmc
          \/ kmc'.address = IF d.address # c.found.address THEN d.address ELSE kmc.address
      <4>1. kmc \in KmcType /\ c.found \in KmcType
          BY <2>0
      <4> QED BY <3>1, <3>2, <4>1, PatchedKmc
    <3> QED BY <2>0, <2>n, <2>1, <3>1, <3>3 DEF AddressInv
  <2>3. CASE KmcStatus
    <3> DEFINE a == updateStatus(k.after)
    <3>1. a \in KmcType /\ SameLife(k.before, a) /\ a.address = k.after.address
        BY StatusType
    <3>2. kmc' = Patched(kmc, k.before, a, NoKmc)
        BY <2>3 DEF KmcStatus
    <3> HIDE DEF a
    <3>3. \/ ~kmc.exists \/ kmc' = NoKmc
          \/ kmc'.address = IF a.address # k.before.address THEN a.address ELSE kmc.address
        BY <2>0, <3>1, <3>2, PatchedKmc
    <3> QED BY <2>0, <2>n, <2>1, <3>1, <3>3 DEF AddressInv
  <2>4. CASE reconcileDelete
    <3>1. kmc' = kmc \/ kmc' = NoKmc \/ kmc' = [kmc EXCEPT !.deleting = TRUE]
        BY <2>1, <2>4 DEF reconcileDelete
    <3> QED BY <2>0, <2>n, <3>1 DEF KmcType
  <2>5. CASE KmcStart \/ KmcLoadBalancer \/ CollectKmc
    <3>1. \/ kmc' = kmc \/ kmc' = NoKmc \/ kmc' = [kmc EXCEPT !.deleting = TRUE]
          \/ kmc' = [kmc EXCEPT !.finalizer = TRUE] \/ kmc' = [kmc EXCEPT !.address = TRUE]
        BY <2>5 DEF KmcStart, KmcLoadBalancer, CollectKmc
    <3> QED BY <2>0, <2>n, <3>1 DEF KmcType
  <2>6. CASE KcpController /\ ~KcpPush /\ ~reconcileDelete
    <3>1. kmc' = kmc
        BY <2>1, <2>6 DEF KcpController, KcpStart, KcpCertificates, KcpSync, KcpAddress, KcpAddressTimeout,
            KcpStatus, KcpPatchCluster, patchInfrastructureStatus
    <3> QED BY <3>1
  <2>7. CASE KmcLoadBalancerTimeout \/ KmcObjects \/ reconcileStatefulSet \/ KmcDelete
      BY <2>7 DEF KmcLoadBalancerTimeout, KmcObjects, reconcileStatefulSet, KmcDelete
  <2>8. CASE LoadBalancerReady \/ PodsRoll \/ PodsReady \/ CollectObjects \/ Edit \/ Delete \/ Crash
      BY <2>8 DEF LoadBalancerReady, PodsRoll, PodsReady, CollectObjects, Edit, Delete, Crash
  <2> QED BY <2>2, <2>3, <2>4, <2>5, <2>6, <2>7, <2>8 DEF Next, KmcController, World
<1> QED BY <1>1, InitInv, NextInv, PTL DEF Spec, AddressKept

(* The external owner a Cluster being deleted has removed is not created     *)
(* again: the Cluster is deleted only when its control plane is, and neither *)
(* ensures the owner then (ensureExternalOwner).                             *)
THEOREM OwnerStaysGoneHolds == Spec => OwnerStaysGone
<1>1. Inv /\ [Next]_vars => [kmc.deleting /\ ~owner => ~owner']_vars
  <2> SUFFICES ASSUME Inv, Next, kmc.deleting, ~owner PROVE ~owner'
      BY DEF vars, capi, hosting
  <2> USE DEF capi, hosting
  <2>0. kcp.exists => kcp.deleting
      BY DEF Inv, DeletionInv
  <2>1. CASE KcpStart
      BY <2>0, <2>1 DEF KcpStart, ensureExternalOwner
  <2>2. CASE KmcStart
      BY <2>2 DEF KmcStart, ensureExternalOwner
  <2>3. CASE KmcDelete
      BY <2>3 DEF KmcDelete
  <2>4. CASE \/ KcpCertificates \/ KcpSync \/ KcpPush \/ KcpAddress \/ KcpAddressTimeout
             \/ reconcileDelete \/ KcpStatus \/ KcpPatchCluster \/ patchInfrastructureStatus
      BY <2>4 DEF KcpCertificates, KcpSync, KcpPush, KcpAddress, KcpAddressTimeout, reconcileDelete, KcpStatus,
          KcpPatchCluster, patchInfrastructureStatus
  <2>5. CASE KmcLoadBalancer \/ KmcLoadBalancerTimeout \/ KmcObjects \/ reconcileStatefulSet \/ KmcStatus
      BY <2>5 DEF KmcLoadBalancer, KmcLoadBalancerTimeout, KmcObjects, reconcileStatefulSet, KmcStatus
  <2>6. CASE Outside
      BY <2>6 DEF Outside, World, LoadBalancerReady, PodsRoll, PodsReady, CollectKmc, CollectObjects, Edit,
          Delete, Crash
  <2> QED BY <2>1, <2>2, <2>3, <2>4, <2>5, <2>6 DEF Next, KcpController, KmcController, Outside
<1> QED BY <1>1, InitInv, NextInv, PTL DEF Spec, OwnerStaysGone
=============================================================================
