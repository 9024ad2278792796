------------------------------ MODULE Hosted ------------------------------
(***************************************************************************)
(* A hosted control plane: the K0smotronControlPlane controller, which     *)
(* copies its spec into a k0smotron Cluster and publishes the endpoint to  *)
(* Cluster API, and the k0smotron Cluster controller, which renders that   *)
(* Cluster into a Service, ConfigMaps, certificates and a StatefulSet and  *)
(* writes what it adds back into the same Cluster.  Both write with merge  *)
(* patches against the copy they read.                                     *)
(*                                                                         *)
(* Data: spec.manifests is the pair of the user's revision of the list, 0  *)
(* when it is empty, and the volumes the controller appended; version      *)
(* stands for every scalar field (version, images, flags, k0sConfig); an   *)
(* address is known or not.                                                *)
(***************************************************************************)
EXTENDS Naturals, Sequences, FiniteSets

CONSTANTS
    Modes,            \* the shapes of control plane: service type, ingress, storage, where it is hosted
    NativeFrom,       \* first version that deploys the konnectivity agent itself
    MaxRevision,      \* bound on the versions and on the revisions of the manifests
    Disturbance,      \* the kinds of disturbance that may happen
    MaxDisturbances   \* how many of them in one behaviour

Disturbances == {"editManifests", "editVersion", "delete", "certFails", "applyFails", "crash", "deleteFails"}
ServiceType == {"LoadBalancer", "NodePort", "ClusterIP"}
StorageType == {"etcd", "nats", "kine"}
Mode == [service : ServiceType, ingress : BOOLEAN, storage : StorageType,
         monitoring : BOOLEAN, remote : BOOLEAN]

ASSUME ModesAssumption == Modes \subseteq Mode /\ Modes # {}
ASSUME RevisionAssumption == NativeFrom \in Nat /\ MaxRevision \in Nat \ {0}
ASSUME DisturbanceAssumption == Disturbance \subseteq Disturbances /\ MaxDisturbances \in Nat

VARIABLES
    mode,      \* the fields of the spec no one edits
    kcp,       \* the K0smotronControlPlane
    kmc,       \* the k0smotron Cluster
    endpoint,  \* cluster.Spec.ControlPlaneEndpoint is set
    infra,     \* the infrastructure cluster: its endpoint, and whether it is reported ready
    ca,        \* the four CA secrets all exist
    owner,     \* the external owner ConfigMap exists in the remote hosting cluster
    objects,   \* per generated object: what it was generated from
    sts,       \* the control plane StatefulSet and its pods
    lb,        \* the load balancer has an address
    pcC, c,    \* the K0smotronControlPlane controller: where it is, what it holds
    pcK, k,    \* the Cluster controller: where it is, what it holds
    budget     \* disturbances still to come

hosting == <<ca, owner, objects, sts, lb>>
capi == <<endpoint, infra>>
vars == <<mode, kcp, kmc, capi, hosting, pcC, c, pcK, k, budget>>

Revision == 0..MaxRevision
Volume == {"endpoint", "ingressManifests", "konnectivity"}
Manifests == [user : Revision, added : SUBSET Volume]
Certificates == {"base", "etcdClient"}
Conditions == {"Exposed", "Kubeconfig", "Functional", "Certificates", "Available"}
Object == {"service", "endpoint", "ingressManifests", "konnectivity", "ingress", "config", "entrypoint",
           "monitoring", "etcdCerts", "haproxyCerts", "nats", "telemetry", "kubeconfig"}

(* What an object was generated from: the version it depends on, 0 when it   *)
(* depends on no field that changes, and whether it carries the address.     *)
From(version, address) == [exists |-> TRUE, version |-> version, address |-> address]
Absent == [exists |-> FALSE, version |-> 0, address |-> FALSE]
Static == From(0, FALSE)
Content == [exists : BOOLEAN, version : Revision, address : BOOLEAN]

Hash == [manifests : Revision, version : Revision, certs : BOOLEAN]
NoHash == [manifests |-> 0, version |-> 0, certs |-> FALSE]
ControlPlane == [exists : BOOLEAN, finalizer : BOOLEAN, deleting : BOOLEAN, manifests : Revision,
                 version : Revision, address : BOOLEAN, certs : BOOLEAN, initialized : BOOLEAN]
NoControlPlane == [exists |-> FALSE, finalizer |-> FALSE, deleting |-> FALSE, manifests |-> 0,
                   version |-> 0, address |-> FALSE, certs |-> FALSE, initialized |-> FALSE]
NoManifests == [user |-> 0, added |-> {}]
KmcType == [exists : BOOLEAN, finalizer : BOOLEAN, deleting : BOOLEAN, hash : Hash, manifests : Manifests,
            version : Revision, address : BOOLEAN, certs : SUBSET Certificates,
            ready : BOOLEAN, conditions : SUBSET Conditions]
NoKmc == [exists |-> FALSE, finalizer |-> FALSE, deleting |-> FALSE, hash |-> NoHash,
          manifests |-> NoManifests, version |-> 0, address |-> FALSE, certs |-> {},
          ready |-> FALSE, conditions |-> {}]
Template == [version : Revision, manifests : Manifests, certs : SUBSET Certificates]
NoTemplate == [version |-> 0, manifests |-> NoManifests, certs |-> {}]
StatefulSet == [exists : BOOLEAN, template : Template, run : Template, up : BOOLEAN]
NoStatefulSet == [exists |-> FALSE, template |-> NoTemplate, run |-> NoTemplate, up |-> FALSE]

NoC == [before |-> NoControlPlane, after |-> NoControlPlane, found |-> NoKmc, endpoint |-> FALSE, failed |-> FALSE]
NoK == [before |-> NoKmc, after |-> NoKmc, svc |-> FALSE, kubeconfig |-> FALSE,
        sts |-> [exists |-> FALSE, up |-> FALSE]]

Init ==
    /\ mode \in Modes
    /\ kcp = [NoControlPlane EXCEPT !.exists = TRUE, !.manifests = 1, !.version = 1]
    /\ kmc = NoKmc
    /\ endpoint = FALSE
    /\ infra = [endpoint |-> FALSE, ready |-> FALSE]
    /\ ca = FALSE
    /\ owner = FALSE
    /\ objects = [o \in Object |-> Absent]
    /\ sts = NoStatefulSet
    /\ lb = FALSE
    /\ pcC = "idle" /\ c = NoC
    /\ pcK = "idle" /\ k = NoK
    /\ budget = MaxDisturbances

Disturb(kind) ==
    /\ kind \in Disturbance
    /\ budget > 0
    /\ budget' = budget - 1

(* A JSON merge patch computed from the copy that was read: only the fields  *)
(* that differ are sent, and a list is sent whole.                           *)
MergePatch(current, before, after) ==
    [f \in DOMAIN current |-> IF after[f] # before[f] THEN after[f] ELSE current[f]]

(* A patched object whose last finalizer is gone disappears.                 *)
Patched(current, before, after, gone) ==
    LET new == MergePatch(current, before, after)
    IN  CASE ~current.exists -> current
          [] current.exists /\ new.deleting /\ ~new.finalizer -> gone
          [] OTHER -> new

(* The workload API answers a client that has the kubeconfig.                *)
Reachable == sts.up /\ objects["kubeconfig"].exists

----------------------------------------------------------------------------
(* The K0smotronControlPlane controller.                                     *)

GotoC(label) == pcC' = label
DoneC == GotoC("idle") /\ c' = NoC

EnsureFinalizer(object) == ~object.finalizer /\ ~object.deleting

(* Mutant: the owner is ensured for an object being deleted as well.         *)
ensureExternalOwner_Always(deleting) == mode.remote

ensureExternalOwner(deleting) == mode.remote /\ ~deleting

KcpStart ==
    /\ pcC = "idle" /\ kcp.exists
    /\ IF EnsureFinalizer(kcp)
       THEN kcp' = [kcp EXCEPT !.finalizer = TRUE] /\ UNCHANGED <<owner, pcC, c>>
       ELSE /\ owner' = (owner \/ ensureExternalOwner(kcp.deleting))
            /\ c' = [NoC EXCEPT !.before = kcp, !.after = kcp, !.endpoint = endpoint]
            /\ GotoC(CASE kcp.deleting -> "delete" [] kcp.certs /\ ~kcp.deleting -> "sync" [] OTHER -> "certificates")
            /\ UNCHANGED kcp
    /\ UNCHANGED <<mode, kmc, capi, ca, objects, sts, lb, pcK, k, budget>>

(* The references are set before the secrets are created: when that fails    *)
(* the deferred patch writes them all the same.                              *)
KcpCertificates ==
    /\ pcC = "certificates"
    /\ \/ /\ ca' = TRUE
          /\ c' = [c EXCEPT !.after.certs = TRUE]
          /\ GotoC("sync")
          /\ UNCHANGED budget
       \/ /\ Disturb("certFails")
          /\ c' = [c EXCEPT !.after.certs = TRUE, !.failed = TRUE]
          /\ GotoC("status")
          /\ UNCHANGED ca
    /\ UNCHANGED <<mode, kcp, kmc, capi, owner, objects, sts, lb, pcK, k>>

generateClusterSpecHashWithoutExternalAddress(spec) ==
    [manifests |-> spec.manifests, version |-> spec.version, certs |-> spec.certs]

(* The comparison for a Cluster without the hash annotation: an empty field  *)
(* of the control plane does not override the one of the Cluster.            *)
SameSpec(cluster, spec) ==
    LET merged == IF spec.manifests = 0 THEN cluster.manifests ELSE [user |-> spec.manifests, added |-> {}]
    IN  /\ cluster.version = spec.version
        /\ spec.address => cluster.address
        /\ cluster.manifests = [merged EXCEPT !.added = @ \cup {"endpoint"}]

(* Mutant: only the address is compared.                                     *)
isClusterSpecSynced_Address(cluster, spec) == cluster.address = spec.address

isClusterSpecSynced(cluster, spec) ==
    IF cluster.hash # NoHash
    THEN /\ cluster.address = spec.address
         /\ cluster.hash = generateClusterSpecHashWithoutExternalAddress(spec)
    ELSE SameSpec(cluster, spec)

(* foundCluster.Spec = kcp.Spec, with the new hash.                          *)
Desired(cluster, spec) ==
    [cluster EXCEPT !.hash = generateClusterSpecHashWithoutExternalAddress(spec),
                    !.manifests = [user |-> spec.manifests, added |-> {}],
                    !.version = spec.version,
                    !.address = spec.address,
                    !.certs = IF spec.certs THEN {"base"} ELSE {}]

(* The address is known and the CAPI Cluster has it: nothing to wait for and *)
(* nothing to update.                                                        *)
AddressKnown == kmc.exists /\ (mode.ingress \/ kmc.address)
AddressPublished == AddressKnown /\ endpoint

(* reconcile: create the Cluster, or read it and compare.                    *)
KcpSync ==
    /\ pcC = "sync"
    /\ IF ~kmc.exists
       THEN /\ kmc' = Desired([NoKmc EXCEPT !.exists = TRUE], c.after)
            /\ GotoC("status")
            /\ UNCHANGED c
       ELSE LET after == [c.after EXCEPT !.address = @ \/ kmc.address]
                synced == isClusterSpecSynced(kmc, after)
            IN  /\ c' = [c EXCEPT !.after = after, !.found = IF synced THEN NoKmc ELSE kmc]
                /\ GotoC(CASE ~synced -> "push" [] synced /\ AddressPublished -> "status" [] OTHER -> "address")
                /\ UNCHANGED kmc
    /\ UNCHANGED <<mode, kcp, capi, hosting, pcK, k, budget>>

(* Mutant: the spec is written whole, not as a patch of what was read.       *)
KcpPush_Whole ==
    /\ pcC = "push"
    /\ kmc' = IF kmc.exists THEN Desired(kmc, c.after) ELSE kmc
    /\ c' = [c EXCEPT !.found = NoKmc, !.failed = ~kmc.exists]
    /\ GotoC(IF kmc.exists THEN "address" ELSE "status")
    /\ UNCHANGED <<mode, kcp, capi, hosting, pcK, k, budget>>

KcpPush ==
    /\ pcC = "push"
    /\ kmc' = Patched(kmc, c.found, Desired(c.found, c.after), NoKmc)
    /\ c' = [c EXCEPT !.found = NoKmc, !.failed = ~kmc.exists]
    /\ GotoC(IF kmc.exists THEN "address" ELSE "status")
    /\ UNCHANGED <<mode, kcp, capi, hosting, pcK, k, budget>>

(* ensureExternalAddress polls for three minutes; the ingress host is known. *)
KcpAddress ==
    /\ pcC = "address" /\ AddressKnown
    /\ infra' = [infra EXCEPT !.endpoint = TRUE]
    /\ c' = [c EXCEPT !.endpoint = TRUE]
    /\ GotoC("status")
    /\ UNCHANGED <<mode, kcp, kmc, endpoint, hosting, pcK, k, budget>>

KcpAddressTimeout ==
    /\ pcC = "address" /\ ~AddressKnown
    /\ c' = [c EXCEPT !.failed = TRUE]
    /\ GotoC("status")
    /\ UNCHANGED <<mode, kcp, kmc, capi, hosting, pcK, k, budget>>

reconcileDelete ==
    /\ pcC = "delete"
    /\ CASE ~kmc.exists -> c' = [c EXCEPT !.after.finalizer = FALSE] /\ UNCHANGED kmc
         [] kmc.exists /\ kmc.deleting -> UNCHANGED <<c, kmc>>
         [] OTHER -> kmc' = (IF kmc.finalizer THEN [kmc EXCEPT !.deleting = TRUE] ELSE NoKmc) /\ UNCHANGED c
    /\ GotoC("status")
    /\ UNCHANGED <<mode, kcp, capi, hosting, pcK, k, budget>>

(* computeStatus and computeAvailability, skipped for an object being        *)
(* deleted: what the workload cluster says now.                              *)
computeStatus(object) ==
    IF object.deleting THEN object
    ELSE [object EXCEPT !.initialized = @ \/ Reachable]

(* The deferred writes: the control plane, the CAPI Cluster, and, when       *)
(* nothing failed, the status of the infrastructure cluster.  A patch that   *)
(* changes nothing is not sent.                                              *)
AfterCluster(failed) ==
    IF failed \/ infra.ready = c.endpoint THEN DoneC ELSE GotoC("infra") /\ UNCHANGED c

KcpStatus ==
    /\ pcC = "status"
    /\ kcp' = Patched(kcp, c.before, computeStatus(c.after), NoControlPlane)
    /\ IF c.endpoint # endpoint
       THEN /\ GotoC("cluster")
            /\ c' = [c EXCEPT !.before = NoControlPlane, !.after = NoControlPlane]
       ELSE AfterCluster(c.failed)
    /\ UNCHANGED <<mode, kmc, capi, hosting, pcK, k, budget>>

(* Mutant: the error of an earlier step does not stop the status of the      *)
(* infrastructure from being written, before the Cluster is patched.         *)
KcpPatchCluster_InfraFirst ==
    /\ pcC = "cluster"
    /\ infra' = [infra EXCEPT !.ready = c.endpoint]
    /\ DoneC
    /\ UNCHANGED <<mode, kcp, kmc, endpoint, hosting, pcK, k, budget>>

KcpPatchCluster ==
    /\ pcC = "cluster"
    /\ endpoint' = c.endpoint
    /\ AfterCluster(c.failed)
    /\ UNCHANGED <<mode, kcp, kmc, infra, hosting, pcK, k, budget>>

patchInfrastructureStatus ==
    /\ pcC = "infra"
    /\ infra' = [infra EXCEPT !.ready = c.endpoint]
    /\ DoneC
    /\ UNCHANGED <<mode, kcp, kmc, endpoint, hosting, pcK, k, budget>>

KcpController ==
    \/ KcpStart \/ KcpCertificates \/ KcpSync \/ KcpPush \/ KcpAddress \/ KcpAddressTimeout
    \/ reconcileDelete \/ KcpStatus \/ KcpPatchCluster \/ patchInfrastructureStatus

----------------------------------------------------------------------------
(* What the Cluster controller generates, from the spec m it holds.          *)

HasNativeIngressKonnectivity(m) == m.version >= NativeFrom

generateService(m) == Static
generateEndpointConfigMap(m) == From(0, m.address)
generateIngressManifestsConfigMap(m) == From(m.version, FALSE)
getKonnectivityAgentImage(m) == m.version
generateKonnectivityIngressConfigMap(m) == From(getKonnectivityAgentImage(m), FALSE)
generateIngress(m) == Static
genSANs(m) == m.address
getV1Beta1Spec(m) == m.version
generateConfig(m) == From(getV1Beta1Spec(m), genSANs(m))
getControllerFlags(m) == m.version
generateEntrypointCM(m) == From(getControllerFlags(m), FALSE)
generateMonitoringCM(m) == Static
ensureEtcdCertificates(m) == Static
ensureHAProxyCerts(m) == Static
reconcileNats(m) == Static
generateTelemetryCM(m) == Static

Generated(o, m) ==
    CASE o = "service" -> generateService(m)
      [] o = "endpoint" -> generateEndpointConfigMap(m)
      [] o = "ingressManifests" -> generateIngressManifestsConfigMap(m)
      [] o = "konnectivity" -> generateKonnectivityIngressConfigMap(m)
      [] o = "ingress" -> generateIngress(m)
      [] o = "config" -> generateConfig(m)
      [] o = "entrypoint" -> generateEntrypointCM(m)
      [] o = "monitoring" -> generateMonitoringCM(m)
      [] o = "etcdCerts" -> ensureEtcdCertificates(m)
      [] o = "haproxyCerts" -> ensureHAProxyCerts(m)
      [] o = "nats" -> reconcileNats(m)
      [] o = "telemetry" -> generateTelemetryCM(m)

(* The order of Reconcile, and the conditions under which each is applied.   *)
Order == <<"endpoint", "ingressManifests", "konnectivity", "ingress", "config", "entrypoint",
           "monitoring", "etcdCerts", "haproxyCerts", "nats", "telemetry">>

Needed(o, m) ==
    CASE o = "endpoint" -> m.address
      [] o \in {"ingressManifests", "ingress", "haproxyCerts"} -> mode.ingress
      [] o = "konnectivity" -> mode.ingress /\ ~HasNativeIngressKonnectivity(m)
      [] o = "config" -> mode.service = "LoadBalancer" => m.address
      [] o = "monitoring" -> mode.monitoring
      [] o = "etcdCerts" -> mode.storage = "etcd"
      [] o = "nats" -> mode.storage = "nats"
      [] OTHER -> TRUE

(* Signed by a CA: an error when there is none.                              *)
SignedByCA == {"etcdCerts", "haproxyCerts"}

WithoutStale(m) ==
    IF mode.ingress /\ HasNativeIngressKonnectivity(m)
    THEN [m.manifests EXCEPT !.added = @ \ {"konnectivity"}]
    ELSE m.manifests

(* Mutant: the konnectivity volume is added whatever the version.            *)
Completed_Konnectivity(m, S) ==
    [m EXCEPT !.manifests = [m.manifests EXCEPT !.added = @ \cup (S \cap Volume)
                                \cup (IF mode.ingress THEN {"konnectivity"} ELSE {})],
              !.certs = @ \cup (IF "etcdCerts" \in S THEN {"etcdClient"} ELSE {})]

(* The spec in memory once the objects in S are applied.                     *)
Completed(m, S) ==
    LET kept == IF "ingressManifests" \in S THEN WithoutStale(m) ELSE m.manifests
    IN  [m EXCEPT !.manifests = [kept EXCEPT !.added = @ \cup (S \cap Volume)],
                  !.certs = @ \cup (IF "etcdCerts" \in S THEN {"etcdClient"} ELSE {})]

generateStatefulSet(m) == [version |-> m.version, manifests |-> m.manifests, certs |-> m.certs]

(* generateStatefulSet drops the hash from the annotations of the pods; they *)
(* are the map of the Cluster, and the deferred patch drops it there too.    *)
WithoutHash(m) == [m EXCEPT !.hash = NoHash]

(* What the pods mount: objects, and the certificates of the CA.             *)
addMonitoringStack == IF mode.monitoring THEN {"monitoring"} ELSE {}

mountSecrets == ca

MountedObjects(t) ==
    {"config", "entrypoint", "telemetry"} \cup t.manifests.added
        \cup addMonitoringStack
        \cup (IF mode.storage = "nats" THEN {"nats"} ELSE {})
        \cup (IF "etcdClient" \in t.certs THEN {"etcdCerts"} ELSE {})

----------------------------------------------------------------------------
(* The Cluster controller.                                                   *)

GotoK(label) == pcK' = label

(* reconcileServices: the Service is applied; the address of a NodePort is   *)
(* found at once; the one of a load balancer is awaited and written with an  *)
(* Update, which fails when the copy is out of date, and always when the     *)
(* pods are hosted in another cluster, whose client it uses.                 *)
reconcileServices(m) ==
    /\ objects' = [objects EXCEPT !["service"] = generateService(m)]
    /\ k' = [NoK EXCEPT !.before = m, !.svc = TRUE,
                        !.after = [m EXCEPT !.address = @ \/ mode.service = "NodePort"]]
    /\ GotoK(IF mode.service = "LoadBalancer" /\ ~m.address THEN "wait" ELSE "objects")

KmcStart ==
    /\ pcK = "idle" /\ kmc.exists
    /\ IF EnsureFinalizer(kmc)
       THEN kmc' = [kmc EXCEPT !.finalizer = TRUE] /\ UNCHANGED <<owner, objects, pcK, k>>
       ELSE /\ owner' = (owner \/ ensureExternalOwner(kmc.deleting))
            /\ IF kmc.deleting
               THEN /\ k' = [NoK EXCEPT !.before = kmc, !.after = kmc]
                    /\ GotoK("delete")
                    /\ UNCHANGED objects
               ELSE reconcileServices(kmc)
            /\ UNCHANGED kmc
    /\ UNCHANGED <<mode, kcp, capi, ca, sts, lb, pcC, c, budget>>

KmcLoadBalancer ==
    /\ pcK = "wait" /\ lb
    /\ k' = [k EXCEPT !.after.address = TRUE]
    /\ IF mode.remote \/ kmc # k.before
       THEN GotoK("status") /\ UNCHANGED kmc
       ELSE GotoK("objects") /\ kmc' = [kmc EXCEPT !.address = TRUE]
    /\ UNCHANGED <<mode, kcp, capi, hosting, pcC, c, budget>>

KmcLoadBalancerTimeout ==
    /\ pcK = "wait" /\ ~lb
    /\ GotoK("status")
    /\ UNCHANGED <<mode, kcp, kmc, capi, hosting, pcC, c, k, budget>>

(* The objects from the endpoint ConfigMap to the telemetry ConfigMap.  An   *)
(* error ends the reconciliation with the objects before it applied.         *)
KmcObjects ==
    /\ pcK = "objects"
    /\ \E n \in 0..Len(Order) :
           LET done == {Order[i] : i \in {j \in 1..n : Needed(Order[j], k.after)}}
               all == n = Len(Order)
               blocked == Order[n + 1] \in SignedByCA /\ ~ca
           IN  /\ ~all => Needed(Order[n + 1], k.after)
               /\ ca \/ done \cap SignedByCA = {}
               /\ IF all \/ blocked THEN UNCHANGED budget ELSE Disturb("applyFails")
               /\ objects' = [o \in Object |-> IF o \in done THEN Generated(o, k.after) ELSE objects[o]]
               /\ k' = [k EXCEPT !.after = Completed(@, done)]
               /\ GotoK(IF all THEN "statefulset" ELSE "status")
    /\ UNCHANGED <<mode, kcp, kmc, capi, ca, owner, sts, lb, pcC, c>>

(* The kubeconfig is read from a pod: kmc.Status.ReadyReplicas, which is     *)
(* what the last reconciliation saw, must not be 0.                          *)
reconcileKubeConfigSecret(m) == m.ready /\ (objects["kubeconfig"].exists \/ sts.up)

reconcileStatefulSet ==
    /\ pcK = "statefulset"
    /\ LET new == generateStatefulSet(k.after)
           noReplica == sts.exists /\ sts.template = new /\ ~sts.up
           have == ~noReplica /\ reconcileKubeConfigSecret(k.after)
       IN  /\ sts' = [sts EXCEPT !.exists = TRUE, !.template = new]
           /\ objects' = IF have THEN [objects EXCEPT !["kubeconfig"] = Static] ELSE objects
           /\ k' = [k EXCEPT !.after = WithoutHash(@),
                             !.sts = [exists |-> sts.exists, up |-> sts.up],
                             !.kubeconfig = have]
    /\ GotoK("status")
    /\ UNCHANGED <<mode, kcp, kmc, capi, ca, owner, lb, pcC, c, budget>>

(* updateStatus: from what this reconciliation read.                         *)
Exposed == k.svc /\ k.after.address
KubeconfigAvailable == k.kubeconfig
Functional == k.sts.exists /\ KubeconfigAvailable /\ Reachable
CertificatesAvailable == k.after.certs # {}
Available == Functional /\ KubeconfigAvailable /\ Exposed

updateStatus(object) ==
    [object EXCEPT
        !.ready = IF k.sts.exists THEN k.sts.up ELSE @,
        !.conditions = {x \in Conditions :
            \/ x = "Exposed" /\ Exposed
            \/ x = "Kubeconfig" /\ KubeconfigAvailable
            \/ x = "Functional" /\ Functional
            \/ x = "Certificates" /\ CertificatesAvailable
            \/ x = "Available" /\ Available}]

KmcStatus ==
    /\ pcK = "status"
    /\ kmc' = Patched(kmc, k.before, updateStatus(k.after), NoKmc)
    /\ GotoK("idle") /\ k' = NoK
    /\ UNCHANGED <<mode, kcp, capi, hosting, pcC, c, budget>>

(* An error while the JoinTokenRequests are removed leaves the finalizer.    *)
KmcDelete ==
    /\ pcK = "delete"
    /\ owner' = FALSE
    /\ \/ k' = [k EXCEPT !.after.finalizer = FALSE] /\ UNCHANGED budget
       \/ Disturb("deleteFails") /\ UNCHANGED k
    /\ GotoK("status")
    /\ UNCHANGED <<mode, kcp, kmc, capi, ca, objects, sts, lb, pcC, c>>

KmcController ==
    \/ KmcStart \/ KmcLoadBalancer \/ KmcLoadBalancerTimeout \/ KmcObjects
    \/ reconcileStatefulSet \/ KmcStatus \/ KmcDelete

----------------------------------------------------------------------------
(* The rest of the world: Kubernetes and the user.                           *)

LoadBalancerReady ==
    /\ mode.service = "LoadBalancer" /\ objects["service"].exists /\ ~lb
    /\ lb' = TRUE
    /\ UNCHANGED <<mode, kcp, kmc, capi, ca, owner, objects, sts, pcC, c, pcK, k, budget>>

PodsRoll ==
    /\ sts.exists /\ sts.run # sts.template
    /\ sts' = [sts EXCEPT !.run = sts.template, !.up = FALSE]
    /\ UNCHANGED <<mode, kcp, kmc, capi, ca, owner, objects, lb, pcC, c, pcK, k, budget>>

PodsReady ==
    /\ sts.exists /\ ~sts.up /\ sts.run = sts.template
    /\ mountSecrets /\ \A o \in MountedObjects(sts.run) : objects[o].exists
    /\ sts' = [sts EXCEPT !.up = TRUE]
    /\ UNCHANGED <<mode, kcp, kmc, capi, ca, owner, objects, lb, pcC, c, pcK, k, budget>>

(* The garbage collector follows the owner references.                       *)
CollectKmc ==
    /\ kmc.exists /\ ~kmc.deleting /\ ~kcp.exists
    /\ kmc' = IF kmc.finalizer THEN [kmc EXCEPT !.deleting = TRUE] ELSE NoKmc
    /\ UNCHANGED <<mode, kcp, capi, hosting, pcC, c, pcK, k, budget>>

CollectObjects ==
    /\ IF mode.remote THEN ~owner ELSE ~kmc.exists
    /\ sts.exists \/ \E o \in Object : objects[o].exists
    /\ sts' = NoStatefulSet /\ lb' = FALSE
    /\ objects' = [o \in Object |-> Absent]
    /\ UNCHANGED <<mode, kcp, kmc, capi, ca, owner, pcC, c, pcK, k, budget>>

Edit ==
    /\ kcp.exists /\ ~kcp.deleting
    /\ \/ /\ Disturb("editManifests")
          /\ \E r \in Revision \ {kcp.manifests} : kcp' = [kcp EXCEPT !.manifests = r]
       \/ /\ Disturb("editVersion") /\ kcp.version < MaxRevision
          /\ kcp' = [kcp EXCEPT !.version = @ + 1]
    /\ UNCHANGED <<mode, kmc, capi, hosting, pcC, c, pcK, k>>

Delete ==
    /\ kcp.exists /\ ~kcp.deleting
    /\ Disturb("delete")
    /\ kcp' = IF kcp.finalizer THEN [kcp EXCEPT !.deleting = TRUE] ELSE NoControlPlane
    /\ UNCHANGED <<mode, kmc, capi, hosting, pcC, c, pcK, k>>

(* Both controllers run in one manager.                                      *)
Crash ==
    /\ Disturb("crash")
    /\ pcC # "idle" \/ pcK # "idle"
    /\ pcC' = "idle" /\ c' = NoC
    /\ pcK' = "idle" /\ k' = NoK
    /\ UNCHANGED <<mode, kcp, kmc, capi, hosting>>

World == LoadBalancerReady \/ PodsRoll \/ PodsReady \/ CollectKmc \/ CollectObjects

Next == KcpController \/ KmcController \/ World \/ Edit \/ Delete \/ Crash

Spec == Init /\ [][Next]_vars

FairSpec ==
    /\ Spec
    /\ WF_vars(KcpController)
    /\ WF_vars(KmcController)
    /\ WF_vars(World)

----------------------------------------------------------------------------
(* Properties.                                                               *)

(* Every variable has its type.                                              *)
TypeOK ==
    /\ mode \in Modes
    /\ kcp \in ControlPlane /\ kmc \in KmcType
    /\ endpoint \in BOOLEAN /\ infra \in [endpoint : BOOLEAN, ready : BOOLEAN]
    /\ ca \in BOOLEAN /\ owner \in BOOLEAN /\ lb \in BOOLEAN
    /\ objects \in [Object -> Content]
    /\ sts \in StatefulSet
    /\ c \in [before : ControlPlane, after : ControlPlane, found : KmcType, endpoint : BOOLEAN, failed : BOOLEAN]
    /\ k \in [before : KmcType, after : KmcType, svc : BOOLEAN, kubeconfig : BOOLEAN,
              sts : [exists : BOOLEAN, up : BOOLEAN]]
    /\ budget \in 0..MaxDisturbances

(* Every ConfigMap and Secret the pod template mounts has been applied, also *)
(* when an upgrade or a failed apply happened on the way: the objects come   *)
(* before the StatefulSet, and a volume is added after its ConfigMap.        *)
MountsExist ==
    sts.exists /\ kmc.exists /\ ~kmc.deleting
        => \A o \in MountedObjects(sts.template) : objects[o].exists

(* Cluster API is told that the infrastructure is ready only once the        *)
(* endpoint is on the Cluster and on the infrastructure cluster, whatever    *)
(* fails between the three deferred writes of the control plane controller.  *)
InfraReadyMeansEndpoint == infra.ready => endpoint /\ infra.endpoint

(* The external address, once in the Cluster, is never lost, although the    *)
(* control plane controller replaces the whole spec by one that need not     *)
(* have it: its patch is computed from what it read.                         *)
AddressKept == [][kmc.address /\ kmc'.exists => kmc'.address]_vars

(* Once a Cluster being deleted has removed the external owner, neither      *)
(* controller creates it again (the loop the comment in Reconcile fears).    *)
OwnerStaysGone == [][kmc.deleting /\ ~owner => ~owner']_vars

(* The control plane settles.  One that stays ends with pods that run its    *)
(* version, objects generated from the spec, an endpoint and a ready status, *)
(* unless creating the CA secrets failed once: the references written before *)
(* keep them from being tried again.  One that is deleted ends with nothing  *)
(* left, unless it went before the Cluster had its finalizer: then no one    *)
(* removes the external owner.                                               *)
Gone == ~kcp.exists /\ ~kmc.exists /\ ~owner /\ ~sts.exists /\ \A o \in Object : ~objects[o].exists
CertificatesLost == kcp.certs /\ ~ca
OwnerLeft == mode.remote /\ owner /\ ~kcp.exists /\ ~kmc.exists

Delivered ==
    /\ sts.up /\ sts.run.version = kcp.version
    /\ sts.run.manifests.user \in {kcp.manifests} \cup (IF kcp.manifests = 0 THEN Revision ELSE {})
    /\ \A o \in {"config", "entrypoint"} : objects[o] = Generated(o, kmc)
    /\ kcp.initialized /\ infra.ready /\ "Available" \in kmc.conditions

Settles ==
    <>[](IF kcp.exists /\ ~kcp.deleting THEN Delivered \/ CertificatesLost ELSE Gone \/ OwnerLeft)

(* The hash annotation exists "to detect changes in the specification": a    *)
(* control plane no one edits any more ends with the manifests it asks for.  *)
ManifestsDelivered ==
    <>[](kcp.exists /\ ~kcp.deleting /\ ~CertificatesLost => sts.run.manifests.user = kcp.manifests)
============================================================================
