----------------------------- MODULE Bootstrap -----------------------------
(***************************************************************************)
(* Bootstrapping machines.  For every Machine the control plane and the    *)
(* worker bootstrap controllers assemble, from certificates, a join token  *)
(* created in the workload cluster and the user's files, the data the      *)
(* machine boots with, store it in a Secret and report it in the status of *)
(* the config; the provider ID controller then writes the machine's ID to  *)
(* its Node.  Which machine founds the cluster and which ones join is      *)
(* decided from a list of the Machines that is old when the data is used.  *)
(*                                                                         *)
(* Machines are numbered in the order of their creation.  A cluster is     *)
(* named by the machine that founded it.                                   *)
(***************************************************************************)
EXTENDS Naturals, Sequences, FiniteSets, FiniteSetsExt

CONSTANTS
    NumControllers,   \* control plane Machines that are ever created
    NumWorkers,       \* worker Machines that are ever created
    Replicas,         \* spec.replicas of the K0sControlPlane
    Address,          \* the addresses of hosts
    Placement,        \* which host each worker gets: functions from the workers to Address
    JoinPort,         \* the control plane endpoint serves the k0s join API
    OldK0s,           \* k0s is older than v1.31.6, where etcd members leave through a service
    Tunneling,        \* the configs enable tunneling
    Ingress,          \* a hosted control plane has an ingress
    WindowsWorkers,   \* the workers that run Windows
    Disturbance,      \* the kinds of disturbance that may happen
    MaxDisturbances   \* how many of them in one behaviour

Disturbances == {"delete", "staleRead", "assembleFails", "patchFails", "crash", "expire"}

ASSUME CountAssumption == NumControllers \in Nat \ {0} /\ NumWorkers \in Nat /\ Replicas \in Nat \ {0}
ASSUME FlagAssumption == {JoinPort, OldK0s, Tunneling, Ingress} \subseteq BOOLEAN
ASSUME DisturbanceAssumption == Disturbance \subseteq Disturbances /\ MaxDisturbances \in Nat

VARIABLES
    hosted,       \* the control plane is a K0smotronControlPlane: it has no machines
    endpoint,     \* cluster.Spec.ControlPlaneEndpoint is set
    ca,           \* the CA and kubeconfig secrets exist
    initialized,  \* the Cluster's ControlPlaneInitialized condition
    life,         \* per Machine: "none", "active", "deleting" or "gone"
    stage,        \* per Machine: "pending" until its data is ready, then "booting", then "running"
    address,      \* per Machine: its infrastructure reports the address and the provider ID
    ip,           \* per worker: the address its host has
    created,      \* per config: status.initialization.dataSecretCreated
    secret,       \* per config: the bootstrap data in its Secret
    data,         \* per Machine: the bootstrap data it boots with
    member,       \* per controller: the cluster it is a member of
    tokens,       \* the join tokens that were created in workload clusters
    expired,      \* those of them that are past their expiration, 24 hours after
    node,         \* per worker: its Node in the workload cluster
    pc, mem,      \* per config: where its reconciler is and what it holds
    pick,         \* per worker: the Node its provider ID reconciler is about to update
    risky,        \* a deletion left no older machine that a new one could join
    budget        \* disturbances still to come

objects == <<created, secret, tokens, expired>>
machines == <<life, stage, address, ip, data, member>>
reconcilers == <<pc, mem, pick>>
vars == <<hosted, endpoint, ca, initialized, machines, objects, node, reconcilers, risky, budget>>

Controllers == 1..NumControllers
Workers == NumControllers + 1..NumControllers + NumWorkers
Machine == Controllers \cup Workers
None == 0

ASSUME WindowsAssumption == WindowsWorkers \subseteq Workers
ASSUME PlacementAssumption == Placement \subseteq [Workers -> Address] /\ Placement # {}

Existing == {m \in Machine : life[m] \in {"active", "deleting"}}
Active == {m \in Controllers : life[m] = "active"}
Running == {m \in Existing \cap Controllers : stage[m] = "running"}

(* Bootstrap data: the files, the token among them, the controller to join,  *)
(* None for the endpoint, and the commands, of which one installs k0s.       *)
Install == {"installController", "installControllerWithToken", "installWorker", "runScript"}
Command == Install \cup {"pre", "download", "enableLeave", "haproxy", "start", "post", "sentinel"}
File == {"certs", "token", "frpc", "user", "k0sleave", "haproxyCerts", "k0s_install"}
Token == [for : Machine, number : Nat, cluster : Controllers \cup {None}]
NoToken == [for |-> None, number |-> 0, cluster |-> None]
Data(files, token, host, commands) ==
    [files |-> files, token |-> token, host |-> host, commands |-> commands]
NoData == Data({}, NoToken, None, <<>>)
Runs(d, command) == \E i \in DOMAIN d.commands : d.commands[i] = command

NoMem == [list |-> {}, started |-> {}, data |-> NoData]
NoNode == [exists |-> FALSE, providerID |-> None]

Init ==
    /\ hosted \in BOOLEAN
    /\ endpoint = FALSE /\ ca = FALSE /\ initialized = FALSE
    /\ life = [m \in Machine |-> "none"]
    /\ stage = [m \in Machine |-> "pending"]
    /\ address = [m \in Machine |-> FALSE]
    /\ ip \in Placement
    /\ created = [m \in Machine |-> FALSE]
    /\ secret = [m \in Machine |-> NoData]
    /\ data = [m \in Machine |-> NoData]
    /\ member = [m \in Controllers |-> None]
    /\ tokens = {} /\ expired = {}
    /\ node = [w \in Workers |-> NoNode]
    /\ pc = [m \in Machine |-> "idle"]
    /\ mem = [m \in Machine |-> NoMem]
    /\ pick = [w \in Workers |-> None]
    /\ risky = FALSE
    /\ budget = MaxDisturbances

Disturb(kind) ==
    /\ kind \in Disturbance
    /\ budget > 0
    /\ budget' = budget - 1

Goto(m, label) == pc' = [pc EXCEPT ![m] = label]

----------------------------------------------------------------------------
(* The bootstrap controllers: one reconcile of the config of machine m.      *)

(* Collections.Oldest, by creation.                                          *)
Oldest(S) == IF S = {} THEN None ELSE Min(S)

(* What the machines listed say now.                                         *)
Listed == [list |-> Active, started |-> {m \in Active : stage[m] # "pending"}, data |-> NoData]

(* Nothing is done for a config whose status says that the data is there: a  *)
(* status that is not yet in the cache is a disturbance.                     *)
AlreadyCreated(m) == created[m]

StartController(m) ==
    /\ m \in Controllers \cap Existing
    /\ pc[m] = "idle"
    /\ endpoint /\ Active # {}
    /\ IF AlreadyCreated(m) THEN Disturb("staleRead") ELSE UNCHANGED budget
    /\ mem' = [mem EXCEPT ![m] = Listed]
    /\ Goto(m, "generate")
    /\ UNCHANGED <<hosted, endpoint, ca, initialized, machines, objects, node, pick, risky>>

StartWorker(m) ==
    /\ m \in Workers \cap Existing
    /\ pc[m] = "idle"
    /\ endpoint /\ initialized
    /\ IF AlreadyCreated(m) THEN Disturb("staleRead") ELSE UNCHANGED budget
    /\ Goto(m, "generate")
    /\ UNCHANGED <<hosted, endpoint, ca, initialized, machines, objects, node, mem, pick, risky>>

(* Mutant: sorted the wrong way.                                             *)
IsInitial_Newest(m) == m \in Controllers /\ m = Max(mem[m].list)

IsInitial(m) == m \in Controllers /\ Oldest(mem[m].list) = m

getFirstRunningMachineExcludingMachineToBootstrap(m) == Oldest(mem[m].started \ {m})

findFirstControllerIP(m) ==
    LET first == getFirstRunningMachineExcludingMachineToBootstrap(m)
    IN  IF first = None THEN {} ELSE {f \in {first} : address[f]}

(* The clusters behind the endpoint, which leads to any controller: the one  *)
(* of a hosted control plane is called None.                                 *)
Reachable == IF hosted THEN {None} ELSE {member[m] : m \in Running}

(* Mutant: only the endpoint is tried.                                       *)
detectJoinHost_Endpoint(m) == IF m \in Workers \/ (JoinPort /\ Reachable # {}) THEN {None} ELSE {}

(* Where to join: the endpoint when it answers on the join port, else the    *)
(* address of a controller, when there is one.                               *)
detectJoinHost(m) ==
    CASE m \in Workers -> {None}
      [] m \in Controllers /\ JoinPort /\ Reachable # {} -> {None}
      [] OTHER -> findFirstControllerIP(m)

genInitialControlPlaneFiles == {"certs"}
createCPInstallCmd == "installController"
createCPInstallCmdWithJoinToken == "installControllerWithToken"
createInstallCmd(m) == IF m \in WindowsWorkers THEN "runScript" ELSE "installWorker"
JoinCmd(m) == IF m \in Controllers THEN createCPInstallCmdWithJoinToken ELSE createInstallCmd(m)

GenerateInitial(m) ==
    /\ pc[m] = "generate"
    /\ IsInitial(m) /\ ca
    /\ mem' = [mem EXCEPT ![m].data = 
                   Data(genInitialControlPlaneFiles, NoToken, None, <<createCPInstallCmd>>)]
    /\ Goto(m, "assemble")
    /\ UNCHANGED <<hosted, endpoint, ca, initialized, machines, objects, node, pick, risky, budget>>

(* genControlPlaneJoinFiles, getK0sToken.  The token is created last.        *)
NewToken(m, cluster) ==
    [for |-> m, number |-> Cardinality({t \in tokens : t.for = m}) + 1, cluster |-> cluster]

(* Mutant: the token is created before the join host is looked for.          *)
GenerateJoin_TokenFirst(m) ==
    /\ pc[m] = "generate"
    /\ ~IsInitial(m) /\ ca
    /\ \E cluster \in Reachable :
           LET token == NewToken(m, cluster)
           IN  /\ tokens' = tokens \cup {token}
               /\ IF detectJoinHost(m) = {}
                  THEN Goto(m, "idle") /\ mem' = [mem EXCEPT ![m] = NoMem]
                  ELSE \E host \in detectJoinHost(m) :
                          /\ mem' = [mem EXCEPT ![m].data =
                                     Data({"token"}, token, host, <<JoinCmd(m)>>)]
                          /\ Goto(m, "assemble")
    /\ UNCHANGED <<hosted, endpoint, ca, initialized, machines, created, secret, expired, node, pick, risky, budget>>

(* Mutant: an error of the call that creates the token is ignored.           *)
GenerateJoin_ErrorIgnored(m) ==
    /\ pc[m] = "generate"
    /\ ~IsInitial(m) /\ ca
    /\ \E cluster \in Reachable, host \in detectJoinHost(m) :
           LET token == NewToken(m, cluster)
           IN  /\ tokens' \in {tokens, tokens \cup {token}}
               /\ mem' = [mem EXCEPT ![m].data =
                              Data({"token"}, token, host, <<JoinCmd(m)>>)]
    /\ Goto(m, "assemble")
    /\ UNCHANGED <<hosted, endpoint, ca, initialized, machines, created, secret, expired, node, pick, risky, budget>>

GenerateJoin(m) ==
    /\ pc[m] = "generate"
    /\ ~IsInitial(m) /\ ca
    /\ \E cluster \in Reachable, host \in detectJoinHost(m) :
           LET token == NewToken(m, cluster)
           IN  /\ tokens' = tokens \cup {token}
               /\ mem' = [mem EXCEPT ![m].data =
                              Data({"token"}, token, host, <<JoinCmd(m)>>)]
    /\ Goto(m, "assemble")
    /\ UNCHANGED <<hosted, endpoint, ca, initialized, machines, created, secret, expired, node, pick, risky, budget>>

(* Anything missing ends the reconcile, and the next one lists again: a step *)
(* when the list has changed.                                                *)
CanGenerate(m) == ca /\ (IsInitial(m) \/ (Reachable # {} /\ detectJoinHost(m) # {}))

Retry(m) ==
    /\ pc[m] = "generate" /\ ~CanGenerate(m)
    /\ m \notin Existing \/ (m \in Controllers /\ mem[m] # Listed)
    /\ Goto(m, "idle")
    /\ mem' = [mem EXCEPT ![m] = NoMem]
    /\ UNCHANGED <<hosted, endpoint, ca, initialized, machines, objects, node, pick, risky, budget>>

(* The rest of the data: more files, and the commands around the one that    *)
(* installs k0s; on Windows they are all in the script that is run.          *)
genTunnelingFiles == IF Tunneling THEN {"frpc"} ELSE {}
resolveFiles == {"user"}
genShutdownServiceFiles == IF OldK0s THEN {"k0sleave"} ELSE {}
resolveFilesForIngress == IF hosted /\ Ingress THEN {"haproxyCerts"} ELSE {}
createIngressCommands == IF hosted /\ Ingress THEN <<"haproxy">> ELSE <<>>
genK0sCommands(install) ==
    <<"pre", "download">> \o (IF OldK0s THEN <<"enableLeave">> ELSE <<>>) \o <<install, "start", "post">>
getLinuxCommands(install) ==
    <<"pre", "download">> \o createIngressCommands \o <<install, "start", "post", "sentinel">>
getWindowsCommands == [files |-> {"k0s_install"}, commands |-> <<"runScript">>]

generateBootstrapDataForController(d) ==
    [d EXCEPT !.files = @ \cup genTunnelingFiles \cup resolveFiles \cup genShutdownServiceFiles,
              !.commands = genK0sCommands(d.commands[1]) \o <<"sentinel">>]

generateBootstrapDataForWorker(m, d) ==
    LET files == d.files \cup resolveFiles \cup resolveFilesForIngress
    IN  IF m \in WindowsWorkers
        THEN [d EXCEPT !.files = files \cup getWindowsCommands.files, !.commands = getWindowsCommands.commands]
        ELSE [d EXCEPT !.files = files, !.commands = getLinuxCommands(d.commands[1])]

Complete(m) == IF m \in Controllers THEN generateBootstrapDataForController(mem[m].data)
                                    ELSE generateBootstrapDataForWorker(m, mem[m].data)

(* The Secret is owned by the config, and goes with it.                      *)
createBootstrapSecret(m) == IF m \in Existing THEN [secret EXCEPT ![m] = Complete(m)] ELSE secret

(* Any of these files may be missing, after the token was created.  Then the *)
(* Secret is applied.                                                        *)
Assemble(m) ==
    /\ pc[m] = "assemble"
    /\ \/ /\ secret' = createBootstrapSecret(m)
          /\ Goto(m, "patch")
          /\ UNCHANGED budget
       \/ /\ Disturb("assembleFails")
          /\ Goto(m, "idle")
          /\ UNCHANGED secret
    /\ mem' = [mem EXCEPT ![m] = NoMem]
    /\ UNCHANGED <<hosted, endpoint, ca, initialized, machines, created, tokens, expired, node, pick, risky>>

(* The deferred patch: its error is logged and the reconcile succeeds.       *)
PatchStatus(m) ==
    /\ pc[m] = "patch"
    /\ \/ created' = [created EXCEPT ![m] = m \in Existing] /\ UNCHANGED budget
       \/ Disturb("patchFails") /\ UNCHANGED created
    /\ Goto(m, "idle")
    /\ UNCHANGED <<hosted, endpoint, ca, initialized, machines, secret, tokens, expired, node, mem, pick, risky>>

BootstrapController(m) ==
    \/ StartController(m) \/ StartWorker(m) \/ GenerateInitial(m) \/ GenerateJoin(m)
    \/ Retry(m) \/ Assemble(m) \/ PatchStatus(m)

----------------------------------------------------------------------------
(* The provider ID controller.  Nodes are listed in the order of their names.*)

Matches(n, w) == node[n].exists /\ (node[n].providerID = w \/ n = w \/ ip[n] = ip[w])

(* Mutant: a Node that has no ID yet is taken to be the one.                 *)
nodeForMachine_AnyNew(w) == Oldest({n \in Workers : node[n].exists /\ node[n].providerID \in {None, w}})

nodeForMachine(w) == Oldest({n \in Workers : Matches(n, w)})

FindNode(w) ==
    /\ w \in Existing /\ address[w] /\ pick[w] = None
    /\ LET n == nodeForMachine(w)
       IN  /\ n # None /\ node[n].providerID = None
           /\ pick' = [pick EXCEPT ![w] = n]
    /\ UNCHANGED <<hosted, endpoint, ca, initialized, machines, objects, node, pc, mem, risky, budget>>

(* An Update: a Node that changed since it was listed is a conflict.         *)
UpdateNode(w) ==
    /\ pick[w] # None
    /\ node' = IF node[pick[w]] = [exists |-> TRUE, providerID |-> None]
               THEN [node EXCEPT ![pick[w]].providerID = w] ELSE node
    /\ pick' = [pick EXCEPT ![w] = None]
    /\ UNCHANGED <<hosted, endpoint, ca, initialized, machines, objects, pc, mem, risky, budget>>

ProviderIDController(w) == FindNode(w) \/ UpdateNode(w)

----------------------------------------------------------------------------
(* The K0sControlPlane controller, as far as it decides when control plane   *)
(* machines come and go: one at a time, once the newest one is ready.        *)

(* Mutant: the newest machine is not waited for.                             *)
isLatestMachineReady_Always == TRUE

isLatestMachineReady == Active # {} => stage[Max(Active)] = "running"

ScaleUp ==
    /\ ~hosted /\ isLatestMachineReady
    /\ Cardinality(Existing \cap Controllers) <= Replicas
    /\ LET new == {m \in Controllers : life[m] = "none"}
       IN  new # {} /\ life' = [life EXCEPT ![Min(new)] = "active"]
    /\ UNCHANGED <<hosted, endpoint, ca, initialized, stage, address, ip, data, member, objects, node,
                   reconcilers, risky, budget>>

ScaleDown ==
    /\ isLatestMachineReady
    /\ Cardinality(Active) > 1
    /\ life' = [life EXCEPT ![Min(Active)] = "deleting"]
    /\ UNCHANGED <<hosted, endpoint, ca, initialized, stage, address, ip, data, member, objects, node,
                   reconcilers, risky, budget>>

----------------------------------------------------------------------------
(* Cluster API, the infrastructure, k0s on the machines, and the user.       *)

ProvideCluster ==
    /\ \/ ~endpoint /\ endpoint' = TRUE /\ UNCHANGED <<ca, initialized>>
       \/ endpoint /\ ~ca /\ ca' = TRUE /\ UNCHANGED <<endpoint, initialized>>
       \/ ~initialized /\ Reachable # {} /\ initialized' = TRUE /\ UNCHANGED <<endpoint, ca>>
    /\ UNCHANGED <<hosted, machines, objects, node, reconcilers, risky, budget>>

(* A host has one machine at a time.                                         *)
CreateWorker(w) ==
    /\ life[w] = "none" /\ \A v \in Workers : v < w => life[v] # "none"
    /\ \A v \in Workers \cap Existing : ip[v] # ip[w]
    /\ life' = [life EXCEPT ![w] = "active"]
    /\ UNCHANGED <<hosted, endpoint, ca, initialized, stage, address, ip, data, member, objects, node,
                   reconcilers, risky, budget>>

Provision(m) ==
    /\ m \in Existing
    /\ \/ /\ stage[m] = "pending" /\ created[m]
          /\ stage' = [stage EXCEPT ![m] = "booting"]
          /\ data' = [data EXCEPT ![m] = secret[m]]
          /\ UNCHANGED address
       \/ /\ stage[m] # "pending" /\ ~address[m]
          /\ address' = [address EXCEPT ![m] = TRUE]
          /\ UNCHANGED <<stage, data>>
    /\ UNCHANGED <<hosted, endpoint, ca, initialized, life, ip, member, objects, node, reconcilers, risky, budget>>

(* Every command finds its files, so that the sentinel is reached; a join    *)
(* also needs a controller that runs at the join host and accepts the token. *)
Needs(command) ==
    CASE command = "installController" -> {"certs"}
      [] command \in {"installControllerWithToken", "installWorker"} -> {"token"}
      [] command = "runScript" -> {"token", "k0s_install"}
      [] command = "enableLeave" -> {"k0sleave"}
      [] command = "haproxy" -> {"haproxyCerts"}
      [] OTHER -> {}

MayJoin(d) ==
    /\ d.token \in tokens \ expired
    /\ d.token.cluster \in Reachable
    /\ d.host # None => d.host \in Running /\ member[d.host] = d.token.cluster

Boot(m) ==
    /\ m \in Existing /\ stage[m] = "booting"
    /\ \A i \in DOMAIN data[m].commands : Needs(data[m].commands[i]) \subseteq data[m].files
    /\ \/ /\ Runs(data[m], createCPInstallCmd)
          /\ member' = [member EXCEPT ![m] = m] /\ UNCHANGED node
       \/ /\ Runs(data[m], createCPInstallCmdWithJoinToken) /\ MayJoin(data[m])
          /\ member' = [member EXCEPT ![m] = data[m].token.cluster] /\ UNCHANGED node
       \/ /\ Runs(data[m], createInstallCmd(m)) /\ MayJoin(data[m])
          /\ node' = [node EXCEPT ![m].exists = TRUE] /\ UNCHANGED member
    /\ stage' = [stage EXCEPT ![m] = "running"]
    /\ UNCHANGED <<hosted, endpoint, ca, initialized, life, address, ip, data, objects, reconcilers, risky, budget>>

(* The Node of a machine is deleted with it when it is known by its ID.      *)
Remove(m) ==
    /\ life[m] = "deleting"
    /\ life' = [life EXCEPT ![m] = "gone"]
    /\ created' = [created EXCEPT ![m] = FALSE]
    /\ secret' = [secret EXCEPT ![m] = NoData]
    /\ node' = [n \in Workers |-> IF node[n].providerID = m THEN NoNode ELSE node[n]]
    /\ UNCHANGED <<hosted, endpoint, ca, initialized, stage, address, ip, data, member, tokens, expired,
                   reconcilers, risky, budget>>

(* The user, or a MachineHealthCheck, deletes any machine.                   *)
DeleteMachine(m) ==
    /\ life[m] = "active"
    /\ Disturb("delete")
    /\ life' = [life EXCEPT ![m] = "deleting"]
    /\ LET rest == Active \ {m}
       IN  risky' = (risky \/ (m \in Controllers /\ (rest = {} \/ stage[Min(rest)] = "pending")))
    /\ UNCHANGED <<hosted, endpoint, ca, initialized, stage, address, ip, data, member, objects, node,
                   reconcilers>>

(* A machine takes more than a day to use its token.  Nobody replaces it.    *)
Expire ==
    /\ Disturb("expire")
    /\ \E t \in tokens \ expired : stage[t.for] # "running" /\ expired' = expired \cup {t}
    /\ UNCHANGED <<hosted, endpoint, ca, initialized, machines, created, secret, tokens, node, reconcilers, risky>>

Crash ==
    /\ Disturb("crash")
    /\ pc' = [m \in Machine |-> "idle"]
    /\ mem' = [m \in Machine |-> NoMem]
    /\ pick' = [w \in Workers |-> None]
    /\ reconcilers' # reconcilers
    /\ UNCHANGED <<hosted, endpoint, ca, initialized, machines, objects, node, risky>>

System ==
    \/ \E m \in Machine : BootstrapController(m) \/ Provision(m) \/ Boot(m) \/ Remove(m)
    \/ \E w \in Workers : ProviderIDController(w)
    \/ ProvideCluster

Next ==
    \/ System
    \/ ScaleUp \/ ScaleDown
    \/ \E w \in Workers : CreateWorker(w)
    \/ \E m \in Machine : DeleteMachine(m)
    \/ Expire
    \/ Crash

Spec == Init /\ [][Next]_vars

(* No step of System can be undone by System, so fairness for each of its    *)
(* steps is fairness for all of them together.                               *)
FairSpec == Spec /\ WF_vars(System)

----------------------------------------------------------------------------
(* Properties.                                                               *)

(* Every variable has its type.                                              *)
IsData(d) ==
    /\ d.files \subseteq File /\ d.token \in Token \cup {NoToken}
    /\ d.host \in Controllers \cup {None} /\ d.commands \in Seq(Command)

TypeOK ==
    /\ {hosted, endpoint, ca, initialized, risky} \subseteq BOOLEAN
    /\ life \in [Machine -> {"none", "active", "deleting", "gone"}]
    /\ stage \in [Machine -> {"pending", "booting", "running"}]
    /\ address \in [Machine -> BOOLEAN] /\ created \in [Machine -> BOOLEAN]
    /\ ip \in [Workers -> Address]
    /\ \A m \in Machine : IsData(secret[m]) /\ IsData(data[m]) /\ IsData(mem[m].data)
    /\ member \in [Controllers -> Controllers \cup {None}]
    /\ tokens \subseteq Token /\ expired \subseteq tokens
    /\ node \in [Workers -> [exists : BOOLEAN, providerID : Workers \cup {None}]]
    /\ pc \in [Machine -> {"idle", "generate", "assemble", "patch"}]
    /\ \A m \in Machine : mem[m].list \subseteq Controllers /\ mem[m].started \subseteq mem[m].list
    /\ pick \in [Workers -> Workers \cup {None}]
    /\ budget \in 0..MaxDisturbances

(* Of two machines told to found the cluster the older one is being deleted, *)
(* whatever the age of the list the decision was taken from.                 *)
OneFounder ==
    \A m, n \in Controllers :
        m < n /\ Runs(data[m], createCPInstallCmd) /\ Runs(data[n], createCPInstallCmd)
            => life[m] # "active"

(* All controllers that run are members of one cluster, as long as no one    *)
(* deletes the machines a new one could join: the control plane controller   *)
(* itself, which always deletes the oldest machine, never does.              *)
OneCluster == ~risky => Cardinality(Reachable) <= 1

(* What a machine boots with lets it join: while the controller it is told   *)
(* to join runs, or any one behind the endpoint, only the expiration of its  *)
(* token can turn it away.  The host comes from a list of machines that may  *)
(* be old, the token from wherever the endpoint led, and the Secret may have *)
(* been written again since (genControlPlaneJoinFiles, getK0sToken).  As for *)
(* OneCluster nobody else must have deleted the machines one could join.     *)
JoinDataUsable ==
    ~risky => \A m \in Machine :
        LET d == data[m]
        IN  /\ stage[m] = "booting" /\ d.token \notin expired \cup {NoToken}
            /\ IF d.host = None THEN Reachable # {} ELSE d.host \in Running
            => MayJoin(d)

(* The credential is created last so that a retry leaves no other behind: a  *)
(* machine has more than one token only for failures that came after it.     *)
TokensBounded ==
    \A m \in Machine :
        Cardinality({t \in tokens : t.for = m}) <= 1 + MaxDisturbances - budget

(* No Node of a machine that exists is given the ID of another machine.      *)
OwnProviderID == \A w \in Workers \cap Existing : node[w].providerID \in {None, w}

(* Every machine that is not deleted boots, unless the cluster it was to     *)
(* join is gone or its token has expired, and every worker's Node gets its   *)
(* ID, unless the Node of an earlier machine of that host was left behind.   *)
Stranded(m) ==
    \/ data[m].token # NoToken /\ ~MayJoin(data[m])
    \/ stage[m] = "pending" /\ Reachable = {} /\ m # Oldest(Active)
LeftBehind(w) == \E v \in Workers \ {w} : v \notin Existing /\ node[v].exists /\ ip[v] = ip[w]

Bootstrapped ==
    <>[](\A m \in Machine : life[m] = "active" =>
            \/ Stranded(m)
            \/ stage[m] = "running"
               /\ (m \in Workers => node[m].providerID = m \/ LeftBehind(m)))
============================================================================
