--------------------------- MODULE BootstrapProofs ---------------------------
(***************************************************************************)
(* Proofs about Bootstrap, for any number of machines, hosts, replicas and *)
(* disturbances: who is told to found the cluster, that all controllers    *)
(* are in the one it founds, which tokens machines boot with and how many  *)
(* of them there are, and which node a worker is taken for.                *)
(***************************************************************************)
EXTENDS Bootstrap, FiniteSetTheorems, TLAPS

(* What no prover is named for goes to Zenon.                               *)
USE ZenonT(30)

USE CountAssumption

----------------------------------------------------------------------------
(* The inductive invariant.                                                  *)

DataRecord == [files : SUBSET File, token : Token \cup {NoToken},
               host : Controllers \cup {None}, commands : Seq(Command)]
MemRecord == [list : SUBSET Controllers, started : SUBSET Controllers, data : DataRecord]
NodeRecord == [exists : BOOLEAN, providerID : Workers \cup {None}]
Lives == {"none", "active", "deleting", "gone"}

ClusterOK ==
    /\ hosted \in BOOLEAN /\ endpoint \in BOOLEAN /\ ca \in BOOLEAN /\ initialized \in BOOLEAN
    /\ risky \in BOOLEAN
LifeOK == life \in [Machine -> Lives]
MachinesOK ==
    /\ stage \in [Machine -> {"pending", "booting", "running"}]
    /\ address \in [Machine -> BOOLEAN]
    /\ ip \in [Workers -> Address]
    /\ data \in [Machine -> DataRecord]
    /\ member \in [Controllers -> Controllers \cup {None}]
ObjectsOK ==
    /\ created \in [Machine -> BOOLEAN] /\ secret \in [Machine -> DataRecord]
    /\ tokens \subseteq Token /\ IsFiniteSet(tokens) /\ expired \subseteq tokens
NodesOK ==
    /\ node \in [Workers -> NodeRecord]
    /\ pick \in [Workers -> Workers \cup {None}]
ReconcilersOK ==
    /\ pc \in [Machine -> {"idle", "generate", "assemble", "patch"}]
    /\ mem \in [Machine -> MemRecord]
    /\ \A m \in Machine : /\ mem[m].started \subseteq mem[m].list
                          /\ pc[m] = "assemble" => mem[m].data.commands # <<>>
BudgetOK == budget \in 0..MaxDisturbances

Typed == ClusterOK /\ LifeOK /\ MachinesOK /\ ObjectsOK /\ NodesOK /\ ReconcilersOK /\ BudgetOK

(* Controllers are created in the order of their numbers.                    *)
InOrder == \A m, n \in Controllers : m < n /\ life[n] # "none" => life[m] # "none"

(* No older controller is left, or will be: what Oldest(list) = n, found in  *)
(* a list of any age, still says when the data is used.                      *)
NoneOlder(n) == \A m \in Controllers : m < n => life[m] \in {"deleting", "gone"}

Joining == Command \ {"installController"}

FounderOK(n) ==
    /\ pc[n] = "generate" /\ IsInitial(n) => NoneOlder(n)
    /\ mem[n].data.commands \in Seq(Joining) \/ NoneOlder(n)
    /\ secret[n].commands \in Seq(Joining) \/ NoneOlder(n)
    /\ data[n].commands \in Seq(Joining) \/ NoneOlder(n)

(* A token that was handed out exists, wherever the data is on its way.      *)
Usable(d) == d.token \in tokens \cup {NoToken}
TokensOK == \A m \in Machine : Usable(mem[m].data) /\ Usable(secret[m]) /\ Usable(data[m])

Inductive == Typed /\ InOrder /\ TokensOK /\ \A n \in Controllers : FounderOK(n)

----------------------------------------------------------------------------
(* Facts about the operators.                                                *)

LEMMA MachineNumbers ==
    /\ Machine \subseteq Nat \ {0} /\ Controllers \subseteq Machine /\ Workers \subseteq Machine
    /\ Controllers \cap Workers = {} /\ Controllers \subseteq Nat \ {0} /\ Workers \subseteq Nat \ {0}
BY SMTT(30) DEF Machine, Controllers, Workers

(* Min, and with it Oldest, gives the first machine of any set of them.      *)
LEMMA MinIsLeast ==
    ASSUME NEW S \in SUBSET Machine, S # {}
    PROVE  Min(S) \in S /\ \A m \in S : Min(S) <= m
<1> DEFINE less == OpToRel(<, Nat)
<1>1. IsWellFoundedOn(less, Nat)
    BY NatLessThanWellFounded
<1> HIDE DEF less
<1>2. S \subseteq Nat
    BY MachineNumbers
<1>3. PICK x \in S : \A y \in S : ~(<<y, x>> \in less)
    BY <1>1, <1>2, WFMin
<1>4. ASSUME NEW y \in S PROVE x <= y
    <2>1. y < x => <<y, x>> \in less
        BY <1>2 DEF less, OpToRel
    <2> QED BY <1>2, <1>3, <2>1, SMTT(30)
<1> QED BY <1>3, <1>4 DEF Min

LEMMA OldestIsLeast ==
    ASSUME NEW S \in SUBSET Machine
    PROVE  /\ Oldest(S) \in S \cup {None}
           /\ Oldest(S) # None => \A m \in S : Oldest(S) <= m
BY MinIsLeast DEF Oldest

(* What the commands around the installation are made of.                    *)
Around == {"pre", "download", "enableLeave", "haproxy", "start", "post", "sentinel"}

LEMMA CommandsAround ==
    ASSUME NEW C, Around \subseteq C, NEW install \in C
    PROVE  /\ genK0sCommands(install) \o <<"sentinel">> \in Seq(C)
           /\ getLinuxCommands(install) \in Seq(C)
<1>1. /\ <<"pre", "download">> \in Seq(C) /\ <<"sentinel">> \in Seq(C)
      /\ <<install, "start", "post">> \in Seq(C) /\ <<install, "start", "post", "sentinel">> \in Seq(C)
    BY SMTT(30) DEF Around
<1>2. (IF OldK0s THEN <<"enableLeave">> ELSE <<>>) \in Seq(C) /\ createIngressCommands \in Seq(C)
    BY SMTT(30) DEF Around, createIngressCommands
<1>3. \A s, t \in Seq(C) : s \o t \in Seq(C)
    BY SMTT(30)
<1>4. genK0sCommands(install) \in Seq(C)
    BY <1>1, <1>2, <1>3 DEF genK0sCommands
<1> QED BY <1>1, <1>2, <1>3, <1>4 DEF getLinuxCommands

LEMMA ControllerData ==
    ASSUME NEW d \in DataRecord, d.commands # <<>>
    PROVE  LET c == generateBootstrapDataForController(d)
           IN  /\ c \in DataRecord /\ c.token = d.token
               /\ d.commands \in Seq(Joining) => c.commands \in Seq(Joining)
<1> DEFINE c == generateBootstrapDataForController(d)
           cmds == genK0sCommands(d.commands[1]) \o <<"sentinel">>
           files == d.files \cup genTunnelingFiles \cup resolveFiles \cup genShutdownServiceFiles
<1>1. d.commands \in Seq(Command) /\ d.files \in SUBSET File
    BY DEF DataRecord
<1>2. d.commands[1] \in Command
    BY <1>1, SMTT(30)
<1>3. cmds \in Seq(Command)
    BY <1>2, CommandsAround DEF Around, Command
<1>4. d.commands \in Seq(Joining) => cmds \in Seq(Joining)
  <2>1. d.commands \in Seq(Joining) => d.commands[1] \in Joining
      BY SMTT(30)
  <2>2. Around \subseteq Joining
      BY DEF Around, Joining, Command, Install
  <2> QED BY <2>1, <2>2, CommandsAround
<1>5. files \in SUBSET File
    BY <1>1 DEF genTunnelingFiles, resolveFiles, genShutdownServiceFiles, File
<1>6. c = [d EXCEPT !.files = files, !.commands = cmds]
    BY DEF generateBootstrapDataForController
<1> HIDE DEF c, cmds, files
<1>7. c \in DataRecord /\ c.token = d.token /\ c.commands = cmds
    BY <1>3, <1>5, <1>6 DEF DataRecord
<1> QED BY <1>4, <1>7 DEF c

LEMMA WorkerData ==
    ASSUME NEW m, NEW d \in DataRecord, d.commands # <<>>
    PROVE  LET c == generateBootstrapDataForWorker(m, d)
           IN  c \in DataRecord /\ c.token = d.token
<1> DEFINE c == generateBootstrapDataForWorker(m, d)
           cmds == IF m \in WindowsWorkers THEN <<"runScript">> ELSE getLinuxCommands(d.commands[1])
           files == IF m \in WindowsWorkers
                    THEN d.files \cup resolveFiles \cup resolveFilesForIngress \cup {"k0s_install"}
                    ELSE d.files \cup resolveFiles \cup resolveFilesForIngress
<1>1. d.commands \in Seq(Command) /\ d.files \in SUBSET File
    BY DEF DataRecord
<1>2. d.commands[1] \in Command
    BY <1>1, SMTT(30)
<1>3. cmds \in Seq(Command)
  <2>1. <<"runScript">> \in Seq(Command)
      BY SMTT(30) DEF Command, Install
  <2>2. getLinuxCommands(d.commands[1]) \in Seq(Command)
      BY <1>2, CommandsAround DEF Around, Command
  <2> QED BY <2>1, <2>2
<1>4. files \in SUBSET File
    BY <1>1 DEF resolveFiles, resolveFilesForIngress, File
<1>5. c = [d EXCEPT !.files = files, !.commands = cmds]
    BY DEF generateBootstrapDataForWorker, getWindowsCommands
<1> HIDE DEF c, cmds, files
<1>6. c \in DataRecord /\ c.token = d.token
    BY <1>3, <1>4, <1>5 DEF DataRecord
<1> QED BY <1>6 DEF c

LEMMA CompleteData ==
    ASSUME ReconcilersOK, NEW m \in Machine, pc[m] = "assemble"
    PROVE  /\ Complete(m) \in DataRecord /\ Complete(m).token = mem[m].data.token
           /\ m \in Controllers /\ mem[m].data.commands \in Seq(Joining)
                  => Complete(m).commands \in Seq(Joining)
<1>1. mem[m].data \in DataRecord /\ mem[m].data.commands # <<>>
    BY DEF ReconcilersOK, MemRecord
<1> QED BY <1>1, ControllerData, WorkerData DEF Complete

LEMMA EmptyData ==
    /\ NoData \in DataRecord /\ NoMem \in MemRecord /\ NoMem.data = NoData
    /\ NoData.commands \in Seq(Joining) /\ NoData.token = NoToken /\ NoMem.list = {} /\ NoMem.started = {}
<1>1. <<>> \in Seq(Command) /\ <<>> \in Seq(Joining)
    BY SMTT(30)
<1>2. NoData \in DataRecord
    BY <1>1 DEF NoData, Data, DataRecord
<1> QED BY <1>1, <1>2 DEF NoData, Data, NoMem, MemRecord

----------------------------------------------------------------------------
(* Type correctness.                                                         *)

LEMMA InitTyped == Init => Typed
<1> SUFFICES ASSUME Init PROVE Typed
    OBVIOUS
<1> USE EmptyData, MachineNumbers
<1>1. ClusterOK /\ BudgetOK
  <2>1. BudgetOK
      BY DisturbanceAssumption, SMTT(30) DEF Init, BudgetOK
  <2> QED BY <2>1 DEF Init, ClusterOK
<1>2. LifeOK /\ MachinesOK
    BY PlacementAssumption DEF Init, LifeOK, MachinesOK, Lives
<1>3. ObjectsOK
    BY FS_EmptySet DEF Init, ObjectsOK
<1>4. NodesOK
    BY DEF Init, NodesOK, NodeRecord, NoNode
<1>5. ReconcilersOK
    BY DEF Init, ReconcilersOK
<1> QED BY <1>1, <1>2, <1>3, <1>4, <1>5 DEF Typed

LEMMA BudgetTyped ==
    ASSUME BudgetOK, NEW kind, Disturb(kind) \/ UNCHANGED budget
    PROVE  BudgetOK'
BY DisturbanceAssumption, SMTT(30) DEF BudgetOK, Disturb

(* The lists that the bootstrap controllers read.                            *)
LEMMA ListedTyped == Typed => Listed \in MemRecord /\ Listed.started \subseteq Listed.list /\ Listed.data = NoData
BY EmptyData DEF Listed, MemRecord, Active

LEMMA JoinHostTyped ==
    ASSUME Typed, NEW m \in Machine
    PROVE  detectJoinHost(m) \subseteq Controllers \cup {None}
<1>1. mem[m].started \in SUBSET Controllers
    BY DEF Typed, ReconcilersOK, MemRecord
<1>2. Oldest(mem[m].started \ {m}) \in Controllers \cup {None}
    BY <1>1, OldestIsLeast, MachineNumbers
<1>3. findFirstControllerIP(m) \subseteq Controllers \cup {None}
    BY <1>2 DEF findFirstControllerIP, getFirstRunningMachineExcludingMachineToBootstrap
<1>4. CASE m \in Workers
    BY <1>4, MachineNumbers DEF detectJoinHost
<1>5. CASE m \in Controllers
    BY <1>3, <1>5, MachineNumbers DEF detectJoinHost
<1> QED BY <1>4, <1>5 DEF Machine

LEMMA ReachableTyped == Typed => Reachable \subseteq Controllers \cup {None}
BY DEF Typed, MachinesOK, Reachable, Running

(* The token that a machine joins with.                                      *)
LEMMA TokenTyped ==
    ASSUME Typed, NEW m \in Machine, NEW cluster \in Reachable
    PROVE  NewToken(m, cluster) \in Token
<1>1. cluster \in Controllers \cup {None}
    BY ReachableTyped
<1>2. IsFiniteSet({t \in tokens : t.for = m})
    BY FS_Subset DEF Typed, ObjectsOK
<1>3. Cardinality({t \in tokens : t.for = m}) + 1 \in Nat
    BY <1>2, FS_CardinalityType, SMTT(30)
<1> QED BY <1>1, <1>3 DEF NewToken, Token

LEMMA JoinDataTyped ==
    ASSUME NEW m \in Machine, NEW token \in Token, NEW host \in Controllers \cup {None}
    PROVE  LET d == Data({"token"}, token, host, <<JoinCmd(m)>>)
           IN  /\ d \in DataRecord /\ d.token = token /\ d.commands # <<>>
               /\ m \in Controllers => d.commands \in Seq(Joining)
<1>1. JoinCmd(m) \in Command /\ (m \in Controllers => JoinCmd(m) \in Joining)
    BY DEF JoinCmd, createCPInstallCmdWithJoinToken, createInstallCmd, Joining, Command, Install
<1>2. <<JoinCmd(m)>> \in Seq(Command) /\ (m \in Controllers => <<JoinCmd(m)>> \in Seq(Joining))
    BY <1>1, SMTT(30)
<1>3. {"token"} \subseteq File /\ <<JoinCmd(m)>> # <<>>
    BY DEF File
<1> QED BY <1>2, <1>3 DEF Data, DataRecord

LEMMA InitialDataTyped ==
    LET d == Data(genInitialControlPlaneFiles, NoToken, None, <<createCPInstallCmd>>)
    IN  d \in DataRecord /\ d.token = NoToken /\ d.commands # <<>>
<1>1. <<createCPInstallCmd>> \in Seq(Command) /\ <<createCPInstallCmd>> # <<>>
    BY SMTT(30) DEF createCPInstallCmd, Command, Install
<1>2. genInitialControlPlaneFiles \subseteq File
    BY DEF genInitialControlPlaneFiles, File
<1> QED BY <1>1, <1>2 DEF Data, DataRecord

(* What the reconciler of m holds changes, and where it is.                  *)
LEMMA HoldsTyped ==
    ASSUME ReconcilersOK, NEW m \in Machine, NEW label \in {"idle", "generate", "assemble", "patch"},
           NEW new \in MemRecord, new.started \subseteq new.list,
           label = "assemble" => new.data.commands # <<>>,
           mem' = [mem EXCEPT ![m] = new], Goto(m, label)
    PROVE  ReconcilersOK'
<1>1. \A k \in Machine : /\ mem'[k] = IF k = m THEN new ELSE mem[k]
                         /\ pc'[k] = IF k = m THEN label ELSE pc[k]
    BY DEF ReconcilersOK, Goto
<1>2. mem' \in [Machine -> MemRecord] /\ pc' \in [Machine -> {"idle", "generate", "assemble", "patch"}]
    BY DEF ReconcilersOK, Goto
<1> QED BY <1>1, <1>2 DEF ReconcilersOK

LEMMA HeldData ==
    ASSUME ReconcilersOK, NEW m \in Machine, NEW d \in DataRecord
    PROVE  LET new == [mem[m] EXCEPT !.data = d]
           IN  /\ new \in MemRecord /\ new.started \subseteq new.list /\ new.data = d
               /\ [mem EXCEPT ![m].data = d] = [mem EXCEPT ![m] = new]
<1>1. mem[m] \in MemRecord /\ mem[m].started \subseteq mem[m].list
    BY DEF ReconcilersOK
<1>2. LET new == [mem[m] EXCEPT !.data = d]
      IN  new \in MemRecord /\ new.started \subseteq new.list /\ new.data = d
    BY <1>1 DEF MemRecord
<1>3. [mem EXCEPT ![m].data = d] = [mem EXCEPT ![m] = [mem[m] EXCEPT !.data = d]]
    BY DEF ReconcilersOK
<1> QED BY <1>2, <1>3

LEMMA BootstrapControllerTyped ==
    ASSUME Typed, NEW m \in Machine, BootstrapController(m)
    PROVE  Typed'
<1> USE DEF machines, objects
<1>0. ClusterOK /\ LifeOK /\ MachinesOK /\ ObjectsOK /\ NodesOK /\ ReconcilersOK /\ BudgetOK
    BY DEF Typed
<1>1. ASSUME UNCHANGED <<hosted, endpoint, ca, initialized, risky, machines, node, pick>>
      PROVE  ClusterOK' /\ LifeOK' /\ MachinesOK' /\ NodesOK'
    BY <1>0, <1>1 DEF ClusterOK, LifeOK, MachinesOK, NodesOK
<1>2. ASSUME UNCHANGED objects PROVE ObjectsOK'
    BY <1>0, <1>2 DEF ObjectsOK
<1>3. CASE StartController(m)
  <2>1. ReconcilersOK'
    <3>1. mem' = [mem EXCEPT ![m] = Listed] /\ Goto(m, "generate")
        BY <1>3 DEF StartController
    <3> QED BY <1>0, <3>1, ListedTyped, HoldsTyped
  <2>2. BudgetOK'
      BY <1>0, <1>3, BudgetTyped DEF StartController
  <2> QED BY <1>1, <1>2, <1>3, <2>1, <2>2 DEF Typed, StartController
<1>4. CASE StartWorker(m)
  <2>1. ReconcilersOK'
    <3>1. mem' = mem /\ Goto(m, "generate")
        BY <1>4 DEF StartWorker
    <3> QED BY <1>0, <3>1 DEF ReconcilersOK, Goto
  <2>2. BudgetOK'
      BY <1>0, <1>4, BudgetTyped DEF StartWorker
  <2> QED BY <1>1, <1>2, <1>4, <2>1, <2>2 DEF Typed, StartWorker
<1>5. CASE GenerateInitial(m)
  <2> DEFINE d == Data(genInitialControlPlaneFiles, NoToken, None, <<createCPInstallCmd>>)
  <2>1. d \in DataRecord /\ d.commands # <<>>
      BY InitialDataTyped
  <2>2. mem' = [mem EXCEPT ![m].data = d] /\ Goto(m, "assemble")
      BY <1>5 DEF GenerateInitial
  <2> HIDE DEF d
  <2>3. ReconcilersOK'
      BY <1>0, <2>1, <2>2, HeldData, HoldsTyped
  <2>4. BudgetOK'
      BY <1>0, <1>5 DEF GenerateInitial, BudgetOK
  <2> QED BY <1>1, <1>2, <1>5, <2>3, <2>4 DEF Typed, GenerateInitial
<1>6. CASE GenerateJoin(m)
  <2>1. PICK cluster \in Reachable, host \in detectJoinHost(m) :
            /\ tokens' = tokens \cup {NewToken(m, cluster)}
            /\ mem' = [mem EXCEPT ![m].data = Data({"token"}, NewToken(m, cluster), host, <<JoinCmd(m)>>)]
      BY <1>6 DEF GenerateJoin
  <2> DEFINE token == NewToken(m, cluster)
             d == Data({"token"}, token, host, <<JoinCmd(m)>>)
  <2>2. token \in Token /\ host \in Controllers \cup {None}
      BY TokenTyped, JoinHostTyped
  <2>3. d \in DataRecord /\ d.commands # <<>>
    <3> HIDE DEF token
    <3> QED BY <2>2, JoinDataTyped
  <2>4. mem' = [mem EXCEPT ![m].data = d] /\ Goto(m, "assemble") /\ tokens' = tokens \cup {token}
      BY <1>6, <2>1 DEF GenerateJoin
  <2>5. UNCHANGED <<created, secret, expired>>
      BY <1>6 DEF GenerateJoin
  <2> HIDE DEF d, token
  <2>6. ReconcilersOK'
      BY <1>0, <2>3, <2>4, HeldData, HoldsTyped
  <2>7. ObjectsOK'
      BY <1>0, <2>2, <2>4, <2>5, FS_AddElement DEF ObjectsOK
  <2>8. BudgetOK'
      BY <1>0, <1>6 DEF GenerateJoin, BudgetOK
  <2> QED BY <1>1, <1>6, <2>6, <2>7, <2>8 DEF Typed, GenerateJoin
<1>7. CASE Retry(m)
  <2>1. ReconcilersOK'
    <3>1. mem' = [mem EXCEPT ![m] = NoMem] /\ Goto(m, "idle")
        BY <1>7 DEF Retry
    <3> QED BY <1>0, <3>1, EmptyData, HoldsTyped
  <2>2. BudgetOK'
      BY <1>0, <1>7 DEF Retry, BudgetOK
  <2> QED BY <1>1, <1>2, <1>7, <2>1, <2>2 DEF Typed, Retry
<1>8. CASE Assemble(m)
  <2>1. mem' = [mem EXCEPT ![m] = NoMem] /\ (Goto(m, "patch") \/ Goto(m, "idle"))
      BY <1>8 DEF Assemble
  <2>2. ReconcilersOK'
      BY <1>0, <2>1, EmptyData, HoldsTyped
  <2>3. Complete(m) \in DataRecord
      BY <1>0, <1>8, CompleteData DEF Assemble
  <2>4. ObjectsOK'
      BY <1>0, <1>8, <2>3 DEF Assemble, createBootstrapSecret, ObjectsOK
  <2>5. BudgetOK'
      BY <1>0, <1>8, BudgetTyped DEF Assemble
  <2> QED BY <1>1, <1>8, <2>2, <2>4, <2>5 DEF Typed, Assemble
<1>9. CASE PatchStatus(m)
  <2>1. ReconcilersOK'
    <3>1. mem' = mem /\ Goto(m, "idle")
        BY <1>9 DEF PatchStatus
    <3> QED BY <1>0, <3>1 DEF ReconcilersOK, Goto
  <2>2. ObjectsOK'
    <3>1. created' \in [Machine -> BOOLEAN]
      <4>1. ASSUME NEW b \in BOOLEAN PROVE [created EXCEPT ![m] = b] \in [Machine -> BOOLEAN]
          BY <1>0, <4>1 DEF ObjectsOK
      <4>2. (m \in Existing) \in BOOLEAN
          BY SMTT(30)
      <4>3. [created EXCEPT ![m] = m \in Existing] \in [Machine -> BOOLEAN]
          BY <4>1, <4>2
      <4> QED BY <1>0, <1>9, <4>3 DEF PatchStatus, ObjectsOK
    <3> QED BY <1>0, <1>9, <3>1 DEF PatchStatus, ObjectsOK
  <2>3. BudgetOK'
      BY <1>0, <1>9, BudgetTyped DEF PatchStatus
  <2> QED BY <1>1, <1>9, <2>1, <2>2, <2>3 DEF Typed, PatchStatus
<1> QED BY <1>3, <1>4, <1>5, <1>6, <1>7, <1>8, <1>9 DEF BootstrapController

LEMMA NextTyped == Typed /\ [Next]_vars => Typed'
<1> SUFFICES ASSUME Typed, [Next]_vars PROVE Typed'
    OBVIOUS
<1> USE DEF machines, objects, reconcilers
<1>0. ClusterOK /\ LifeOK /\ MachinesOK /\ ObjectsOK /\ NodesOK /\ ReconcilersOK /\ BudgetOK
    BY DEF Typed
<1>1. ASSUME NEW m \in Machine, BootstrapController(m) PROVE Typed'
    BY <1>1, BootstrapControllerTyped
<1>2. ASSUME NEW m \in Machine, Provision(m) PROVE Typed'
  <2>1. secret[m] \in DataRecord
      BY <1>0 DEF ObjectsOK
  <2>2. MachinesOK'
      BY <1>0, <1>2, <2>1 DEF Provision, MachinesOK
  <2> QED BY <1>0, <1>2, <2>2
          DEF Typed, Provision, ClusterOK, LifeOK, ObjectsOK, NodesOK, ReconcilersOK, BudgetOK
<1>3. ASSUME NEW m \in Machine, Boot(m) PROVE Typed'
  <2>1. stage' \in [Machine -> {"pending", "booting", "running"}]
      BY <1>0, <1>3 DEF Boot, MachinesOK
  <2>2. member' \in [Controllers -> Controllers \cup {None}]
    <3>1. data[m].token.cluster \in Controllers \cup {None}
        BY <1>0, SMTT(30) DEF MachinesOK, DataRecord, Token, NoToken
    <3>2. m \in Controllers => [member EXCEPT ![m] = m] \in [Controllers -> Controllers \cup {None}]
        BY <1>0 DEF MachinesOK
    <3>3. m \notin Controllers => [member EXCEPT ![m] = m] = member
        BY <1>0 DEF MachinesOK
    <3>4. [member EXCEPT ![m] = data[m].token.cluster] \in [Controllers -> Controllers \cup {None}]
        BY <1>0, <3>1 DEF MachinesOK
    <3> QED BY <1>0, <1>3, <3>2, <3>3, <3>4 DEF Boot, MachinesOK
  <2>3. node' \in [Workers -> NodeRecord]
    <3>1. [node EXCEPT ![m].exists = TRUE] \in [Workers -> NodeRecord]
        BY <1>0 DEF NodesOK, NodeRecord
    <3> QED BY <1>0, <1>3, <3>1 DEF Boot, NodesOK
  <2> QED BY <1>0, <1>3, <2>1, <2>2, <2>3
          DEF Typed, Boot, MachinesOK, NodesOK, ClusterOK, LifeOK, ObjectsOK, ReconcilersOK, BudgetOK
<1>4. ASSUME NEW m \in Machine, Remove(m) PROVE Typed'
  <2>1. LifeOK'
      BY <1>0, <1>4 DEF Remove, LifeOK, Lives
  <2>2. ObjectsOK'
      BY <1>0, <1>4, EmptyData DEF Remove, ObjectsOK
  <2>3. NodesOK'
    <3>1. NoNode \in NodeRecord
        BY DEF NoNode, NodeRecord
    <3> QED BY <1>0, <1>4, <3>1 DEF Remove, NodesOK
  <2> QED BY <1>0, <1>4, <2>1, <2>2, <2>3 DEF Typed, Remove, MachinesOK, ClusterOK, ReconcilersOK, BudgetOK
<1>5. ASSUME NEW w \in Workers, FindNode(w) PROVE Typed'
  <2>1. nodeForMachine(w) \in Workers \cup {None}
      BY OldestIsLeast, MachineNumbers DEF nodeForMachine
  <2>2. NodesOK'
      BY <1>0, <1>5, <2>1 DEF FindNode, NodesOK
  <2> QED BY <1>0, <1>5, <2>2
          DEF Typed, FindNode, MachinesOK, ClusterOK, LifeOK, ObjectsOK, ReconcilersOK, BudgetOK
<1>6. ASSUME NEW w \in Workers, UpdateNode(w) PROVE Typed'
  <2>1. NodesOK'
      BY <1>0, <1>6 DEF UpdateNode, NodesOK, NodeRecord
  <2> QED BY <1>0, <1>6, <2>1
          DEF Typed, UpdateNode, MachinesOK, ClusterOK, LifeOK, ObjectsOK, ReconcilersOK, BudgetOK
<1>7. CASE ProvideCluster
  <2>1. ClusterOK'
      BY <1>0, <1>7 DEF ProvideCluster, ClusterOK
  <2> QED BY <1>0, <1>7, <2>1
          DEF Typed, ProvideCluster, MachinesOK, LifeOK, ObjectsOK, NodesOK, ReconcilersOK, BudgetOK
<1>8. ASSUME NEW m, NEW l \in Lives, life' = [life EXCEPT ![m] = l] PROVE LifeOK'
    BY <1>0, <1>8 DEF LifeOK
<1>9. CASE ScaleUp \/ ScaleDown \/ \E w \in Workers : CreateWorker(w)
  <2>1. \E m : \E l \in Lives : life' = [life EXCEPT ![m] = l]
      BY <1>9 DEF ScaleUp, ScaleDown, CreateWorker, Lives
  <2>2. UNCHANGED <<hosted, endpoint, ca, initialized, stage, address, ip, data, member, objects, node,
                    reconcilers, risky, budget>>
      BY <1>9 DEF ScaleUp, ScaleDown, CreateWorker
  <2>3. LifeOK'
      BY <1>8, <2>1
  <2> QED BY <1>0, <2>2, <2>3 DEF Typed, MachinesOK, ClusterOK, ObjectsOK, NodesOK, ReconcilersOK, BudgetOK
<1>10. ASSUME NEW m \in Machine, DeleteMachine(m) PROVE Typed'
  <2>1. LifeOK'
      BY <1>8, <1>10 DEF DeleteMachine, Lives
  <2>2. BudgetOK'
      BY <1>0, <1>10, BudgetTyped DEF DeleteMachine
  <2>3. risky' \in BOOLEAN
      BY <1>0, <1>10 DEF DeleteMachine, ClusterOK
  <2> QED BY <1>0, <1>10, <2>1, <2>2, <2>3
          DEF Typed, DeleteMachine, MachinesOK, ClusterOK, ObjectsOK, NodesOK, ReconcilersOK
<1>11. CASE Crash
  <2>1. ReconcilersOK'
      BY <1>11, EmptyData DEF Crash, ReconcilersOK
  <2>2. NodesOK'
      BY <1>0, <1>11 DEF Crash, NodesOK
  <2>3. BudgetOK'
      BY <1>0, <1>11, BudgetTyped DEF Crash
  <2> QED BY <1>0, <1>11, <2>1, <2>2, <2>3 DEF Typed, Crash, MachinesOK, ClusterOK, LifeOK, ObjectsOK
<1>12. CASE Expire
  <2>1. ObjectsOK'
      BY <1>0, <1>12 DEF Expire, ObjectsOK
  <2>2. BudgetOK'
      BY <1>0, <1>12, BudgetTyped DEF Expire
  <2> QED BY <1>0, <1>12, <2>1, <2>2 DEF Typed, Expire, MachinesOK, ClusterOK, LifeOK, NodesOK, ReconcilersOK
<1>13. CASE UNCHANGED vars
    BY <1>0, <1>13 DEF Typed, vars, MachinesOK, ClusterOK, LifeOK, ObjectsOK, NodesOK, ReconcilersOK, BudgetOK
<1> QED BY <1>1, <1>2, <1>3, <1>4, <1>5, <1>6, <1>7, <1>9, <1>10, <1>11, <1>12, <1>13
        DEF Next, System, ProviderIDController

LEMMA TypedIsTyped == Typed => TypeOK
<1> SUFFICES ASSUME Typed PROVE TypeOK
    OBVIOUS
<1>0. ClusterOK /\ LifeOK /\ MachinesOK /\ ObjectsOK /\ NodesOK /\ ReconcilersOK /\ BudgetOK
    BY DEF Typed
<1>1. ASSUME NEW d \in DataRecord PROVE IsData(d)
    BY <1>1 DEF IsData, DataRecord
<1>2. \A m \in Machine : secret[m] \in DataRecord /\ data[m] \in DataRecord /\ mem[m].data \in DataRecord
                         /\ mem[m].list \subseteq Controllers
    BY <1>0 DEF ObjectsOK, MachinesOK, ReconcilersOK, MemRecord
<1> QED BY <1>0, <1>1, <1>2
        DEF TypeOK, ClusterOK, LifeOK, Lives, MachinesOK, ObjectsOK, NodesOK, NodeRecord, ReconcilersOK, BudgetOK

(* Every variable keeps its type: a machine is only ever sent to an existing *)
(* controller's address, with a token of a cluster that could be reached     *)
(* (detectJoinHost, genControlPlaneJoinFiles).                               *)
THEOREM BootstrapTypeCorrect == Spec => []TypeOK
<1> QED BY InitTyped, NextTyped, TypedIsTyped, PTL DEF Spec

----------------------------------------------------------------------------
(* Who founds the cluster, and the tokens.                                   *)

(* A machine whose life is over does not come back.                          *)
LEMMA NoneOlderStays ==
    ASSUME LifeOK, NEW n \in Controllers, NoneOlder(n),
           \A m \in Controllers : life[m] \in {"deleting", "gone"} => life'[m] \in {"deleting", "gone"}
    PROVE  NoneOlder(n)'
BY DEF NoneOlder

(* The steps that leave alone what the data passes through.                  *)
LEMMA FounderFrame ==
    ASSUME Inductive, NEW n \in Controllers,
           \A m \in Controllers : life[m] \in {"deleting", "gone"} => life'[m] \in {"deleting", "gone"},
           pc'[n] = pc[n], mem'[n] = mem[n], secret'[n] = secret[n], data'[n] = data[n]
    PROVE  FounderOK(n)'
<1>1. FounderOK(n) /\ LifeOK
    BY DEF Inductive, Typed
<1>2. NoneOlder(n) => NoneOlder(n)'
    BY <1>1, NoneOlderStays
<1>3. IsInitial(n)' = IsInitial(n)
    BY DEF IsInitial
<1> QED BY <1>1, <1>2, <1>3 DEF FounderOK

LEMMA TokensFrame ==
    ASSUME TokensOK, tokens \subseteq tokens', UNCHANGED <<mem, secret, data>>
    PROVE  TokensOK'
BY DEF TokensOK, Usable

LEMMA InitInductive == Init => Inductive
<1> SUFFICES ASSUME Init PROVE Inductive
    OBVIOUS
<1>1. InOrder
    BY MachineNumbers DEF Init, InOrder
<1>2. TokensOK
    BY EmptyData DEF Init, TokensOK, Usable
<1>3. ASSUME NEW n \in Controllers PROVE FounderOK(n)
    BY EmptyData, MachineNumbers DEF Init, FounderOK
<1> QED BY <1>1, <1>2, <1>3, InitTyped DEF Inductive

(* A controller that finds itself the oldest of the list has no older one    *)
(* left, because controllers are created in order.                           *)
LEMMA OldestListed ==
    ASSUME LifeOK, InOrder, NEW n \in Controllers, n \in Existing, Oldest(Active) = n
    PROVE  NoneOlder(n)
<1>1. Active \in SUBSET Machine /\ n # None
    BY MachineNumbers DEF Active, None
<1>2. \A m \in Active : n <= m
    BY <1>1, OldestIsLeast
<1>3. ASSUME NEW m \in Controllers, m < n PROVE life[m] \in {"deleting", "gone"}
  <2>1. m \notin Active
      BY <1>2, <1>3, MachineNumbers, SMTT(30)
  <2>2. life[m] # "none"
      BY <1>3 DEF InOrder, Existing
  <2> QED BY <2>1, <2>2, MachineNumbers DEF Active, LifeOK, Lives
<1> QED BY <1>3 DEF NoneOlder

LEMMA BootstrapControllerInductive ==
    ASSUME Inductive, NEW m \in Machine, BootstrapController(m)
    PROVE  InOrder' /\ TokensOK' /\ \A n \in Controllers : FounderOK(n)'
<1> USE DEF machines, objects
<1>0. Typed /\ LifeOK /\ MachinesOK /\ ObjectsOK /\ ReconcilersOK /\ InOrder /\ TokensOK
      /\ \A n \in Controllers : FounderOK(n)
    BY DEF Inductive, Typed
<1>1. UNCHANGED <<life, data>>
    BY DEF BootstrapController, StartController, StartWorker, GenerateInitial, GenerateJoin, Retry,
           Assemble, PatchStatus
<1>2. InOrder' /\ \A n \in Controllers : NoneOlder(n)' <=> NoneOlder(n)
    BY <1>0, <1>1 DEF InOrder, NoneOlder
<1>3. ASSUME NEW label, Goto(m, label)
      PROVE  pc'[m] = label /\ \A n \in Machine \ {m} : pc'[n] = pc[n]
    BY <1>0, <1>3 DEF Goto, ReconcilersOK
<1>4. ASSUME NEW new, mem' = [mem EXCEPT ![m] = new]
      PROVE  mem'[m] = new /\ \A n \in Machine \ {m} : mem'[n] = mem[n]
    BY <1>0, <1>4 DEF ReconcilersOK
<1>5. ASSUME \A n \in Machine \ {m} : pc'[n] = pc[n] /\ mem'[n] = mem[n] /\ secret'[n] = secret[n],
             tokens \subseteq tokens', Usable(mem[m].data)', Usable(secret[m])',
             m \in Controllers => FounderOK(m)'
      PROVE  TokensOK' /\ \A n \in Controllers : FounderOK(n)'
  <2>1. ASSUME NEW n \in Controllers, n # m PROVE FounderOK(n)'
      BY <1>1, <1>5, <2>1, FounderFrame, MachineNumbers
  <2>2. TokensOK'
      BY <1>0, <1>1, <1>5 DEF TokensOK, Usable
  <2> QED BY <1>5, <2>1, <2>2
<1>6. Usable(mem[m].data) /\ Usable(secret[m]) /\ Usable(NoData)
    BY <1>0, EmptyData DEF TokensOK, Usable
<1>7. CASE StartController(m)
  <2>1. pc'[m] = "generate" /\ \A n \in Machine \ {m} : pc'[n] = pc[n]
      BY <1>3, <1>7 DEF StartController
  <2>2. mem'[m] = Listed /\ \A n \in Machine \ {m} : mem'[n] = mem[n]
      BY <1>4, <1>7 DEF StartController
  <2>3. UNCHANGED <<secret, tokens>> /\ m \in Controllers /\ m \in Existing
      BY <1>7 DEF StartController
  <2>4. mem'[m].data = NoData /\ mem'[m].list = Active
      BY <1>0, <2>2, ListedTyped, SMTT(30) DEF Listed
  <2>5. IsInitial(m)' => NoneOlder(m)
      BY <1>0, <2>3, <2>4, OldestListed DEF IsInitial
  <2>6. FounderOK(m)'
      BY <1>0, <1>1, <1>2, <2>3, <2>4, <2>5, EmptyData DEF FounderOK
  <2>7. Usable(mem[m].data)' /\ Usable(secret[m])'
      BY <1>6, <2>3, <2>4 DEF Usable
  <2> QED BY <1>2, <1>5, <2>1, <2>2, <2>3, <2>6, <2>7
<1>8. CASE StartWorker(m)
  <2>1. pc'[m] = "generate" /\ \A n \in Machine \ {m} : pc'[n] = pc[n]
      BY <1>3, <1>8 DEF StartWorker
  <2>2. UNCHANGED <<mem, secret, tokens>> /\ m \notin Controllers
      BY <1>8, MachineNumbers DEF StartWorker
  <2>3. Usable(mem[m].data)' /\ Usable(secret[m])'
      BY <1>6, <2>2 DEF Usable
  <2> QED BY <1>2, <1>5, <2>1, <2>2, <2>3
<1>9. CASE GenerateInitial(m)
  <2> DEFINE d == Data(genInitialControlPlaneFiles, NoToken, None, <<createCPInstallCmd>>)
  <2>1. d \in DataRecord /\ d.token = NoToken
      BY InitialDataTyped
  <2>2. pc'[m] = "assemble" /\ \A n \in Machine \ {m} : pc'[n] = pc[n]
      BY <1>3, <1>9 DEF GenerateInitial
  <2>3. mem' = [mem EXCEPT ![m].data = d]
      BY <1>9 DEF GenerateInitial
  <2> HIDE DEF d
  <2>4. mem'[m].data = d /\ \A n \in Machine \ {m} : mem'[n] = mem[n]
    <3> DEFINE new == [mem[m] EXCEPT !.data = d]
    <3>1. new.data = d /\ mem' = [mem EXCEPT ![m] = new]
        BY <1>0, <2>1, <2>3, HeldData
    <3> HIDE DEF new
    <3> QED BY <1>4, <3>1
  <2>5. UNCHANGED <<secret, tokens>>
      BY <1>9 DEF GenerateInitial
  <2>6. m \in Controllers /\ NoneOlder(m)'
      BY <1>0, <1>2, <1>9 DEF GenerateInitial, IsInitial, FounderOK
  <2>7. FounderOK(m)'
      BY <2>6 DEF FounderOK
  <2>8. Usable(mem[m].data)' /\ Usable(secret[m])'
      BY <1>6, <2>1, <2>4, <2>5 DEF Usable
  <2> QED BY <1>2, <1>5, <2>2, <2>4, <2>5, <2>7, <2>8
<1>10. CASE GenerateJoin(m)
  <2>1. PICK cluster \in Reachable, host \in detectJoinHost(m) :
            /\ tokens' = tokens \cup {NewToken(m, cluster)}
            /\ mem' = [mem EXCEPT ![m].data = Data({"token"}, NewToken(m, cluster), host, <<JoinCmd(m)>>)]
      BY <1>10 DEF GenerateJoin
  <2> DEFINE token == NewToken(m, cluster)
             d == Data({"token"}, token, host, <<JoinCmd(m)>>)
  <2>2. token \in Token /\ host \in Controllers \cup {None}
      BY <1>0, TokenTyped, JoinHostTyped
  <2>3. d \in DataRecord /\ d.token = token /\ (m \in Controllers => d.commands \in Seq(Joining))
    <3> HIDE DEF token
    <3> QED BY <2>2, JoinDataTyped
  <2>4. mem' = [mem EXCEPT ![m].data = d] /\ tokens' = tokens \cup {token} /\ UNCHANGED secret
      BY <1>10, <2>1 DEF GenerateJoin
  <2>5. pc'[m] = "assemble" /\ \A n \in Machine \ {m} : pc'[n] = pc[n]
      BY <1>3, <1>10 DEF GenerateJoin
  <2> HIDE DEF d, token
  <2>6. mem'[m].data = d /\ \A n \in Machine \ {m} : mem'[n] = mem[n]
    <3> DEFINE new == [mem[m] EXCEPT !.data = d]
    <3>1. new.data = d /\ mem' = [mem EXCEPT ![m] = new]
        BY <1>0, <2>3, <2>4, HeldData
    <3> HIDE DEF new
    <3> QED BY <1>4, <3>1
  <2>7. m \in Controllers => FounderOK(m)'
      BY <1>0, <1>1, <1>2, <2>3, <2>4, <2>5, <2>6 DEF FounderOK
  <2>8. Usable(mem[m].data)' /\ Usable(secret[m])'
      BY <1>6, <2>3, <2>4, <2>6, SMTT(30) DEF Usable
  <2>9. tokens \subseteq tokens'
      BY <2>4
  <2> QED BY <1>2, <1>5, <2>4, <2>5, <2>6, <2>7, <2>8, <2>9
<1>11. CASE Retry(m)
  <2>1. pc'[m] = "idle" /\ \A n \in Machine \ {m} : pc'[n] = pc[n]
      BY <1>3, <1>11 DEF Retry
  <2>2. mem'[m] = NoMem /\ \A n \in Machine \ {m} : mem'[n] = mem[n]
      BY <1>4, <1>11 DEF Retry
  <2>3. UNCHANGED <<secret, tokens>>
      BY <1>11 DEF Retry
  <2>4. m \in Controllers => FounderOK(m)'
      BY <1>0, <1>1, <1>2, <2>1, <2>2, <2>3, EmptyData DEF FounderOK
  <2>5. Usable(mem[m].data)' /\ Usable(secret[m])'
      BY <1>6, <2>2, <2>3, EmptyData DEF Usable
  <2> QED BY <1>2, <1>5, <2>1, <2>2, <2>3, <2>4, <2>5
<1>12. CASE Assemble(m)
  <2>1. pc'[m] # "generate" /\ \A n \in Machine \ {m} : pc'[n] = pc[n]
      BY <1>3, <1>12, SMTT(30) DEF Assemble
  <2>2. mem'[m] = NoMem /\ \A n \in Machine \ {m} : mem'[n] = mem[n]
      BY <1>4, <1>12 DEF Assemble
  <2>3. UNCHANGED tokens /\ pc[m] = "assemble"
      BY <1>12 DEF Assemble
  <2>4. /\ Complete(m).token = mem[m].data.token
        /\ m \in Controllers /\ mem[m].data.commands \in Seq(Joining) => Complete(m).commands \in Seq(Joining)
      BY <1>0, <2>3, CompleteData
  <2>5. secret'[m] \in {secret[m], Complete(m)} /\ \A n \in Machine \ {m} : secret'[n] = secret[n]
      BY <1>0, <1>12 DEF Assemble, createBootstrapSecret, ObjectsOK
  <2>6. m \in Controllers => FounderOK(m)'
      BY <1>0, <1>1, <1>2, <2>1, <2>2, <2>4, <2>5, EmptyData DEF FounderOK
  <2>7. Usable(mem[m].data)' /\ Usable(secret[m])'
      BY <1>6, <2>2, <2>3, <2>4, <2>5, EmptyData DEF Usable
  <2> QED BY <1>2, <1>5, <2>1, <2>2, <2>3, <2>5, <2>6, <2>7
<1>13. CASE PatchStatus(m)
  <2>1. pc'[m] = "idle" /\ \A n \in Machine \ {m} : pc'[n] = pc[n]
      BY <1>3, <1>13 DEF PatchStatus
  <2>2. UNCHANGED <<mem, secret, tokens>>
      BY <1>13 DEF PatchStatus
  <2>3. m \in Controllers => FounderOK(m)'
      BY <1>0, <1>1, <1>2, <2>1, <2>2 DEF FounderOK
  <2>4. Usable(mem[m].data)' /\ Usable(secret[m])'
      BY <1>6, <2>2 DEF Usable
  <2> QED BY <1>2, <1>5, <2>1, <2>2, <2>3, <2>4
<1> QED BY <1>7, <1>8, <1>9, <1>10, <1>11, <1>12, <1>13 DEF BootstrapController

(* A step that at most creates the first of the machines that were not, or   *)
(* takes a life a step further.                                              *)
LEMMA LifeInductive ==
    ASSUME Inductive, LifeOK', UNCHANGED <<pc, mem, secret, data, tokens>>,
           \A m \in Controllers : life'[m] = "none" <=> life[m] = "none",
           \A m \in Controllers : life[m] \in {"deleting", "gone"} => life'[m] \in {"deleting", "gone"}
    PROVE  InOrder' /\ TokensOK' /\ \A n \in Controllers : FounderOK(n)'
<1>1. InOrder'
    BY DEF Inductive, InOrder
<1>2. TokensOK'
    BY TokensFrame DEF Inductive
<1>3. ASSUME NEW n \in Controllers PROVE FounderOK(n)'
    BY FounderFrame
<1> QED BY <1>1, <1>2, <1>3

LEMMA NextInductive == Inductive /\ [Next]_vars => Inductive'
<1> SUFFICES ASSUME Inductive, [Next]_vars
             PROVE  InOrder' /\ TokensOK' /\ \A n \in Controllers : FounderOK(n)'
    BY NextTyped DEF Inductive
<1> USE DEF machines, objects, reconcilers
<1>0. LifeOK /\ MachinesOK /\ ObjectsOK /\ ReconcilersOK /\ InOrder /\ TokensOK
      /\ (\A n \in Controllers : FounderOK(n)) /\ LifeOK'
    BY NextTyped DEF Inductive, Typed
<1>1. ASSUME NEW m \in Machine, BootstrapController(m)
      PROVE  InOrder' /\ TokensOK' /\ \A n \in Controllers : FounderOK(n)'
    BY <1>1, BootstrapControllerInductive
<1>2. ASSUME NEW m \in Machine, Provision(m)
      PROVE  InOrder' /\ TokensOK' /\ \A n \in Controllers : FounderOK(n)'
  <2>1. UNCHANGED <<life, pc, mem, secret, tokens>>
      BY <1>2 DEF Provision
  <2>2. data'[m] \in {data[m], secret[m]} /\ \A n \in Machine \ {m} : data'[n] = data[n]
      BY <1>0, <1>2 DEF Provision, MachinesOK
  <2>3. InOrder' /\ \A n \in Controllers : (NoneOlder(n)' <=> NoneOlder(n)) /\ (IsInitial(n)' <=> IsInitial(n))
      BY <1>0, <2>1 DEF InOrder, NoneOlder, IsInitial
  <2>4. ASSUME NEW n \in Controllers PROVE FounderOK(n)'
    <3>1. n \in Machine
        BY MachineNumbers
    <3> QED BY <1>0, <2>1, <2>2, <2>3, <3>1 DEF FounderOK
  <2>5. TokensOK'
      BY <1>0, <2>1, <2>2 DEF TokensOK, Usable
  <2> QED BY <2>3, <2>4, <2>5
<1>3. ASSUME NEW m \in Machine, Remove(m)
      PROVE  InOrder' /\ TokensOK' /\ \A n \in Controllers : FounderOK(n)'
  <2>1. UNCHANGED <<pc, mem, data, tokens>> /\ life[m] = "deleting"
      BY <1>3 DEF Remove
  <2>2. \A n \in Machine : /\ life'[n] = IF n = m THEN "gone" ELSE life[n]
                           /\ secret'[n] = IF n = m THEN NoData ELSE secret[n]
      BY <1>0, <1>3 DEF Remove, LifeOK, ObjectsOK
  <2>3. InOrder'
      BY <1>0, <2>1, <2>2, MachineNumbers DEF InOrder
  <2>4. ASSUME NEW n \in Controllers PROVE FounderOK(n)'
    <3>1. NoneOlder(n) => NoneOlder(n)'
        BY <1>0, <2>2, NoneOlderStays, MachineNumbers
    <3>2. n \in Machine /\ (IsInitial(n)' <=> IsInitial(n))
        BY <2>1, MachineNumbers DEF IsInitial
    <3> QED BY <1>0, <2>1, <2>2, <3>1, <3>2, EmptyData DEF FounderOK
  <2>5. TokensOK'
      BY <1>0, <2>1, <2>2, EmptyData DEF TokensOK, Usable
  <2> QED BY <2>3, <2>4, <2>5
<1>4. CASE \/ \E m \in Machine : Boot(m)
           \/ \E w \in Workers : ProviderIDController(w)
           \/ ProvideCluster
           \/ Expire
           \/ UNCHANGED vars
  <2>1. UNCHANGED <<life, pc, mem, secret, data, tokens>>
      BY <1>4 DEF Boot, ProviderIDController, FindNode, UpdateNode, ProvideCluster, Expire, vars
  <2> QED BY <1>0, <2>1, LifeInductive
<1>5. CASE ScaleUp
  <2> DEFINE new == {m \in Controllers : life[m] = "none"}
  <2>1. UNCHANGED <<pc, mem, secret, data, tokens>> /\ new # {} /\ life' = [life EXCEPT ![Min(new)] = "active"]
      BY <1>5 DEF ScaleUp
  <2>2. new \in SUBSET Machine
      BY MachineNumbers
  <2>3. Min(new) \in new /\ \A m \in new : Min(new) <= m
      BY <2>1, <2>2, MinIsLeast
  <2> DEFINE first == Min(new)
  <2>4. \A m \in Controllers : life'[m] = IF m = first THEN "active" ELSE life[m]
      BY <1>0, <2>1, MachineNumbers DEF LifeOK
  <2>5. first \in Controllers /\ life[first] = "none" /\ \A m \in Controllers : m < first => life[m] # "none"
    <3>1. first \in Controllers /\ life[first] = "none"
        BY <2>3
    <3>2. ASSUME NEW m \in Controllers, m < first, life[m] = "none" PROVE FALSE
      <4>1. m \in new
          BY <3>2
      <4>2. first <= m
          BY <2>3, <4>1
      <4> HIDE DEF first
      <4> QED BY <3>1, <3>2, <4>2, MachineNumbers, SMTT(30)
    <3> QED BY <3>1, <3>2
  <2> HIDE DEF first, new
  <2>6. InOrder'
      BY <1>0, <2>4, <2>5 DEF InOrder
  <2>7. ASSUME NEW n \in Controllers PROVE FounderOK(n)'
      BY <2>1, <2>4, <2>5, FounderFrame
  <2>8. TokensOK'
      BY <1>0, <2>1, TokensFrame
  <2> QED BY <2>6, <2>7, <2>8
<1>6. ASSUME NEW m \in Machine, life[m] = "active", life' = [life EXCEPT ![m] = "deleting"],
             UNCHANGED <<pc, mem, secret, data, tokens>>
      PROVE  InOrder' /\ TokensOK' /\ \A n \in Controllers : FounderOK(n)'
  <2>1. \A n \in Controllers : life'[n] = IF n = m THEN "deleting" ELSE life[n]
      BY <1>0, <1>6, MachineNumbers DEF LifeOK
  <2> QED BY <1>0, <1>6, <2>1, LifeInductive, SMTT(30)
<1>7. CASE ScaleDown
  <2>1. Active # {}
    <3>1. Active = {} => Cardinality(Active) = 0
        BY FS_EmptySet
    <3> QED BY <1>7, <3>1, SMTT(30) DEF ScaleDown
  <2>2. Min(Active) \in Active
      BY <2>1, MinIsLeast, MachineNumbers DEF Active
  <2>3. Min(Active) \in Machine /\ life[Min(Active)] = "active"
      BY <2>2, MachineNumbers DEF Active
  <2>4. UNCHANGED <<pc, mem, secret, data, tokens>> /\ life' = [life EXCEPT ![Min(Active)] = "deleting"]
      BY <1>7 DEF ScaleDown
  <2> QED BY <1>6, <2>3, <2>4
<1>8. ASSUME NEW w \in Workers, CreateWorker(w)
      PROVE  InOrder' /\ TokensOK' /\ \A n \in Controllers : FounderOK(n)'
  <2>1. \A n \in Controllers : life'[n] = life[n]
      BY <1>0, <1>8, MachineNumbers DEF CreateWorker, LifeOK
  <2>2. UNCHANGED <<pc, mem, secret, data, tokens>>
      BY <1>8 DEF CreateWorker
  <2> QED BY <1>0, <2>1, <2>2, LifeInductive
<1>9. ASSUME NEW m \in Machine, DeleteMachine(m)
      PROVE  InOrder' /\ TokensOK' /\ \A n \in Controllers : FounderOK(n)'
    BY <1>6, <1>9 DEF DeleteMachine
<1>10. CASE Crash
  <2>1. UNCHANGED <<life, secret, data, tokens>>
      BY <1>10 DEF Crash
  <2>2. \A n \in Machine : pc'[n] = "idle" /\ mem'[n] = NoMem
      BY <1>10 DEF Crash
  <2>3. InOrder' /\ \A n \in Controllers : NoneOlder(n)' <=> NoneOlder(n)
      BY <1>0, <2>1 DEF InOrder, NoneOlder
  <2>4. ASSUME NEW n \in Controllers PROVE FounderOK(n)'
      BY <1>0, <2>1, <2>2, <2>3, EmptyData, MachineNumbers DEF FounderOK
  <2>5. TokensOK'
      BY <1>0, <2>1, <2>2, EmptyData DEF TokensOK, Usable
  <2> QED BY <2>3, <2>4, <2>5
<1> QED BY <1>1, <1>2, <1>3, <1>4, <1>5, <1>7, <1>8, <1>9, <1>10 DEF Next, System

(* No machine that is told to found the cluster has an older one that stays: *)
(* of two of them the older is being deleted, however old the lists were     *)
(* that the decisions were taken from, and through crashes and retries       *)
(* (isInitial in the controller's Reconcile, GetFirstRunningMachine).        *)
THEOREM OneFounderHolds == Spec => []OneFounder
<1>1. Inductive => OneFounder
  <2> SUFFICES ASSUME Inductive, NEW m \in Controllers, NEW n \in Controllers, m < n,
                      Runs(data[n], createCPInstallCmd)
               PROVE  life[m] # "active"
      BY DEF OneFounder
  <2>1. data[n].commands \notin Seq(Joining)
    <3>1. PICK i \in DOMAIN data[n].commands : data[n].commands[i] = "installController"
        BY DEF Runs, createCPInstallCmd
    <3>2. data[n].commands \in Seq(Joining) => data[n].commands[i] \in Joining
        BY SMTT(30)
    <3> QED BY <3>1, <3>2 DEF Joining
  <2>2. NoneOlder(n)
      BY <2>1 DEF Inductive, FounderOK
  <2> QED BY <2>2 DEF NoneOlder
<1> QED BY <1>1, InitInductive, NextInductive, PTL DEF Spec

----------------------------------------------------------------------------
(* The tokens of one machine.                                                *)

TokensFor(m) == {t \in tokens : t.for = m}
Spent == MaxDisturbances - budget

(* A machine is given another token only after a disturbance: while its      *)
(* reconciler has one in hand, or its status says so, that one is accounted  *)
(* for.                                                                      *)
CountOK(m) ==
    /\ life[m] = "none" => pc[m] = "idle"
    /\ Cardinality(TokensFor(m)) <= Spent + 1
    /\ \/ pc[m] = "generate"
       \/ pc[m] = "idle" /\ ~created[m] /\ life[m] # "gone"
       => Cardinality(TokensFor(m)) <= Spent
CountsOK == \A m \in Machine : CountOK(m)

(* What is at most the number of disturbances stays so as they go on.        *)
LEMMA StaysBelow ==
    ASSUME NEW n \in Nat, NEW s \in Nat, NEW t \in Nat, s <= t
    PROVE  /\ n <= s => n <= t /\ n <= t + 1
           /\ n <= s + 1 => n <= t + 1
  BY SMTT(30)

LEMMA OneMore ==
    ASSUME NEW n \in Nat, NEW k \in Nat, NEW s \in Nat, NEW t \in Nat, s <= t, n <= s, k <= n + 1
    PROVE  k <= t + 1
  BY SMTT(30)

LEMMA SpentGrows ==
    ASSUME BudgetOK, BudgetOK', budget' <= budget
    PROVE  /\ Spent \in Nat /\ Spent' \in Nat /\ Spent <= Spent'
           /\ budget' = budget - 1 => Spent' = Spent + 1
<1>1. ASSUME NEW M \in Nat, NEW b \in 0..M, NEW c \in 0..M, c <= b
      PROVE  /\ M - b \in Nat /\ M - c \in Nat /\ M - b <= M - c
             /\ c = b - 1 => M - c = (M - b) + 1
    BY <1>1, SMTT(30)
<1> QED BY <1>1, DisturbanceAssumption DEF Spent, BudgetOK

(* A machine whose tokens, reconciler and status stay keeps its count.       *)
LEMMA CountFrame ==
    ASSUME Typed, BudgetOK', NEW m \in Machine, CountOK(m), budget' <= budget,
           TokensFor(m)' = TokensFor(m), pc'[m] = pc[m], created'[m] = created[m],
           life[m] = "gone" => life'[m] = "gone", life'[m] = "none" => life[m] = "none"
    PROVE  CountOK(m)'
<1>1. Cardinality(TokensFor(m))' = Cardinality(TokensFor(m))
    OBVIOUS
<1>2. Cardinality(TokensFor(m)) \in Nat
  <2>1. IsFiniteSet(tokens)
      BY DEF Typed, ObjectsOK
  <2>2. IsFiniteSet(TokensFor(m))
      BY <2>1, FS_Subset DEF TokensFor
  <2> QED BY <2>2, FS_CardinalityType
<1>3. Spent \in Nat /\ Spent' \in Nat /\ Spent <= Spent'
    BY SpentGrows DEF Typed
<1>4. created'[m] <=> created[m]
    OBVIOUS
<1> DEFINE n == Cardinality(TokensFor(m))
<1> HIDE DEF n
<1>5. n' = n /\ n \in Nat
    BY <1>1, <1>2 DEF n
<1>6. /\ n <= Spent + 1
      /\ \/ pc[m] = "generate"
         \/ pc[m] = "idle" /\ ~created[m] /\ life[m] # "gone"
         => n <= Spent
    BY DEF CountOK, n
<1>7. n' <= Spent' + 1
    BY <1>3, <1>5, <1>6, StaysBelow
<1>8. \/ pc'[m] = "generate"
      \/ pc'[m] = "idle" /\ ~created'[m] /\ life'[m] # "gone"
      => n' <= Spent'
    BY <1>3, <1>4, <1>5, <1>6, StaysBelow
<1> QED BY <1>7, <1>8 DEF CountOK, n

(* The steps of a machine's own reconciler.                                  *)
LEMMA CountStart ==
    ASSUME Typed, NEW m \in Machine, CountOK(m), TokensFor(m)' = TokensFor(m), m \in Existing,
           pc[m] = "idle", IF AlreadyCreated(m) THEN Disturb("staleRead") ELSE UNCHANGED budget
    PROVE  Cardinality(TokensFor(m)') <= Spent'
<1>0. BudgetOK /\ BudgetOK' /\ budget' <= budget
  <2>1. BudgetOK /\ BudgetOK'
      BY BudgetTyped DEF Typed
  <2> QED BY <2>1, SMTT(30) DEF BudgetOK, Disturb
<1>1. Cardinality(TokensFor(m)) \in Nat
  <2>1. IsFiniteSet(TokensFor(m))
      BY FS_Subset DEF TokensFor, Typed, ObjectsOK
  <2> QED BY <2>1, FS_CardinalityType
<1>2. Spent \in Nat /\ Spent' \in Nat /\ Spent <= Spent'
      /\ (created[m] => Spent' = Spent + 1)
    BY <1>0, SpentGrows DEF AlreadyCreated, Disturb
<1>3. Cardinality(TokensFor(m)) <= Spent + 1 /\ (~created[m] => Cardinality(TokensFor(m)) <= Spent)
    BY DEF CountOK, Existing
<1>4. CASE created[m]
    BY <1>2, <1>3, <1>4
<1>5. CASE ~created[m]
    BY <1>1, <1>2, <1>3, <1>5, StaysBelow
<1> QED BY <1>4, <1>5

LEMMA CountReconciler ==
    ASSUME Typed, Typed', NEW m \in Machine, BootstrapController(m), CountsOK
    PROVE  CountsOK'
<1> USE DEF machines, objects
<1>0. BudgetOK /\ BudgetOK' /\ ReconcilersOK /\ ObjectsOK /\ life' = life
    BY DEF Typed, BootstrapController, StartController, StartWorker, GenerateInitial, GenerateJoin, Retry,
           Assemble, PatchStatus
<1>1. budget' <= budget
  <2>1. budget' = budget \/ budget' = budget - 1
      BY DEF BootstrapController, StartController, StartWorker, GenerateInitial, GenerateJoin, Retry,
             Assemble, PatchStatus, Disturb
  <2> QED BY <1>0, <2>1, SMTT(30) DEF BudgetOK
<1>2. ASSUME NEW k \in Machine, k # m PROVE CountOK(k)'
  <2>1. pc'[k] = pc[k]
      BY <1>0, <1>2 DEF BootstrapController, StartController, StartWorker, GenerateInitial, GenerateJoin,
           Retry, Assemble, PatchStatus, Goto, ReconcilersOK
  <2>2. created'[k] = created[k]
      BY <1>0, <1>2 DEF BootstrapController, StartController, StartWorker, GenerateInitial, GenerateJoin,
           Retry, Assemble, PatchStatus, ObjectsOK
  <2>3. TokensFor(k)' = TokensFor(k)
    <3>1. CASE GenerateJoin(m)
      <4>1. PICK cluster : tokens' = tokens \cup {NewToken(m, cluster)}
          BY <3>1 DEF GenerateJoin
      <4>2. NewToken(m, cluster).for = m
          BY DEF NewToken
      <4> QED BY <1>2, <4>1, <4>2 DEF TokensFor
    <3>2. CASE ~GenerateJoin(m)
      <4>1. tokens' = tokens
          BY <3>2 DEF BootstrapController, StartController, StartWorker, GenerateInitial,
             Retry, Assemble, PatchStatus
      <4> QED BY <4>1 DEF TokensFor
    <3> QED BY <3>1, <3>2
  <2> QED BY <1>0, <1>1, <1>2, <2>1, <2>2, <2>3, CountFrame DEF CountsOK
<1>3. CountOK(m)'
  <2>0. life[m] # "none"
      BY <1>0 DEF CountsOK, CountOK, BootstrapController, StartController, StartWorker, GenerateInitial,
         GenerateJoin, Retry, Assemble, PatchStatus, Existing
  <2> DEFINE n == Cardinality(TokensFor(m))
  <2>1. n \in Nat
    <3>1. IsFiniteSet(TokensFor(m))
        BY <1>0, FS_Subset DEF TokensFor, ObjectsOK
    <3> QED BY <3>1, FS_CardinalityType
  <2>2. Spent \in Nat /\ Spent' \in Nat /\ Spent <= Spent'
      BY <1>0, <1>1, SpentGrows
  <2>3. /\ n <= Spent + 1
        /\ pc[m] = "generate" => n <= Spent
      BY DEF CountsOK, CountOK
  <2>4. ASSUME UNCHANGED tokens PROVE n' = n /\ TokensFor(m)' = TokensFor(m)
      BY <2>4 DEF TokensFor
  <2>5. CASE StartController(m) \/ StartWorker(m)
    <3>1. n' <= Spent'
      <4>1. /\ m \in Existing /\ pc[m] = "idle" /\ UNCHANGED tokens
            /\ IF AlreadyCreated(m) THEN Disturb("staleRead") ELSE UNCHANGED budget
          BY <2>5 DEF StartController, StartWorker
      <4>2. CountOK(m)
          BY DEF CountsOK
      <4> QED BY <2>4, <4>1, <4>2, CountStart
    <3>2. n' \in Nat
        BY <2>1, <2>4, <2>5 DEF StartController, StartWorker
    <3> HIDE DEF n
    <3>3. n' <= Spent' + 1
      <4>1. Spent' <= Spent'
          BY <2>2, SMTT(30)
      <4> QED BY <2>2, <3>1, <3>2, <4>1, StaysBelow
    <3> QED BY <1>0, <2>0, <3>1, <3>3 DEF CountOK, n
  <2>6. CASE GenerateInitial(m)
    <3>1. n' = n /\ pc[m] = "generate" /\ pc'[m] = "assemble"
        BY <1>0, <2>4, <2>6 DEF GenerateInitial, Goto, ReconcilersOK
    <3> HIDE DEF n
    <3>2. n' <= Spent' + 1
        BY <2>1, <2>2, <2>3, <3>1, StaysBelow
    <3> QED BY <1>0, <2>0, <3>1, <3>2 DEF CountOK, n
  <2>7. CASE GenerateJoin(m)
    <3>1. pc[m] = "generate" /\ pc'[m] = "assemble"
        BY <1>0, <2>7 DEF GenerateJoin, Goto, ReconcilersOK
    <3>2. n' <= n + 1
      <4>1. PICK cluster : tokens' = tokens \cup {NewToken(m, cluster)}
          BY <2>7 DEF GenerateJoin
      <4>2. TokensFor(m)' = TokensFor(m) \cup {NewToken(m, cluster)}
          BY <4>1, SMTT(30) DEF TokensFor, NewToken
      <4>3. IsFiniteSet(TokensFor(m))
          BY <1>0, FS_Subset DEF TokensFor, ObjectsOK
      <4>4. Cardinality(TokensFor(m) \cup {NewToken(m, cluster)}) \in {n, n + 1}
          BY <4>3, FS_AddElement
      <4> QED BY <2>1, <4>2, <4>4, SMTT(30)
    <3>3. n' \in Nat
      <4>1. IsFiniteSet(TokensFor(m)')
          BY FS_Subset DEF TokensFor, Typed, ObjectsOK
      <4> QED BY <4>1, FS_CardinalityType
    <3> HIDE DEF n
    <3>4. n' <= Spent' + 1
        BY <2>1, <2>2, <2>3, <3>1, <3>2, <3>3, OneMore
    <3> QED BY <1>0, <2>0, <3>1, <3>4 DEF CountOK, n
  <2>8. CASE Retry(m)
    <3>1. n' = n /\ pc[m] = "generate"
        BY <2>4, <2>8 DEF Retry
    <3> HIDE DEF n
    <3>2. n' <= Spent' /\ n' <= Spent' + 1
        BY <2>1, <2>2, <2>3, <3>1, StaysBelow
    <3> QED BY <1>0, <2>0, <3>2 DEF CountOK, n
  <2>9. CASE Assemble(m)
    <3>1. n' = n /\ pc'[m] \in {"patch", "idle"}
        BY <1>0, <2>4, <2>9 DEF Assemble, Goto, ReconcilersOK
    <3>2. pc'[m] = "idle" => Spent' = Spent + 1
      <4>1. pc'[m] = "idle" => budget' = budget - 1
          BY <1>0, <2>9 DEF Assemble, Goto, ReconcilersOK, Disturb
      <4> QED BY <1>0, <1>1, <4>1, SpentGrows
    <3> HIDE DEF n
    <3>3. n' <= Spent' + 1 /\ (pc'[m] = "idle" => n' <= Spent')
        BY <2>1, <2>2, <2>3, <3>1, <3>2, StaysBelow
    <3> QED BY <1>0, <2>0, <3>1, <3>3 DEF CountOK, n
  <2>10. CASE PatchStatus(m)
    <3>1. n' = n /\ pc'[m] = "idle"
        BY <1>0, <2>4, <2>10 DEF PatchStatus, Goto, ReconcilersOK
    <3>2. CASE created' = [created EXCEPT ![m] = m \in Existing]
      <4>1. created'[m] \/ life'[m] = "gone"
        BY <1>0, <2>0, <3>2 DEF ObjectsOK, Existing, Typed, LifeOK, Lives
      <4> HIDE DEF n
      <4>2. n' <= Spent' + 1
          BY <2>1, <2>2, <2>3, <3>1, StaysBelow
      <4> QED BY <1>0, <2>0, <3>1, <4>1, <4>2 DEF CountOK, n
    <3>3. CASE Disturb("patchFails")
      <4>1. Spent' = Spent + 1
          BY <1>0, <1>1, <3>3, SpentGrows DEF Disturb
      <4> HIDE DEF n
      <4>2. n' <= Spent' + 1 /\ n' <= Spent'
          BY <2>1, <2>2, <2>3, <3>1, <4>1, StaysBelow
      <4> QED BY <1>0, <2>0, <3>1, <4>2 DEF CountOK, n
    <3> QED BY <2>10, <3>2, <3>3 DEF PatchStatus
  <2> QED BY <2>5, <2>6, <2>7, <2>8, <2>9, <2>10 DEF BootstrapController
<1> QED BY <1>2, <1>3 DEF CountsOK

LEMMA CountNext == Typed /\ CountsOK /\ [Next]_vars => CountsOK'
<1> SUFFICES ASSUME Typed, CountsOK, [Next]_vars PROVE CountsOK'
    OBVIOUS
<1> USE DEF machines, objects, reconcilers
<1>0. Typed' /\ BudgetOK /\ BudgetOK' /\ LifeOK /\ ObjectsOK /\ ReconcilersOK
    BY NextTyped DEF Typed
<1>1. ASSUME UNCHANGED <<tokens, pc, created>>, budget' <= budget,
             \A m \in Machine : life[m] = "gone" => life'[m] = "gone",
             \A m \in Machine : life'[m] = "none" => life[m] = "none"
      PROVE  CountsOK'
  <2>1. ASSUME NEW m \in Machine PROVE TokensFor(m)' = TokensFor(m)
      BY <1>1 DEF TokensFor
  <2> QED BY <1>0, <1>1, <2>1, CountFrame DEF CountsOK
<1>2. ASSUME UNCHANGED <<tokens, pc, created, life>>, budget' <= budget PROVE CountsOK'
    BY <1>1, <1>2
<1>3. ASSUME UNCHANGED budget PROVE budget' <= budget
    BY <1>0, <1>3, SMTT(30) DEF BudgetOK
<1>4. ASSUME NEW kind, Disturb(kind) PROVE budget' <= budget
    BY <1>0, <1>4, SMTT(30) DEF BudgetOK, Disturb
<1>5. ASSUME NEW m \in Machine, Provision(m) \/ Boot(m) PROVE CountsOK'
    BY <1>2, <1>3, <1>5 DEF Provision, Boot
<1>6. ASSUME NEW w \in Workers, ProviderIDController(w) PROVE CountsOK'
    BY <1>2, <1>3, <1>6 DEF ProviderIDController, FindNode, UpdateNode
<1>7. CASE ProvideCluster \/ UNCHANGED vars
    BY <1>2, <1>3, <1>7 DEF ProvideCluster, vars
<1>8. ASSUME NEW m \in Machine, Remove(m) PROVE CountsOK'
  <2>1. UNCHANGED <<tokens, pc, budget>> /\ life[m] = "deleting"
      BY <1>8 DEF Remove
  <2>2. /\ life'[m] = "gone"
        /\ \A k \in Machine \ {m} : created'[k] = created[k] /\ life'[k] = life[k]
      BY <1>0, <1>8 DEF Remove, LifeOK, ObjectsOK
  <2>3. \A k \in Machine : TokensFor(k)' = TokensFor(k)
      BY <2>1 DEF TokensFor
  <2>4. Spent' = Spent
      BY <2>1 DEF Spent
  <2>5. ASSUME NEW k \in Machine, k # m PROVE CountOK(k)'
      BY <1>0, <1>3, <2>1, <2>2, <2>3, <2>5, CountFrame DEF CountsOK
  <2>6. CountOK(m)'
    <3>1. CountOK(m)
        BY DEF CountsOK
    <3> QED BY <2>1, <2>2, <2>3, <2>4, <3>1 DEF CountOK
  <2> QED BY <2>5, <2>6 DEF CountsOK
<1>9. ASSUME NEW x \in Machine, NEW l \in {"active", "deleting"}, life' = [life EXCEPT ![x] = l],
             life[x] \in {"none", "active"}, UNCHANGED <<tokens, pc, created>>, budget' <= budget
      PROVE  CountsOK'
  <2>1. \A m \in Machine : life'[m] = IF m = x THEN l ELSE life[m]
      BY <1>0, <1>9 DEF LifeOK
  <2> QED BY <1>1, <1>9, <2>1
<1>10. CASE ScaleUp
  <2> DEFINE new == {m \in Controllers : life[m] = "none"}
  <2>1. new # {} /\ life' = [life EXCEPT ![Min(new)] = "active"] /\ UNCHANGED <<tokens, pc, created, budget>>
      BY <1>10 DEF ScaleUp
  <2>2. Min(new) \in new /\ new \subseteq Machine
      BY <2>1, MinIsLeast, MachineNumbers
  <2>3. Min(new) \in Machine /\ life[Min(new)] = "none"
      BY <2>2
  <2> HIDE DEF new
  <2> QED BY <1>3, <1>9, <2>1, <2>3
<1>11. CASE ScaleDown
  <2>1. Active # {}
    <3>1. Active = {} => Cardinality(Active) = 0
        BY FS_EmptySet
    <3> QED BY <1>11, <3>1, SMTT(30) DEF ScaleDown
  <2>2. Min(Active) \in Machine /\ life[Min(Active)] = "active"
      BY <2>1, MinIsLeast, MachineNumbers DEF Active
  <2>3. life' = [life EXCEPT ![Min(Active)] = "deleting"] /\ UNCHANGED <<tokens, pc, created, budget>>
      BY <1>11 DEF ScaleDown
  <2> QED BY <1>3, <1>9, <2>2, <2>3
<1>12. ASSUME NEW w \in Workers, CreateWorker(w) PROVE CountsOK'
    BY <1>3, <1>9, <1>12, MachineNumbers DEF CreateWorker
<1>13. ASSUME NEW m \in Machine, DeleteMachine(m) PROVE CountsOK'
    BY <1>4, <1>9, <1>13 DEF DeleteMachine
<1>14. CASE Crash
  <2>1. UNCHANGED <<tokens, created, life>> /\ \A m \in Machine : pc'[m] = "idle"
      BY <1>14 DEF Crash
  <2>2. Spent' = Spent + 1 /\ Spent \in Nat
      BY <1>0, <1>4, <1>14, SpentGrows DEF Crash, Disturb
  <2>3. ASSUME NEW m \in Machine PROVE CountOK(m)'
    <3> DEFINE n == Cardinality(TokensFor(m))
    <3>1. n' = n
        BY <2>1 DEF TokensFor
    <3>2. n \in Nat
      <4>1. IsFiniteSet(TokensFor(m))
          BY <1>0, FS_Subset DEF TokensFor, ObjectsOK
      <4> QED BY <4>1, FS_CardinalityType
    <3>3. n <= Spent + 1
        BY DEF CountsOK, CountOK
    <3> HIDE DEF n
    <3>4. n' <= Spent' /\ n' <= Spent' + 1
        BY <2>2, <3>1, <3>2, <3>3, SMTT(30)
    <3> QED BY <2>1, <3>4 DEF CountOK, n
  <2> QED BY <2>3 DEF CountsOK
<1>15. CASE Expire
    BY <1>2, <1>4, <1>15 DEF Expire
<1> QED BY <1>0, <1>5, <1>6, <1>7, <1>8, <1>10, <1>11, <1>12, <1>13, <1>14, <1>15, CountReconciler DEF Next, System

(* A machine has at most one join token more than there were disturbances,   *)
(* through any number of reconciles that found something missing: the token  *)
(* is created last, and a config whose status says so is left alone          *)
(* (genControlPlaneJoinFiles, getK0sToken, the deferred status patch).       *)
THEOREM TokensBoundedHolds == Spec => []TokensBounded
<1>1. Init => CountsOK
  <2> SUFFICES ASSUME Init, NEW m \in Machine PROVE CountOK(m)
      BY DEF CountsOK
  <2>1. Cardinality(TokensFor(m)) = 0
      BY FS_EmptySet DEF Init, TokensFor
  <2>2. Spent = 0
      BY DisturbanceAssumption, SMTT(30) DEF Init, Spent
  <2> QED BY <2>1, <2>2, SMTT(30) DEF CountOK, Init
<1>2. Typed /\ CountsOK => TokensBounded
  <2> SUFFICES ASSUME Typed, NEW m \in Machine, CountOK(m)
               PROVE  Cardinality({t \in tokens : t.for = m}) <= 1 + MaxDisturbances - budget
      BY DEF CountsOK, TokensBounded
  <2>1. Cardinality(TokensFor(m)) <= (MaxDisturbances - budget) + 1
      BY DEF CountOK, Spent
  <2>2. budget \in Int /\ MaxDisturbances \in Int
      BY DisturbanceAssumption, SMTT(30) DEF Typed, BudgetOK
  <2>3. (MaxDisturbances - budget) + 1 = 1 + MaxDisturbances - budget
      BY <2>2, SMTT(30)
  <2> QED BY <2>1, <2>3 DEF TokensFor
<1> QED BY <1>1, <1>2, CountNext, InitTyped, NextTyped, PTL DEF Spec

----------------------------------------------------------------------------
(* The provider IDs of Nodes.                                                *)

(* A host has one machine at a time, a machine that was never created has no *)
(* Node, and the Node of another machine is picked only when that one is     *)
(* gone.                                                                     *)
OneMachinePerHost == \A v, w \in Workers \cap Existing : ip[v] = ip[w] => v = w
NodeOK(w) ==
    /\ life[w] = "none" => node[w] = NoNode
    /\ pick[w] \notin {None, w} => life[pick[w]] = "gone"
    /\ life[w] # "gone" => node[w].providerID \in {None, w}
ProviderInv == OneMachinePerHost /\ \A w \in Workers : NodeOK(w)

(* A step that leaves the Nodes and the hosts alone, and creates no worker.  *)
LEMMA ProviderFrame ==
    ASSUME Typed, Typed', ProviderInv, UNCHANGED <<ip, node>>,
           \A w \in Workers : pick'[w] \in {pick[w], None},
           \A w \in Workers : life'[w] \in {"active", "deleting"} => life[w] \in {"active", "deleting"},
           \A w \in Workers : life[w] = "gone" => life'[w] = "gone",
           \A w \in Workers : life'[w] = "none" => life[w] = "none"
    PROVE  ProviderInv'
<1>1. OneMachinePerHost'
    BY MachineNumbers DEF ProviderInv, OneMachinePerHost, Existing
<1>2. ASSUME NEW w \in Workers PROVE NodeOK(w)'
  <2>1. pick[w] \in Workers \cup {None} /\ NodeOK(w)
      BY DEF Typed, NodesOK, ProviderInv
  <2>2. pick'[w] \notin {None, w} => life'[pick'[w]] = "gone"
      BY <2>1 DEF NodeOK
  <2> QED BY <2>1, <2>2 DEF NodeOK
<1> QED BY <1>1, <1>2 DEF ProviderInv

LEMMA ProviderNext == Typed /\ ProviderInv /\ [Next]_vars => ProviderInv'
<1> SUFFICES ASSUME Typed, ProviderInv, [Next]_vars PROVE ProviderInv'
    OBVIOUS
<1> USE DEF machines, objects, reconcilers
<1>0. Typed' /\ LifeOK /\ NodesOK /\ MachinesOK
    BY NextTyped DEF Typed
<1>m. \A w \in Workers : w \in Machine /\ w # None /\ w \notin Controllers
    BY MachineNumbers DEF None
<1>1. ASSUME UNCHANGED <<life, ip, node, pick>> PROVE ProviderInv'
    BY <1>0, <1>1, ProviderFrame
<1>2. ASSUME NEW m \in Machine, BootstrapController(m) PROVE ProviderInv'
  <2>1. UNCHANGED <<life, ip, node, pick>>
      BY <1>2 DEF BootstrapController, StartController, StartWorker, GenerateInitial, GenerateJoin,
         Retry, Assemble, PatchStatus
  <2> QED BY <1>1, <2>1
<1>3. CASE ProvideCluster \/ Expire \/ UNCHANGED vars \/ \E m \in Machine : Provision(m)
    BY <1>1, <1>3 DEF ProvideCluster, Expire, vars, Provision
<1>4. ASSUME NEW m \in Machine, Boot(m) PROVE ProviderInv'
  <2>1. UNCHANGED <<life, ip, pick>> /\ m \in Existing
      BY <1>4 DEF Boot
  <2>2. \A w \in Workers : node'[w].providerID = node[w].providerID /\ (w # m => node'[w] = node[w])
    <3>1. node' = node \/ node' = [node EXCEPT ![m].exists = TRUE]
        BY <1>4 DEF Boot
    <3> QED BY <1>0, <3>1, SMTT(30) DEF NodesOK, NodeRecord
  <2>3. OneMachinePerHost'
      BY <2>1 DEF ProviderInv, OneMachinePerHost, Existing
  <2>4. ASSUME NEW w \in Workers PROVE NodeOK(w)'
      BY <2>1, <2>2 DEF ProviderInv, NodeOK, Existing
  <2> QED BY <2>3, <2>4 DEF ProviderInv
<1>5. ASSUME NEW m \in Machine, Remove(m) PROVE ProviderInv'
  <2>1. UNCHANGED <<ip, pick>>
        /\ \A w \in Workers : /\ life'[w] = IF w = m THEN "gone" ELSE life[w]
                              /\ node'[w] = IF node[w].providerID = m THEN NoNode ELSE node[w]
      BY <1>0, <1>5, <1>m DEF Remove, LifeOK
  <2>2. OneMachinePerHost'
      BY <1>m, <2>1 DEF ProviderInv, OneMachinePerHost, Existing
  <2>3. ASSUME NEW w \in Workers PROVE NodeOK(w)'
    <3>1. pick[w] \in Workers \cup {None} /\ NodeOK(w)
        BY <1>0 DEF NodesOK, ProviderInv
    <3>2. NoNode.providerID = None
        BY DEF NoNode
    <3>3. pick'[w] \notin {None, w} => life'[pick'[w]] = "gone"
        BY <2>1, <3>1 DEF NodeOK
    <3> QED BY <2>1, <3>1, <3>2, <3>3 DEF NodeOK
  <2> QED BY <2>2, <2>3 DEF ProviderInv
<1>6. ASSUME NEW w \in Workers, FindNode(w) PROVE ProviderInv'
  <2> DEFINE n == nodeForMachine(w)
  <2>1. UNCHANGED <<life, ip, node>> /\ n # None /\ node[n].providerID = None /\ w \in Existing
        /\ pick' = [pick EXCEPT ![w] = n]
      BY <1>6 DEF FindNode
  <2>2. n \in Workers /\ Matches(n, w)
    <3> DEFINE S == {k \in Workers : Matches(k, w)}
    <3>1. Oldest(S) \in S \cup {None}
        BY OldestIsLeast, MachineNumbers
    <3> QED BY <2>1, <3>1 DEF nodeForMachine
  <2> HIDE DEF n
  <2>3. n # w => life[n] = "gone"
    <3>1. node[n].exists /\ (n # w => ip[n] = ip[w])
        BY <1>m, <2>1, <2>2 DEF Matches
    <3>2. n # w => n \notin Existing
        BY <2>1, <2>2, <3>1 DEF ProviderInv, OneMachinePerHost
    <3>3. life[n] # "none"
        BY <2>2, <3>1, SMTT(30) DEF ProviderInv, NodeOK, NoNode
    <3> QED BY <1>0, <1>m, <2>2, <3>2, <3>3 DEF Existing, LifeOK, Lives
  <2>4. OneMachinePerHost'
      BY <2>1 DEF ProviderInv, OneMachinePerHost, Existing
  <2>5. ASSUME NEW v \in Workers PROVE NodeOK(v)'
    <3>1. pick'[v] = IF v = w THEN n ELSE pick[v]
        BY <1>0, <2>1 DEF NodesOK
    <3> QED BY <2>1, <2>3, <3>1 DEF ProviderInv, NodeOK
  <2> QED BY <2>4, <2>5 DEF ProviderInv
<1>7. ASSUME NEW w \in Workers, UpdateNode(w) PROVE ProviderInv'
  <2> DEFINE n == pick[w]
  <2>1. UNCHANGED <<life, ip>> /\ n \in Workers
      BY <1>0, <1>7 DEF UpdateNode, NodesOK
  <2>2. \A v \in Workers : pick'[v] \in {pick[v], None}
      BY <1>0, <1>7 DEF UpdateNode, NodesOK
  <2>3. \A v \in Workers : \/ node'[v] = node[v]
                           \/ v = n /\ node[v].exists /\ node'[v].providerID = w
      BY <1>0, <1>7, SMTT(30) DEF UpdateNode, NodesOK, NodeRecord
  <2>4. n # w => life[n] = "gone"
      BY <1>m, <2>1 DEF ProviderInv, NodeOK
  <2> HIDE DEF n
  <2>5. OneMachinePerHost'
      BY <2>1 DEF ProviderInv, OneMachinePerHost, Existing
  <2>6. ASSUME NEW v \in Workers PROVE NodeOK(v)'
    <3>1. NodeOK(v) /\ ~NoNode.exists
        BY DEF ProviderInv, NoNode
    <3> QED BY <2>1, <2>2, <2>3, <2>4, <3>1 DEF NodeOK
  <2> QED BY <2>5, <2>6 DEF ProviderInv
<1>8. ASSUME NEW w \in Workers, CreateWorker(w) PROVE ProviderInv'
  <2>1. UNCHANGED <<ip, node, pick>> /\ life[w] = "none" /\ \A v \in Workers \cap Existing : ip[v] # ip[w]
      BY <1>8 DEF CreateWorker
  <2>2. \A v \in Workers : life'[v] = IF v = w THEN "active" ELSE life[v]
      BY <1>0, <1>8, <1>m DEF CreateWorker, LifeOK
  <2>3. OneMachinePerHost'
      BY <1>m, <2>1, <2>2 DEF ProviderInv, OneMachinePerHost, Existing
  <2>4. ASSUME NEW v \in Workers PROVE NodeOK(v)'
    <3>1. pick[v] \in Workers \cup {None} /\ NodeOK(v) /\ NoNode.providerID = None
        BY <1>0 DEF NodesOK, ProviderInv, NoNode
    <3>2. pick'[v] \notin {None, v} => life'[pick'[v]] = "gone"
        BY <2>1, <2>2, <3>1 DEF NodeOK
    <3> QED BY <2>1, <2>2, <3>1, <3>2 DEF NodeOK
  <2> QED BY <2>3, <2>4 DEF ProviderInv
<1>9. CASE ScaleUp \/ ScaleDown
  <2>1. \E m \in Controllers : \E l : life' = [life EXCEPT ![m] = l]
    <3>1. CASE ScaleUp
      <4> DEFINE new == {m \in Controllers : life[m] = "none"}
      <4>1. new # {} /\ life' = [life EXCEPT ![Min(new)] = "active"]
          BY <3>1 DEF ScaleUp
      <4>2. Min(new) \in new
          BY <4>1, MinIsLeast, MachineNumbers
      <4>3. Min(new) \in Controllers
          BY <4>2
      <4> QED BY <4>1, <4>3
    <3>2. CASE ScaleDown
      <4>1. Active # {}
        <5>1. Active = {} => Cardinality(Active) = 0
            BY FS_EmptySet
        <5> QED BY <3>2, <5>1, SMTT(30) DEF ScaleDown
      <4>2. Min(Active) \in Controllers
          BY <4>1, MinIsLeast, MachineNumbers DEF Active
      <4> QED BY <3>2, <4>2 DEF ScaleDown
    <3> QED BY <1>9, <3>1, <3>2
  <2>2. UNCHANGED <<ip, node, pick>> /\ \A w \in Workers : life'[w] = life[w]
      BY <1>0, <1>9, <1>m, <2>1 DEF ScaleUp, ScaleDown, LifeOK
  <2> QED BY <1>0, <2>2, ProviderFrame
<1>10. ASSUME NEW m \in Machine, DeleteMachine(m) PROVE ProviderInv'
  <2>1. UNCHANGED <<ip, node, pick>> /\ life[m] = "active"
        /\ \A w \in Workers : life'[w] = IF w = m THEN "deleting" ELSE life[w]
      BY <1>0, <1>10, <1>m DEF DeleteMachine, LifeOK
  <2> QED BY <1>0, <2>1, ProviderFrame
<1>11. CASE Crash
  <2>1. UNCHANGED <<life, ip, node>> /\ \A w \in Workers : pick'[w] = None
      BY <1>11 DEF Crash
  <2> QED BY <1>0, <2>1, ProviderFrame
<1> QED BY <1>2, <1>3, <1>4, <1>5, <1>6, <1>7, <1>8, <1>9, <1>10, <1>11 DEF Next, System, ProviderIDController

(* No Node of a machine that exists is given the ID of another machine, also *)
(* when hosts are used again, the Node of an earlier machine was left behind *)
(* and the machine is gone by the time the Node is updated                   *)
(* (nodeForMachine in the provider ID controller).                           *)
THEOREM OwnProviderIDHolds == Spec => []OwnProviderID
<1>1. Init => ProviderInv
  <2> SUFFICES ASSUME Init PROVE ProviderInv
      OBVIOUS
  <2>1. OneMachinePerHost
      BY DEF Init, OneMachinePerHost, Existing
  <2>2. ASSUME NEW w \in Workers PROVE NodeOK(w)
      BY MachineNumbers DEF Init, NodeOK, NoNode
  <2> QED BY <2>1, <2>2 DEF ProviderInv
<1>2. ProviderInv => OwnProviderID
    BY DEF ProviderInv, NodeOK, OwnProviderID, Existing
<1> QED BY <1>1, <1>2, ProviderNext, InitTyped, NextTyped, PTL DEF Spec

----------------------------------------------------------------------------
(* One cluster.                                                              *)

(* Only the newest controller may not be running.                            *)
NewestLast == \A m, n \in Active : stage[m] # "running" => n <= m

(* Nobody is left without an older controller to join.                       *)
SomeoneToJoin ==
    /\ Active = {} => \A m \in Controllers : life[m] = "none"
    /\ \A m \in Active : m # 1 /\ stage[m] = "pending" => \E n \in Active : n < m

(* So only the first controller is told to found a cluster.                  *)
Joins(m) ==
    /\ data[m].commands \in Seq(Joining)
    /\ stage[m] = "pending" => /\ secret[m].commands \in Seq(Joining)
                               /\ mem[m].data.commands \in Seq(Joining)
                               /\ pc[m] = "generate" => ~IsInitial(m)

AllInFirst ==
    /\ \A t \in tokens : t.cluster = 1
    /\ \A m \in Controllers : stage[m] = "running" => member[m] = 1

(* A controller is never told to install a worker.                           *)
ControllerCommand == Command \ {"installWorker"}
ControllerOK(m) ==
    /\ data[m].commands \in Seq(ControllerCommand)
    /\ secret[m].commands \in Seq(ControllerCommand)
    /\ mem[m].data.commands \in Seq(ControllerCommand)

ClusterInv ==
    /\ NewestLast
    /\ \A m \in Controllers : ControllerOK(m)
    /\ ~risky => /\ SomeoneToJoin
                 /\ \A m \in Controllers \ {1} : Joins(m)
                 /\ ~hosted => AllInFirst

(* Max gives the last machine of any set of controllers.                     *)
LEMMA MaxIsLast ==
    ASSUME NEW S \in SUBSET Controllers, S # {}
    PROVE  Max(S) \in S /\ \A m \in S : m <= Max(S)
<1> DEFINE T == {k \in Nat : NumControllers - k \in S}
           less == OpToRel(<, Nat)
<1>1. IsWellFoundedOn(less, Nat)
    BY NatLessThanWellFounded
<1>2. \A m \in S : m \in 1..NumControllers /\ NumControllers - m \in Nat
                   /\ NumControllers - (NumControllers - m) = m
    BY SMTT(30) DEF Controllers
<1>3. T \subseteq Nat /\ T # {}
    BY <1>2
<1>4. \A x, y \in Nat : y < x => <<y, x>> \in less
    BY DEF less, OpToRel
<1> HIDE DEF less
<1>5. PICK x \in T : \A y \in T : ~(<<y, x>> \in less)
  <2> HIDE DEF T
  <2> QED BY <1>1, <1>3, WFMin
<1>6. NumControllers - x \in S /\ x \in Nat
    BY <1>5
<1>7. ASSUME NEW m \in S PROVE m <= NumControllers - x
  <2>1. NumControllers - m \in T
      BY <1>2
  <2>2. ~(NumControllers - m < x)
      BY <1>4, <1>5, <1>6, <2>1
  <2> QED BY <1>2, <1>6, <2>2, SMTT(30)
<1>8. \A m \in S : NumControllers - x >= m
    BY <1>2, <1>6, <1>7
<1>9. Max(S) \in S /\ \A m \in S : Max(S) >= m
    BY <1>6, <1>8 DEF Max
<1> QED BY <1>9, <1>2

(* The commands around the installation keep a controller's commands what    *)
(* they are.                                                                 *)
LEMMA CompleteCommands ==
    ASSUME ReconcilersOK, NEW m \in Controllers, pc[m] = "assemble", NEW C, Around \subseteq C,
           mem[m].data.commands \in Seq(C)
    PROVE  Complete(m).commands \in Seq(C)
<1> DEFINE d == mem[m].data
<1>1. d \in DataRecord /\ d.commands # <<>>
    BY MachineNumbers DEF ReconcilersOK, MemRecord
<1>2. d.commands[1] \in C
    BY <1>1, SMTT(30)
<1>3. genK0sCommands(d.commands[1]) \o <<"sentinel">> \in Seq(C)
    BY <1>2, CommandsAround
<1>4. Complete(m) = generateBootstrapDataForController(d)
    BY DEF Complete
<1> HIDE DEF d
<1>5. generateBootstrapDataForController(d).commands = genK0sCommands(d.commands[1]) \o <<"sentinel">>
    BY <1>1 DEF generateBootstrapDataForController, DataRecord
<1> QED BY <1>3, <1>4, <1>5

LEMMA AroundCommands == Around \subseteq Joining /\ Around \subseteq ControllerCommand
  BY DEF Around, Joining, ControllerCommand, Command, Install

(* A controller whose data stays away from a command does not run it.        *)
LEMMA NotRun ==
    ASSUME NEW d, NEW C, d.commands \in Seq(C), NEW command, command \notin C
    PROVE  ~Runs(d, command)
<1> SUFFICES ASSUME NEW i \in DOMAIN d.commands, d.commands[i] = command PROVE FALSE
    BY DEF Runs
<1>1. d.commands[i] \in C
    BY SMTT(30)
<1> QED BY <1>1

LEMMA FirstController == 1 \in Controllers /\ \A m \in Controllers : m \in Nat /\ 1 <= m
  BY SMTT(30) DEF Controllers

(* The order and the running of the controllers, when their lives stay.      *)
LEMMA LivesStay ==
    ASSUME Typed, NewestLast, SomeoneToJoin \/ risky, \A m \in Controllers : life'[m] = life[m],
           \A m \in Controllers : stage[m] = "running" => stage'[m] = "running",
           \A m \in Controllers : stage'[m] = "pending" => stage[m] = "pending"
    PROVE  NewestLast' /\ (~risky => SomeoneToJoin')
<1>1. Active' = Active /\ Active \subseteq Controllers
    BY DEF Active
<1> QED BY <1>1 DEF NewestLast, SomeoneToJoin

(* A controller that has none older than itself to join is the first one.    *)
LEMMA ListedJoins ==
    ASSUME Typed, SomeoneToJoin, NEW m \in Controllers \ {1}, stage[m] = "pending"
    PROVE  Oldest(Active) # m
<1>1. Active \in SUBSET Machine /\ m # None
    BY MachineNumbers DEF Active, None
<1>2. Oldest(Active) \in Active \cup {None} /\ (Oldest(Active) # None => \A n \in Active : Oldest(Active) <= n)
    BY <1>1, OldestIsLeast
<1>3. CASE m \notin Active
    BY <1>1, <1>2, <1>3
<1>4. CASE m \in Active
  <2>1. PICK n \in Active : n < m
      BY <1>4 DEF SomeoneToJoin
  <2>2. n \in Nat /\ m \in Nat
      BY <1>1, MachineNumbers
  <2> QED BY <1>1, <1>2, <2>1, <2>2, SMTT(30)
<1> QED BY <1>3, <1>4

(* Whoever can be reached is in the first cluster.                           *)
LEMMA ReachableFirst ==
    ASSUME AllInFirst, ~hosted
    PROVE  Reachable \subseteq {1}
  BY DEF Reachable, Running, AllInFirst

(* A step of one reconciler concerns its own machine.                        *)
LEMMA OneReconciler ==
    ASSUME Typed, ClusterInv, NEW m \in Machine,
           UNCHANGED <<life, stage, data, member, hosted, risky>>,
           \A n \in Machine \ {m} : pc'[n] = pc[n] /\ mem'[n] = mem[n] /\ secret'[n] = secret[n],
           m \in Controllers => ControllerOK(m)',
           m \in Controllers \ {1} /\ ~risky => Joins(m)',
           ~risky /\ ~hosted => \A t \in tokens' : t.cluster = 1
    PROVE  ClusterInv'
<1>1. NewestLast' /\ (~risky => SomeoneToJoin')
    BY LivesStay DEF ClusterInv
<1>2. ASSUME NEW n \in Controllers, n # m
      PROVE  ControllerOK(n)' /\ (n # 1 /\ ~risky => Joins(n)')
  <2>1. n \in Machine /\ pc'[n] = pc[n] /\ mem'[n] = mem[n] /\ secret'[n] = secret[n]
      BY <1>2, MachineNumbers
  <2>2. IsInitial(n)' <=> IsInitial(n)
      BY <2>1 DEF IsInitial
  <2>3. ControllerOK(n) /\ (n # 1 /\ ~risky => Joins(n))
      BY DEF ClusterInv
  <2> QED BY <2>1, <2>2, <2>3 DEF ControllerOK, Joins
<1>3. ~risky /\ ~hosted => AllInFirst'
    BY DEF ClusterInv, AllInFirst
<1> QED BY <1>1, <1>2, <1>3 DEF ClusterInv

LEMMA ClusterReconciler ==
    ASSUME Typed, ClusterInv, NEW m \in Machine, BootstrapController(m)
    PROVE  ClusterInv'
<1> USE DEF machines, objects
<1>0. ReconcilersOK /\ ObjectsOK
    BY DEF Typed
<1>1. UNCHANGED <<life, stage, data, member, hosted, risky>>
    BY DEF BootstrapController, StartController, StartWorker, GenerateInitial, GenerateJoin, Retry,
           Assemble, PatchStatus
<1>2. m \in Controllers => ControllerOK(m)
    BY DEF ClusterInv
<1>3. m \in Controllers \ {1} /\ ~risky => Joins(m) /\ SomeoneToJoin
    BY DEF ClusterInv
<1>4. ~risky /\ ~hosted => \A t \in tokens : t.cluster = 1
    BY DEF ClusterInv, AllInFirst
<1>5. ASSUME NEW label, Goto(m, label)
      PROVE  pc'[m] = label /\ \A n \in Machine \ {m} : pc'[n] = pc[n]
    BY <1>0, <1>5 DEF Goto, ReconcilersOK
<1>6. ASSUME NEW new, mem' = [mem EXCEPT ![m] = new]
      PROVE  mem'[m] = new /\ \A n \in Machine \ {m} : mem'[n] = mem[n]
    BY <1>0, <1>6 DEF ReconcilersOK
<1>7. NoData.commands \in Seq(ControllerCommand) /\ NoData.commands \in Seq(Joining) /\ NoMem.data = NoData
    BY SMTT(30) DEF NoData, Data, NoMem
<1>8. CASE StartController(m)
  <2>1. pc'[m] = "generate" /\ \A n \in Machine \ {m} : pc'[n] = pc[n]
      BY <1>5, <1>8 DEF StartController
  <2>2. mem'[m] = Listed /\ \A n \in Machine \ {m} : mem'[n] = mem[n]
      BY <1>6, <1>8 DEF StartController
  <2>3. UNCHANGED <<secret, tokens>>
      BY <1>8 DEF StartController
  <2>4. mem'[m].data = NoData /\ mem'[m].list = Active
      BY <2>2, SMTT(30) DEF Listed
  <2>5. m \in Controllers => ControllerOK(m)'
      BY <1>1, <1>2, <1>7, <2>3, <2>4 DEF ControllerOK
  <2>6. ASSUME m \in Controllers \ {1}, ~risky PROVE Joins(m)'
    <3>1. stage[m] = "pending" => ~IsInitial(m)'
        BY <1>3, <2>4, <2>6, ListedJoins DEF IsInitial
    <3> QED BY <1>1, <1>3, <1>7, <2>3, <2>4, <2>6, <3>1 DEF Joins
  <2> QED BY <1>1, <1>4, <2>1, <2>2, <2>3, <2>5, <2>6, OneReconciler
<1>9. CASE StartWorker(m)
  <2>1. \A n \in Machine \ {m} : pc'[n] = pc[n]
      BY <1>5, <1>9 DEF StartWorker
  <2>2. UNCHANGED <<mem, secret, tokens>> /\ m \notin Controllers
      BY <1>9, MachineNumbers DEF StartWorker
  <2> QED BY <1>1, <1>4, <2>1, <2>2, OneReconciler
<1>10. CASE GenerateInitial(m)
  <2> DEFINE d == Data(genInitialControlPlaneFiles, NoToken, None, <<createCPInstallCmd>>)
  <2>1. d \in DataRecord /\ d.commands \in Seq(ControllerCommand)
    <3>1. "installController" \in ControllerCommand
        BY DEF ControllerCommand, Command, Install
    <3>2. d.commands = <<"installController">>
        BY DEF Data, createCPInstallCmd
    <3>3. <<"installController">> \in Seq(ControllerCommand)
        BY <3>1, SMTT(30)
    <3> QED BY <3>2, <3>3, InitialDataTyped
  <2>2. pc[m] = "generate" /\ pc'[m] = "assemble" /\ \A n \in Machine \ {m} : pc'[n] = pc[n]
      BY <1>5, <1>10 DEF GenerateInitial
  <2>3. mem' = [mem EXCEPT ![m].data = d] /\ IsInitial(m) /\ UNCHANGED <<secret, tokens>>
      BY <1>10 DEF GenerateInitial
  <2> HIDE DEF d
  <2>4. mem'[m].data = d /\ \A n \in Machine \ {m} : mem'[n] = mem[n]
    <3> DEFINE new == [mem[m] EXCEPT !.data = d]
    <3>1. new.data = d /\ mem' = [mem EXCEPT ![m] = new]
        BY <1>0, <2>1, <2>3, HeldData
    <3> HIDE DEF new
    <3> QED BY <1>6, <3>1
  <2>5. m \in Controllers => ControllerOK(m)'
      BY <1>1, <1>2, <2>1, <2>3, <2>4 DEF ControllerOK
  <2>6. m \in Controllers \ {1} /\ ~risky => Joins(m)'
      BY <1>1, <1>3, <2>2, <2>3 DEF Joins
  <2> QED BY <1>1, <1>4, <2>2, <2>3, <2>4, <2>5, <2>6, OneReconciler
<1>11. CASE GenerateJoin(m)
  <2>1. PICK cluster \in Reachable, host \in detectJoinHost(m) :
            /\ tokens' = tokens \cup {NewToken(m, cluster)}
            /\ mem' = [mem EXCEPT ![m].data = Data({"token"}, NewToken(m, cluster), host, <<JoinCmd(m)>>)]
      BY <1>11 DEF GenerateJoin
  <2> DEFINE token == NewToken(m, cluster)
             d == Data({"token"}, token, host, <<JoinCmd(m)>>)
  <2>2. token \in Token /\ host \in Controllers \cup {None} /\ token.cluster = cluster
      BY TokenTyped, JoinHostTyped DEF NewToken
  <2>3. d \in DataRecord
    <3> HIDE DEF token
    <3> QED BY <2>2, JoinDataTyped
  <2>4. m \in Controllers => d.commands \in Seq(Joining) /\ d.commands \in Seq(ControllerCommand)
    <3>1. d.commands = <<JoinCmd(m)>>
        BY DEF Data
    <3>2. m \in Controllers => JoinCmd(m) \in Joining /\ JoinCmd(m) \in ControllerCommand
        BY DEF JoinCmd, createCPInstallCmdWithJoinToken, Joining, ControllerCommand, Command, Install
    <3>3. m \in Controllers => <<JoinCmd(m)>> \in Seq(Joining) /\ <<JoinCmd(m)>> \in Seq(ControllerCommand)
        BY <3>2, SMTT(30)
    <3> QED BY <3>1, <3>3
  <2>5. mem' = [mem EXCEPT ![m].data = d] /\ tokens' = tokens \cup {token} /\ UNCHANGED secret
      BY <1>11, <2>1 DEF GenerateJoin
  <2>6. pc'[m] = "assemble" /\ \A n \in Machine \ {m} : pc'[n] = pc[n]
      BY <1>5, <1>11 DEF GenerateJoin
  <2> HIDE DEF d, token
  <2>7. mem'[m].data = d /\ \A n \in Machine \ {m} : mem'[n] = mem[n]
    <3> DEFINE new == [mem[m] EXCEPT !.data = d]
    <3>1. new.data = d /\ mem' = [mem EXCEPT ![m] = new]
        BY <1>0, <2>3, <2>5, HeldData
    <3> HIDE DEF new
    <3> QED BY <1>6, <3>1
  <2>8. m \in Controllers => ControllerOK(m)'
      BY <1>1, <1>2, <2>4, <2>5, <2>7 DEF ControllerOK
  <2>9. m \in Controllers \ {1} /\ ~risky => Joins(m)'
      BY <1>1, <1>3, <2>4, <2>5, <2>6, <2>7 DEF Joins
  <2>10. ~risky /\ ~hosted => \A t \in tokens' : t.cluster = 1
    <3>1. ~risky /\ ~hosted => cluster = 1
        BY <2>1, ReachableFirst DEF ClusterInv
    <3> QED BY <1>4, <2>2, <2>5, <3>1
  <2> QED BY <1>1, <2>5, <2>6, <2>7, <2>8, <2>9, <2>10, OneReconciler
<1>12. CASE Retry(m)
  <2>1. pc'[m] = "idle" /\ \A n \in Machine \ {m} : pc'[n] = pc[n]
      BY <1>5, <1>12 DEF Retry
  <2>2. mem'[m] = NoMem /\ \A n \in Machine \ {m} : mem'[n] = mem[n]
      BY <1>6, <1>12 DEF Retry
  <2>3. UNCHANGED <<secret, tokens>>
      BY <1>12 DEF Retry
  <2>4. m \in Controllers => ControllerOK(m)'
      BY <1>1, <1>2, <1>7, <2>2, <2>3 DEF ControllerOK
  <2>5. m \in Controllers \ {1} /\ ~risky => Joins(m)'
      BY <1>1, <1>3, <1>7, <2>1, <2>2, <2>3 DEF Joins
  <2> QED BY <1>1, <1>4, <2>1, <2>2, <2>3, <2>4, <2>5, OneReconciler
<1>13. CASE Assemble(m)
  <2>1. pc'[m] # "generate" /\ \A n \in Machine \ {m} : pc'[n] = pc[n]
    <3>1. PICK label \in {"patch", "idle"} : Goto(m, label)
        BY <1>13 DEF Assemble
    <3> QED BY <1>5, <3>1
  <2>2. mem'[m] = NoMem /\ \A n \in Machine \ {m} : mem'[n] = mem[n]
      BY <1>6, <1>13 DEF Assemble
  <2>3. UNCHANGED tokens /\ pc[m] = "assemble"
      BY <1>13 DEF Assemble
  <2>4. secret'[m] \in {secret[m], Complete(m)} /\ \A n \in Machine \ {m} : secret'[n] = secret[n]
      BY <1>0, <1>13 DEF Assemble, createBootstrapSecret, ObjectsOK
  <2>5. m \in Controllers =>
            /\ mem[m].data.commands \in Seq(Joining) => Complete(m).commands \in Seq(Joining)
            /\ mem[m].data.commands \in Seq(ControllerCommand) =>
                   Complete(m).commands \in Seq(ControllerCommand)
      BY <1>0, <2>3, CompleteCommands, AroundCommands
  <2>6. m \in Controllers => ControllerOK(m)'
      BY <1>1, <1>2, <1>7, <2>2, <2>4, <2>5 DEF ControllerOK
  <2>7. m \in Controllers \ {1} /\ ~risky => Joins(m)'
      BY <1>1, <1>3, <1>7, <2>1, <2>2, <2>4, <2>5 DEF Joins
  <2> QED BY <1>1, <1>4, <2>1, <2>2, <2>3, <2>4, <2>6, <2>7, OneReconciler
<1>14. CASE PatchStatus(m)
  <2>1. pc'[m] = "idle" /\ \A n \in Machine \ {m} : pc'[n] = pc[n]
      BY <1>5, <1>14 DEF PatchStatus
  <2>2. UNCHANGED <<mem, secret, tokens>>
      BY <1>14 DEF PatchStatus
  <2>3. m \in Controllers => ControllerOK(m)'
      BY <1>1, <1>2, <2>2 DEF ControllerOK
  <2>4. m \in Controllers \ {1} /\ ~risky => Joins(m)'
      BY <1>1, <1>3, <2>1, <2>2 DEF Joins
  <2> QED BY <1>1, <1>4, <2>1, <2>2, <2>3, <2>4, OneReconciler
<1> QED BY <1>8, <1>9, <1>10, <1>11, <1>12, <1>13, <1>14 DEF BootstrapController

LEMMA NoCommands == <<>> \in Seq(ControllerCommand) /\ <<>> \in Seq(Joining)
    BY SMTT(30)

(* A step that changes the lives of controllers, and nothing of the data.    *)
LEMMA LivesChange ==
    ASSUME Typed, ClusterInv, UNCHANGED <<stage, data, member, hosted, pc, mem, secret, tokens>>,
           NewestLast', ~risky' => ~risky /\ SomeoneToJoin'
    PROVE  ClusterInv'
<1>1. ASSUME NEW n \in Controllers
      PROVE  ControllerOK(n)' /\ (n # 1 /\ ~risky' => Joins(n)')
  <2>1. IsInitial(n)' <=> IsInitial(n)
      BY DEF IsInitial
  <2>2. ControllerOK(n) /\ (n # 1 /\ ~risky => Joins(n))
      BY DEF ClusterInv
  <2> QED BY <2>1, <2>2 DEF ControllerOK, Joins
<1>2. ~risky' /\ ~hosted' => AllInFirst'
    BY DEF ClusterInv, AllInFirst
<1> QED BY <1>1, <1>2 DEF ClusterInv

(* When the newest controller runs, all of them do.                          *)
LEMMA AllRunning ==
    ASSUME NewestLast, isLatestMachineReady, Active # {}
    PROVE  \A m \in Active : stage[m] = "running"
<1>1. Active \in SUBSET Controllers
    BY DEF Active
<1>2. Max(Active) \in Active /\ (\A m \in Active : m <= Max(Active)) /\ stage[Max(Active)] = "running"
    BY <1>1, MaxIsLast DEF isLatestMachineReady
<1> DEFINE x == Max(Active)
<1> HIDE DEF x
<1>3. ASSUME NEW m \in Active, stage[m] # "running" PROVE FALSE
  <2>1. x <= m /\ m <= x /\ x \in Nat /\ m \in Nat
      BY <1>1, <1>2, <1>3, MachineNumbers DEF NewestLast, x
  <2>2. x = m
      BY <2>1, SMTT(30)
  <2> QED BY <1>2, <1>3, <2>2 DEF x
<1> QED BY <1>3

LEMMA ClusterScaleUp ==
    ASSUME Inductive, ClusterInv, ScaleUp
    PROVE  ClusterInv'
<1> USE DEF machines, objects, reconcilers
<1> DEFINE new == {m \in Controllers : life[m] = "none"}
           x == Min(new)
<1>1. UNCHANGED <<stage, data, member, hosted, pc, mem, secret, tokens, risky>> /\ isLatestMachineReady
      /\ new # {} /\ life' = [life EXCEPT ![x] = "active"]
    BY DEF ScaleUp
<1>2. x \in new /\ \A m \in new : x <= m
    BY <1>1, MinIsLeast, MachineNumbers
<1>3. x \in Controllers /\ life[x] = "none"
    BY <1>2
<1>4. Typed /\ InOrder /\ LifeOK
    BY DEF Inductive, Typed
<1> HIDE DEF x
<1>5. x # 1 => life[1] # "none"
    BY <1>2, <1>3, FirstController, SMTT(30)
<1> HIDE DEF new
<1>6. Active' = Active \cup {x} /\ x \notin Active /\ Active \subseteq Controllers
    BY <1>1, <1>3, <1>4, MachineNumbers DEF Active, LifeOK
<1>7. \A m \in Active : m < x
  <2> SUFFICES ASSUME NEW m \in Active, ~(m < x) PROVE FALSE
      OBVIOUS
  <2>1. m \in Nat /\ x \in Nat /\ m # x
      BY <1>3, <1>6, MachineNumbers
  <2>2. x < m
      BY <2>1, SMTT(30)
  <2>3. life[x] # "none"
      BY <1>3, <1>4, <1>6, <2>2 DEF InOrder, Active
  <2> QED BY <1>3, <2>3
<1>8. \A m \in Active : stage[m] = "running"
    BY <1>1, AllRunning DEF ClusterInv
<1>9. \A m \in Controllers : m \in Nat
    BY FirstController
<1>10. NewestLast'
  <2> SUFFICES ASSUME NEW m \in Active \cup {x}, NEW n \in Active \cup {x}, stage[m] # "running"
               PROVE  n <= m
      BY <1>1, <1>6 DEF NewestLast
  <2>1. m = x
      BY <1>8
  <2> QED BY <1>3, <1>6, <1>7, <1>9, <2>1, SMTT(30)
<1>11. ~risky => SomeoneToJoin'
  <2> SUFFICES ASSUME ~risky PROVE SomeoneToJoin'
      OBVIOUS
  <2>1. Active' # {}
      BY <1>6
  <2>2. ASSUME NEW m \in Active', m # 1, stage'[m] = "pending" PROVE \E n \in Active' : n < m
    <3>1. m = x
        BY <1>1, <1>6, <1>8, <2>2
    <3>2. Active # {}
        BY <1>5, <2>2, <3>1, FirstController DEF ClusterInv, SomeoneToJoin
    <3> QED BY <1>6, <1>7, <3>1, <3>2
  <2> QED BY <2>1, <2>2 DEF SomeoneToJoin
<1> QED BY <1>1, <1>4, <1>10, <1>11, LivesChange

LEMMA ClusterScaleDown ==
    ASSUME Typed, ClusterInv, ScaleDown
    PROVE  ClusterInv'
<1> USE DEF machines, objects, reconcilers
<1>1. UNCHANGED <<stage, data, member, hosted, pc, mem, secret, tokens, risky>> /\ isLatestMachineReady
      /\ Cardinality(Active) > 1 /\ life' = [life EXCEPT ![Min(Active)] = "deleting"]
    BY DEF ScaleDown
<1>2. Active' \subseteq Active /\ \A m \in Active : m # Min(Active) => m \in Active'
    BY <1>1, MachineNumbers DEF Active, Typed, LifeOK
<1>3. \E m \in Active : m # Min(Active)
  <2>1. SUFFICES ASSUME Active \subseteq {Min(Active)} PROVE FALSE
      BY <2>1
  <2>2. IsFiniteSet({Min(Active)}) /\ Cardinality({Min(Active)}) = 1
      BY FS_Singleton
  <2>3. IsFiniteSet(Active) /\ Cardinality(Active) <= Cardinality({Min(Active)})
      BY <2>1, <2>2, FS_Subset
  <2>4. Cardinality(Active) \in Nat
      BY <2>3, FS_CardinalityType
  <2> QED BY <1>1, <2>2, <2>3, <2>4, SMTT(30)
<1>4. \A m \in Active : stage[m] = "running"
    BY <1>1, <1>3, AllRunning DEF ClusterInv
<1>5. NewestLast'
    BY <1>1, <1>2, <1>4 DEF NewestLast
<1>6. SomeoneToJoin'
    BY <1>1, <1>2, <1>3, <1>4 DEF SomeoneToJoin
<1> QED BY <1>1, <1>5, <1>6, LivesChange

LEMMA ClusterDelete ==
    ASSUME Typed, ClusterInv, NEW m \in Machine, DeleteMachine(m)
    PROVE  ClusterInv'
<1> USE DEF machines, objects, reconcilers
<1> DEFINE rest == Active \ {m}
<1>1. /\ UNCHANGED <<stage, data, member, hosted, pc, mem, secret, tokens>>
      /\ life' = [life EXCEPT ![m] = "deleting"]
      /\ risky' = (risky \/ (m \in Controllers /\ (rest = {} \/ stage[Min(rest)] = "pending")))
    BY DEF DeleteMachine
<1>2. Active' = rest
    BY <1>1, MachineNumbers DEF Active, Typed, LifeOK
<1>3. rest \in SUBSET Controllers /\ rest \in SUBSET Machine
    BY MachineNumbers DEF Active
<1>4. NewestLast'
    BY <1>1, <1>2 DEF ClusterInv, NewestLast
<1>5. ~risky' => ~risky /\ (m \in Controllers => rest # {} /\ stage[Min(rest)] # "pending")
    BY <1>1
<1> HIDE DEF rest
<1>6. CASE m \in Controllers
  <2>1. ASSUME ~risky' PROVE SomeoneToJoin'
    <3>1. rest # {} /\ stage[Min(rest)] # "pending"
        BY <1>5, <1>6, <2>1
    <3>2. Min(rest) \in rest /\ \A n \in rest : Min(rest) <= n
        BY <1>3, <3>1, MinIsLeast
    <3>3. ASSUME NEW n \in rest, stage[n] = "pending" PROVE Min(rest) < n
      <4>1. Min(rest) # n /\ Min(rest) <= n /\ Min(rest) \in Nat /\ n \in Nat
          BY <1>3, <3>1, <3>2, <3>3, MachineNumbers
      <4> QED BY <4>1, SMTT(30)
    <3> QED BY <1>1, <1>2, <3>1, <3>2, <3>3 DEF SomeoneToJoin
  <2> QED BY <1>1, <1>4, <1>5, <2>1, LivesChange
<1>7. CASE m \notin Controllers
  <2>1. Active' = Active /\ \A n \in Controllers : life'[n] = life[n]
      BY <1>1, <1>2, <1>7, MachineNumbers DEF rest, Active, Typed, LifeOK
  <2>2. ~risky' => ~risky /\ SomeoneToJoin'
      BY <1>1, <1>5, <2>1 DEF ClusterInv, SomeoneToJoin
  <2> QED BY <1>1, <1>4, <2>2, LivesChange
<1> QED BY <1>6, <1>7

(* A controller that boots founds the first cluster or joins it.             *)
LEMMA ClusterBoot ==
    ASSUME Typed, ClusterInv, NEW m \in Machine, Boot(m)
    PROVE  ClusterInv'
<1> USE DEF machines, objects, reconcilers
<1>1. UNCHANGED <<life, data, hosted, pc, mem, secret, tokens, risky>> /\ stage[m] = "booting"
      /\ stage' = [stage EXCEPT ![m] = "running"]
    BY DEF Boot
<1>2. \A n \in Machine : stage'[n] = IF n = m THEN "running" ELSE stage[n]
    BY <1>1 DEF Typed, MachinesOK
<1>3. NewestLast' /\ (~risky => SomeoneToJoin')
    BY <1>1, <1>2, LivesStay, MachineNumbers, SMTT(30) DEF ClusterInv
<1>4. ASSUME NEW n \in Controllers
      PROVE  ControllerOK(n)' /\ (n # 1 /\ ~risky => Joins(n)')
  <2>1. IsInitial(n)' <=> IsInitial(n)
      BY <1>1 DEF IsInitial
  <2>2. ControllerOK(n) /\ (n # 1 /\ ~risky => Joins(n)) /\ n \in Machine
      BY MachineNumbers DEF ClusterInv
  <2> QED BY <1>1, <1>2, <2>1, <2>2, SMTT(30) DEF ControllerOK, Joins
<1>5. ASSUME ~risky, ~hosted PROVE AllInFirst'
  <2>0. AllInFirst /\ member \in [Controllers -> Controllers \cup {None}]
      BY <1>5 DEF ClusterInv, Typed, MachinesOK
  <2>1. \A n \in Controllers : n # m => member'[n] = member[n]
      BY <2>0 DEF Boot
  <2>2. ASSUME m \in Controllers PROVE member'[m] = 1
    <3>1. CASE Runs(data[m], createCPInstallCmd) /\ member' = [member EXCEPT ![m] = m]
      <4>1. m = 1
        <5>1. m # 1 => data[m].commands \in Seq(Joining)
            BY <1>5, <2>2 DEF ClusterInv, Joins
        <5>2. createCPInstallCmd \notin Joining
            BY DEF createCPInstallCmd, Joining
        <5> QED BY <3>1, <5>1, <5>2, NotRun
      <4> QED BY <2>0, <2>2, <3>1, <4>1
    <3>2. CASE MayJoin(data[m]) /\ member' = [member EXCEPT ![m] = data[m].token.cluster]
        BY <2>0, <2>2, <3>2 DEF MayJoin, AllInFirst
    <3>3. CASE Runs(data[m], createInstallCmd(m))
      <4>1. createInstallCmd(m) = "installWorker"
          BY <2>2, WindowsAssumption, MachineNumbers DEF createInstallCmd
      <4>2. data[m].commands \in Seq(ControllerCommand) /\ "installWorker" \notin ControllerCommand
          BY <2>2 DEF ClusterInv, ControllerOK, ControllerCommand
      <4> QED BY <3>3, <4>1, <4>2, NotRun
    <3> QED BY <3>1, <3>2, <3>3 DEF Boot
  <2> QED BY <1>1, <1>2, <2>0, <2>1, <2>2, MachineNumbers DEF AllInFirst
<1> QED BY <1>1, <1>3, <1>4, <1>5 DEF ClusterInv

LEMMA ClusterNext == Inductive /\ ClusterInv /\ [Next]_vars => ClusterInv'
<1> SUFFICES ASSUME Inductive, ClusterInv, [Next]_vars PROVE ClusterInv'
    OBVIOUS
<1> USE DEF machines, objects, reconcilers
<1>0. Typed /\ LifeOK /\ MachinesOK /\ ObjectsOK
    BY DEF Inductive, Typed
<1>1. ASSUME UNCHANGED <<stage, data, member, hosted, risky, pc, mem, secret, tokens>>,
             \A m \in Controllers : life'[m] = life[m]
      PROVE  ClusterInv'
  <2>1. NewestLast' /\ (~risky' => SomeoneToJoin')
      BY <1>0, <1>1, LivesStay DEF ClusterInv
  <2> QED BY <1>0, <1>1, <2>1, LivesChange
<1>2. CASE ProvideCluster \/ Expire \/ UNCHANGED vars
    BY <1>1, <1>2 DEF ProvideCluster, Expire, vars
<1>3. ASSUME NEW w \in Workers, ProviderIDController(w) PROVE ClusterInv'
    BY <1>1, <1>3 DEF ProviderIDController, FindNode, UpdateNode
<1>4. ASSUME NEW w \in Workers, CreateWorker(w) PROVE ClusterInv'
  <2>1. \A m \in Controllers : life'[m] = life[m]
      BY <1>0, <1>4, MachineNumbers DEF CreateWorker, LifeOK
  <2> QED BY <1>1, <1>4, <2>1 DEF CreateWorker
<1>5. ASSUME NEW m \in Machine, Provision(m) PROVE ClusterInv'
  <2>1. UNCHANGED <<life, hosted, risky, member, pc, mem, secret, tokens>>
      BY <1>5 DEF Provision
  <2>2. \A n \in Machine : \/ stage'[n] = stage[n] /\ data'[n] = data[n]
                           \/ stage[n] = "pending" /\ stage'[n] = "booting" /\ data'[n] = secret[n]
      BY <1>0, <1>5, SMTT(30) DEF Provision, MachinesOK
  <2>3. NewestLast' /\ (~risky => SomeoneToJoin')
      BY <1>0, <2>1, <2>2, LivesStay, MachineNumbers DEF ClusterInv
  <2>4. ASSUME NEW n \in Controllers
        PROVE  ControllerOK(n)' /\ (n # 1 /\ ~risky => Joins(n)')
    <3>1. IsInitial(n)' <=> IsInitial(n)
        BY <2>1 DEF IsInitial
    <3>2. ControllerOK(n) /\ (n # 1 /\ ~risky => Joins(n)) /\ n \in Machine
        BY MachineNumbers DEF ClusterInv
    <3> QED BY <2>1, <2>2, <3>1, <3>2 DEF ControllerOK, Joins
  <2>5. ~risky /\ ~hosted => AllInFirst'
      BY <2>1, <2>2, MachineNumbers DEF ClusterInv, AllInFirst
  <2> QED BY <2>1, <2>3, <2>4, <2>5 DEF ClusterInv
<1>6. ASSUME NEW m \in Machine, Remove(m) PROVE ClusterInv'
  <2>1. UNCHANGED <<stage, data, member, hosted, risky, pc, mem, tokens>> /\ life[m] = "deleting"
      BY <1>6 DEF Remove
  <2>2. \A n \in Machine : /\ life'[n] = IF n = m THEN "gone" ELSE life[n]
                           /\ secret'[n] = IF n = m THEN NoData ELSE secret[n]
      BY <1>0, <1>6 DEF Remove, LifeOK, ObjectsOK
  <2>3. Active' = Active
      BY <2>1, <2>2, MachineNumbers DEF Active
  <2>4. NewestLast' /\ (~risky => SomeoneToJoin')
    <3>1. \A n \in Controllers : life[n] = "none" => life'[n] = "none"
        BY <2>1, <2>2, MachineNumbers
    <3> QED BY <2>1, <2>3, <3>1 DEF ClusterInv, NewestLast, SomeoneToJoin
  <2>5. ASSUME NEW n \in Controllers
        PROVE  ControllerOK(n)' /\ (n # 1 /\ ~risky => Joins(n)')
    <3>1. (IsInitial(n)' <=> IsInitial(n)) /\ NoData.commands = <<>>
        BY <2>1 DEF IsInitial, NoData, Data
    <3>2. ControllerOK(n) /\ (n # 1 /\ ~risky => Joins(n)) /\ n \in Machine
        BY MachineNumbers DEF ClusterInv
    <3>3. secret'[n] = secret[n] \/ secret'[n].commands = <<>>
        BY <2>2, <3>1, <3>2
    <3> QED BY <2>1, <3>1, <3>2, <3>3, NoCommands DEF ControllerOK, Joins
  <2>6. ~risky /\ ~hosted => AllInFirst'
      BY <2>1 DEF ClusterInv, AllInFirst
  <2> QED BY <2>1, <2>4, <2>5, <2>6 DEF ClusterInv
<1>7. CASE Crash
  <2>1. UNCHANGED <<life, stage, data, member, hosted, risky, secret, tokens>>
        /\ \A n \in Machine : pc'[n] = "idle" /\ mem'[n] = NoMem
      BY <1>7 DEF Crash
  <2>2. NewestLast' /\ (~risky => SomeoneToJoin')
      BY <1>0, <2>1, LivesStay DEF ClusterInv
  <2>3. ASSUME NEW n \in Controllers
        PROVE  ControllerOK(n)' /\ (n # 1 /\ ~risky => Joins(n)')
    <3>1. ControllerOK(n) /\ (n # 1 /\ ~risky => Joins(n)) /\ n \in Machine
        BY MachineNumbers DEF ClusterInv
    <3>2. NoMem.data.commands = <<>>
        BY DEF NoMem, NoData, Data
    <3> QED BY <2>1, <3>1, <3>2, NoCommands DEF ControllerOK, Joins
  <2>4. ~risky /\ ~hosted => AllInFirst'
      BY <2>1 DEF ClusterInv, AllInFirst
  <2> QED BY <2>1, <2>2, <2>3, <2>4 DEF ClusterInv
<1> QED BY <1>0, <1>2, <1>3, <1>4, <1>5, <1>6, <1>7, ClusterReconciler, ClusterScaleUp, ClusterScaleDown,
        ClusterDelete, ClusterBoot DEF Next, System

LEMMA InitCluster == Init => ClusterInv
<1> SUFFICES ASSUME Init PROVE ClusterInv
    OBVIOUS
<1>1. Active = {}
    BY MachineNumbers DEF Init, Active
<1>2. NewestLast /\ SomeoneToJoin
    BY <1>1, MachineNumbers DEF Init, NewestLast, SomeoneToJoin
<1>3. ASSUME NEW n \in Controllers PROVE ControllerOK(n) /\ Joins(n)
  <2>1. NoData.commands = <<>> /\ NoMem.data.commands = <<>>
      BY DEF NoMem, NoData, Data
  <2> QED BY <2>1, NoCommands, MachineNumbers DEF Init, ControllerOK, Joins
<1>4. AllInFirst
    BY MachineNumbers DEF Init, AllInFirst
<1> QED BY <1>2, <1>3, <1>4 DEF ClusterInv

(* All controllers that run are members of one cluster, whatever was read    *)
(* from old lists, retried or lost in a crash, as long as nobody deletes the *)
(* last controller or the ones that run: the one founded by the first        *)
(* controller.  The control plane controller itself never does.              *)
THEOREM OneClusterHolds == Spec => []OneCluster
<1>1. ClusterInv => OneCluster
  <2> SUFFICES ASSUME ClusterInv, ~risky PROVE Cardinality(Reachable) <= 1
      BY DEF OneCluster
  <2>1. \E c : Reachable \subseteq {c}
      BY ReachableFirst DEF ClusterInv, Reachable
  <2>2. PICK c : Reachable \subseteq {c}
      BY <2>1
  <2>3. IsFiniteSet({c}) /\ Cardinality({c}) = 1
      BY FS_Singleton
  <2> QED BY <2>2, <2>3, FS_Subset, SMTT(30)
<1> QED BY <1>1, InitCluster, ClusterNext, InitInductive, NextInductive, PTL DEF Spec

----------------------------------------------------------------------------
(* What a machine boots with.                                                *)

(* A hosted control plane has no controller machines, and all its tokens are *)
(* of the one cluster there is.                                              *)
HostedInv ==
    hosted => /\ \A m \in Controllers : life[m] = "none"
              /\ \A t \in tokens : t.cluster = None

LEMMA HostedNext == Typed /\ HostedInv /\ [Next]_vars => HostedInv'
<1> SUFFICES ASSUME Typed, HostedInv, [Next]_vars, hosted
             PROVE  /\ \A m \in Controllers : life'[m] = "none"
                    /\ \A t \in tokens' : t.cluster = None
  <2>1. ASSUME NEW m \in Machine, BootstrapController(m) PROVE hosted' = hosted
      BY <2>1 DEF BootstrapController, StartController, StartWorker, GenerateInitial, GenerateJoin, Retry,
                  Assemble, PatchStatus
  <2>2. ASSUME NEW m \in Machine, Provision(m) \/ Boot(m) \/ Remove(m) \/ DeleteMachine(m)
        PROVE  hosted' = hosted
      BY <2>2 DEF Provision, Boot, Remove, DeleteMachine
  <2>3. ASSUME NEW w \in Workers, ProviderIDController(w) \/ CreateWorker(w) PROVE hosted' = hosted
      BY <2>3 DEF ProviderIDController, FindNode, UpdateNode, CreateWorker
  <2>4. ASSUME ProvideCluster \/ ScaleUp \/ ScaleDown \/ Expire \/ Crash \/ UNCHANGED vars
        PROVE  hosted' = hosted
      BY <2>4 DEF ProvideCluster, ScaleUp, ScaleDown, Expire, Crash, vars
  <2>5. ASSUME [Next]_vars PROVE hosted' = hosted
      BY <2>1, <2>2, <2>3, <2>4, <2>5 DEF Next, System
  <2> QED BY <2>5 DEF HostedInv
<1> USE DEF machines, objects
<1>0. LifeOK /\ (\A m \in Controllers : life[m] = "none") /\ \A t \in tokens : t.cluster = None
    BY DEF Typed, HostedInv
<1>1. ASSUME NEW m, m \notin Controllers, NEW l, life' = [life EXCEPT ![m] = l]
      PROVE  \A n \in Controllers : life'[n] = "none"
    BY <1>0, <1>1, MachineNumbers DEF LifeOK
<1>2. ASSUME NEW m \in Machine, BootstrapController(m)
      PROVE  UNCHANGED life /\ \A t \in tokens' : t.cluster = None
  <2>1. CASE GenerateJoin(m)
    <3>1. PICK cluster \in Reachable : tokens' = tokens \cup {NewToken(m, cluster)}
        BY <2>1 DEF GenerateJoin
    <3>2. NewToken(m, cluster).cluster = None
        BY DEF NewToken, Reachable
    <3> QED BY <1>0, <2>1, <3>1, <3>2 DEF GenerateJoin
  <2>2. CASE ~GenerateJoin(m)
      BY <1>0, <1>2, <2>2 DEF BootstrapController, StartController, StartWorker, GenerateInitial, Retry,
         Assemble, PatchStatus
  <2> QED BY <2>1, <2>2
<1>3. ASSUME NEW m \in Machine, Remove(m) \/ DeleteMachine(m)
      PROVE  UNCHANGED tokens /\ \A n \in Controllers : life'[n] = "none"
  <2>1. UNCHANGED tokens /\ m \notin Controllers /\ \E l : life' = [life EXCEPT ![m] = l]
      BY <1>0, <1>3 DEF Remove, DeleteMachine
  <2> QED BY <1>1, <2>1
<1>4. ASSUME NEW w \in Workers, CreateWorker(w)
      PROVE  UNCHANGED tokens /\ \A n \in Controllers : life'[n] = "none"
    BY <1>1, <1>4, MachineNumbers DEF CreateWorker
<1>5. ~ScaleUp /\ ~ScaleDown
  <2>1. Active = {}
      BY <1>0 DEF Active
  <2>2. Cardinality(Active) = 0
      BY <2>1, FS_EmptySet
  <2>3. ~(Cardinality(Active) > 1)
      BY <2>2, SMTT(30)
  <2> QED BY <2>3 DEF ScaleUp, ScaleDown
<1>6. CASE \/ \E m \in Machine : Provision(m) \/ Boot(m)
           \/ \E w \in Workers : ProviderIDController(w)
           \/ ProvideCluster \/ Expire \/ Crash \/ UNCHANGED vars
  <2>1. UNCHANGED <<life, tokens>>
      BY <1>6 DEF Provision, Boot, ProviderIDController, FindNode, UpdateNode, ProvideCluster, Expire, Crash, vars
  <2> QED BY <1>0, <2>1
<1> QED BY <1>0, <1>2, <1>3, <1>4, <1>5, <1>6 DEF Next, System

(* While the controller a machine was told to join runs, or any one behind   *)
(* the endpoint, only the expiration of its token can keep it from joining:  *)
(* the host from a list of any age and the token from wherever the endpoint  *)
(* led are of one cluster, whatever was retried between the creation of the  *)
(* token and the boot, as long as nobody else deletes the machines that one  *)
(* could join (genControlPlaneJoinFiles, getK0sToken,                        *)
(* createBootstrapSecret).                                                   *)
THEOREM JoinDataUsableHolds == Spec => []JoinDataUsable
<1>1. Init => HostedInv
    BY MachineNumbers DEF Init, HostedInv
<1>2. Inductive /\ ClusterInv /\ HostedInv => JoinDataUsable
  <2> SUFFICES ASSUME Inductive, ClusterInv, HostedInv, ~risky, NEW m \in Machine,
                      data[m].token \notin expired \cup {NoToken},
                      IF data[m].host = None THEN Reachable # {} ELSE data[m].host \in Running
               PROVE  MayJoin(data[m])
      BY DEF JoinDataUsable
  <2> DEFINE d == data[m]
  <2>1. d.token \in tokens \ expired
      BY DEF Inductive, TokensOK, Usable
  <2>2. CASE hosted
    <3>1. d.token.cluster = None /\ Reachable = {None} /\ Running = {}
        BY <2>1, <2>2 DEF HostedInv, Reachable, Running, Existing
    <3> QED BY <2>1, <3>1 DEF MayJoin
  <2>3. CASE ~hosted
    <3>1. AllInFirst
        BY <2>3 DEF ClusterInv
    <3>2. d.token.cluster = 1 /\ \A n \in Running : member[n] = 1
        BY <2>1, <3>1 DEF AllInFirst, Running
    <3>3. Reachable = {member[n] : n \in Running}
        BY <2>3 DEF Reachable
    <3>4. Running # {}
        BY <3>3
    <3>5. 1 \in Reachable
        BY <3>2, <3>3, <3>4
    <3> QED BY <2>1, <3>2, <3>5 DEF MayJoin
  <2> QED BY <2>2, <2>3
<1> QED BY <1>1, <1>2, HostedNext, InitCluster, ClusterNext, InitInductive, NextInductive, InitTyped, NextTyped,
        PTL DEF Spec
=============================================================================
