--------------------------- MODULE RemoteMachine ---------------------------
(***************************************************************************)
(* The RemoteMachine controller and its pool of pre-created machines.  A   *)
(* RemoteMachine reserves a PooledRemoteMachine, is provisioned over SSH,  *)
(* and gives the machine back when it is deleted.  Reconciles of different *)
(* RemoteMachines run concurrently.  RemoteMachines and the pool are read  *)
(* from informer caches; a reservation is an Update with the listed        *)
(* resourceVersion, so it fails if the object changed since.  What         *)
(* Reconcile does to its own RemoteMachine stays in memory until the       *)
(* deferred patch, which is three calls: conditions, metadata and spec,    *)
(* and the rest of the status.  Its error is only logged.                  *)
(***************************************************************************)
EXTENDS Naturals, FiniteSets

CONSTANTS
    RM,               \* the RemoteMachines, all of the same pool
    NoRM,             \* nobody
    PoolSize,         \* the pooled machines, in the order of their names
    Disturbance,      \* the kinds of disturbance that may happen
    MaxDisturbances   \* how many of them in one behaviour

Disturbances == {"delete", "staleRead", "staleList", "provisionFails", "cleanupFails", "hang",
                 "apiError", "crash"}

ASSUME NoRMAssumption == NoRM \notin RM
ASSUME PoolAssumption == PoolSize \in Nat \ {0}
ASSUME RMDisturbanceAssumption == Disturbance \subseteq Disturbances /\ MaxDisturbances \in Nat

Pooled == 1..PoolSize
None == 0        \* spec.address is not populated

VARIABLES
    rm,         \* the RemoteMachines in the API server
    rmCache,    \* the RemoteMachines in the informer cache
    pool,       \* status of the pooled machines: the RemoteMachine they are reserved for
    poolCache,  \* the same in the informer cache
    behind,     \* pooled machines whose cached resourceVersion is old
    host,       \* whose k0s runs on the machine itself
    pc,         \* per RemoteMachine: where its Reconcile is
    mem,        \* per RemoteMachine: what its Reconcile holds
    budget      \* disturbances still to come

vars == <<rm, rmCache, pool, poolCache, behind, host, pc, mem, budget>>

(* pid is that spec.providerID is set, cond that the condition               *)
(* BootstrapExecSucceeded is True.                                           *)
Object == [phase : {"none", "live", "deleting", "gone"}, fin : BOOLEAN,
           addr : Pooled \cup {None}, pid : BOOLEAN, cond : BOOLEAN, provisioned : BOOLEAN]

(* read is the object as Reconcile read it, addr, pid and cond the values it *)
(* is going to write, want the machine it is about to reserve and valid that *)
(* the Update will find the resourceVersion unchanged.                       *)
Memory == [read : Object, addr : Pooled \cup {None}, pid : BOOLEAN, cond : BOOLEAN,
           want : Pooled \cup {None}, valid : BOOLEAN, dropFin : BOOLEAN]

NewObject == [phase |-> "none", fin |-> FALSE, addr |-> None, pid |-> FALSE, cond |-> FALSE,
              provisioned |-> FALSE]

Loaded(o) == [read |-> o, addr |-> o.addr, pid |-> o.pid, cond |-> o.cond,
              want |-> None, valid |-> FALSE, dropFin |-> FALSE]

Init ==
    /\ rm = [r \in RM |-> NewObject]
    /\ rmCache = rm
    /\ pool = [p \in Pooled |-> NoRM]
    /\ poolCache = pool
    /\ behind = {}
    /\ host = [p \in Pooled |-> NoRM]
    /\ pc = [r \in RM |-> "idle"]
    /\ mem = [r \in RM |-> Loaded(NewObject)]
    /\ budget = MaxDisturbances

Disturb(kind) ==
    /\ kind \in Disturbance
    /\ budget > 0
    /\ budget' = budget - 1

Goto(r, label) == pc' = [pc EXCEPT ![r] = label]

objects == <<rm, rmCache>>
pools == <<pool, poolCache, behind>>

----------------------------------------------------------------------------
(* Reconcile of the RemoteMachine r.                                         *)

(* Early returns and failed calls end in the deferred patch.                 *)
ReturnError(r, kind) ==
    /\ Disturb(kind)
    /\ Goto(r, "patch")
    /\ UNCHANGED <<objects, pools, host, mem>>

EnsureFinalizer(r) ==
    /\ pc[r] = "idle"
    /\ rmCache[r].phase = "live" /\ ~rmCache[r].fin
    /\ rm[r].phase = "live" /\ rm' = [rm EXCEPT ![r].fin = TRUE]
    /\ UNCHANGED <<rmCache, pools, host, pc, mem, budget>>

(* Mutant: only a machine that was provisioned is cleaned up.                *)
AfterStart_ProvisionedOnly(o) ==
    CASE o.phase = "live" -> "reserve"
      [] o.phase = "deleting" /\ o.provisioned -> "cleanup"
      [] OTHER -> "return"

(* A live object goes through the reservation every time.  A deletion needs  *)
(* the SSH key, whose name comes with the address.                           *)
AfterStart(o) ==
    CASE o.phase = "live" -> "reserve"
      [] o.phase = "deleting" /\ o.addr # None -> "cleanup"
      [] OTHER -> "patch"

StartReconcile(r) ==
    /\ pc[r] = "idle"
    /\ rmCache[r].phase = "deleting" \/ (rmCache[r].phase = "live" /\ rmCache[r].fin)
    /\ IF rmCache[r] = rm[r] THEN UNCHANGED budget ELSE Disturb("staleRead")
    /\ mem' = [mem EXCEPT ![r] = Loaded(rmCache[r])]
    /\ Goto(r, AfterStart(rmCache[r]))
    /\ UNCHANGED <<objects, pools, host>>

(* Mutant: the machine that is reserved already is not looked for.           *)
Mine_Never(r, view) == {}

(* reservePooledMachineAndPopulateRemoteMachine: the pooled machine that is  *)
(* reserved for r already, else the first free one, as the cache has them.   *)
Mine(r, view) == {p \in Pooled : view[p] = r}
Free(view) == {p \in Pooled : view[p] = NoRM}

FirstOf(S) == CHOOSE p \in S : \A q \in S : p <= q

(* With the machine at p: a provisioned RemoteMachine, or one that has its   *)
(* ProviderID, needs nothing more; the former gets its condition again.      *)
Populated(m, p) == [m EXCEPT !.addr = p, !.cond = @ \/ m.read.provisioned]

(* Mutant: a machine with an address counts as provisioned.                  *)
AfterReserve_Address(m) == IF m.read.addr # None THEN "patch" ELSE "provision"

AfterReserve(m) == IF m.read.provisioned \/ m.read.pid THEN "patch" ELSE "provision"

FindReserved(r) ==
    /\ pc[r] = "reserve"
    /\ Mine(r, poolCache) # {}
    /\ mem' = [mem EXCEPT ![r] = Populated(@, FirstOf(Mine(r, poolCache)))]
    /\ Goto(r, AfterReserve(mem[r]))
    /\ UNCHANGED <<objects, pools, host, budget>>

PickFree(r) ==
    /\ pc[r] = "reserve"
    /\ Mine(r, poolCache) = {} /\ Free(poolCache) # {}
    /\ IF poolCache = pool THEN UNCHANGED budget ELSE Disturb("staleList")
    /\ LET p == FirstOf(Free(poolCache)) IN
       mem' = [mem EXCEPT ![r] = [@ EXCEPT !.want = p, !.valid = p \notin behind]]
    /\ Goto(r, "update")
    /\ UNCHANGED <<objects, pools, host>>

(* ErrPooledMachineNotFound.                                                 *)
NoFreeMachine(r) ==
    /\ pc[r] = "reserve"
    /\ Mine(r, poolCache) = {} /\ Free(poolCache) = {}
    /\ Goto(r, "patch")
    /\ UNCHANGED <<objects, pools, host, mem, budget>>

(* A write to the pooled machine p: every copy read before is out of date.   *)
Outdated(p, m) == [q \in RM |-> IF m[q].want = p THEN [m[q] EXCEPT !.valid = FALSE] ELSE m[q]]

WritePool(p, r) ==
    /\ pool' = [pool EXCEPT ![p] = r]
    /\ behind' = behind \cup {p}
    /\ UNCHANGED poolCache

(* Mutant: the Update is made without the resourceVersion.                   *)
CanUpdate_Always(r) == TRUE

CanUpdate(r) == mem[r].valid

Reserve(r) ==
    /\ pc[r] = "update"
    /\ CanUpdate(r)
    /\ WritePool(mem[r].want, r)
    /\ mem' = Outdated(mem[r].want, [mem EXCEPT ![r] = Populated(@, @.want)])
    /\ Goto(r, AfterReserve(mem[r]))
    /\ UNCHANGED <<objects, host, budget>>

Conflict(r) ==
    /\ pc[r] = "update"
    /\ ~CanUpdate(r)
    /\ Goto(r, "patch")
    /\ UNCHANGED <<objects, pools, host, mem, budget>>

(* Listing the pool, an Update, or reading the SSH key fails.                *)
CallFails(r) ==
    /\ pc[r] \in {"reserve", "update", "provision", "cleanup", "return"}
    /\ ReturnError(r, "apiError")

(* SSHProvisioner.Provision: upload the files, run the commands, look for    *)
(* the sentinel.  A failure may come after k0s was installed.                *)
Provision(r) ==
    /\ pc[r] = "provision"
    /\ host' = [host EXCEPT ![mem[r].addr] = r]
    /\ mem' = [mem EXCEPT ![r] = [@ EXCEPT !.cond = TRUE, !.pid = TRUE]]
    /\ Goto(r, "patch")
    /\ UNCHANGED <<objects, pools, budget>>

ProvisionFails(r) ==
    /\ pc[r] = "provision"
    /\ Disturb("provisionFails")
    /\ \E h \in {host[mem[r].addr], r} : host' = [host EXCEPT ![mem[r].addr] = h]
    /\ mem' = [mem EXCEPT ![r].cond = FALSE]
    /\ Goto(r, "patch")
    /\ UNCHANGED <<objects, pools>>

(* A command that never returns.  The goroutine that watches for a deletion  *)
(* cancels a context that SSHProvisioner does not use.                       *)
Hang(r) ==
    /\ pc[r] = "provision"
    /\ Disturb("hang")
    /\ Goto(r, "hung")
    /\ UNCHANGED <<objects, pools, host, mem>>

(* Deletion: SSHProvisioner.Cleanup resets k0s on the machine; its error is  *)
(* only logged.                                                              *)
Cleanup(r) ==
    /\ pc[r] = "cleanup"
    /\ host' = [host EXCEPT ![mem[r].addr] = NoRM]
    /\ Goto(r, "return")
    /\ UNCHANGED <<objects, pools, mem, budget>>

CleanupFails(r) ==
    /\ pc[r] = "cleanup"
    /\ Disturb("cleanupFails")
    /\ Goto(r, "return")
    /\ UNCHANGED <<objects, pools, host, mem>>

(* Mutant: the machine stays reserved.                                       *)
ReturnTo_Nobody(p, r) == WritePool(p, r)

ReturnTo(p, r) == WritePool(p, NoRM)

(* returnMachineToPool, from the cached list.                                *)
ReturnMachineToPool(r) ==
    /\ pc[r] = "return"
    /\ \E p \in Mine(r, poolCache) \ behind :
          /\ ReturnTo(p, r)
          /\ mem' = Outdated(p, [mem EXCEPT ![r].dropFin = TRUE])
    /\ Goto(r, "patch")
    /\ UNCHANGED <<objects, host, budget>>

ReturnConflict(r) ==
    /\ pc[r] = "return"
    /\ Mine(r, poolCache) \cap behind # {}
    /\ Goto(r, "patch")
    /\ UNCHANGED <<objects, pools, host, mem, budget>>

(* Mutant: a machine that is not found in the pool is an error.              *)
NothingToReturn_Error(r) ==
    /\ pc[r] = "return"
    /\ Mine(r, poolCache) = {}
    /\ Goto(r, "patch")
    /\ UNCHANGED <<objects, pools, host, mem, budget>>

(* With no machine found there the finalizer goes as well.                   *)
NothingToReturn(r) ==
    /\ pc[r] = "return"
    /\ Mine(r, poolCache) = {}
    /\ IF poolCache = pool THEN UNCHANGED budget ELSE Disturb("staleList")
    /\ mem' = [mem EXCEPT ![r].dropFin = TRUE]
    /\ Goto(r, "patch")
    /\ UNCHANGED <<objects, pools, host>>

(* The deferred patch sends what differs from the object that was read, in   *)
(* three calls.  A call that fails does not keep the next one from being     *)
(* made.                                                                     *)
Changed(old, new, current) == IF new # old THEN new ELSE current

PatchedConditions(o, m) == [o EXCEPT !.cond = Changed(m.read.cond, m.cond, @)]

PatchedSpec(o, m) ==
    [o EXCEPT !.addr = Changed(m.read.addr, m.addr, @),
              !.pid = Changed(m.read.pid, m.pid, @),
              !.fin = @ /\ ~m.dropFin,
              !.phase = IF m.dropFin /\ @ = "deleting" THEN "gone" ELSE @]

(* updateStatus: Provisioned once the condition is True.                     *)
PatchedStatus(o, m) == [o EXCEPT !.provisioned = @ \/ m.cond]

PatchCall(r, label, next, after) ==
    /\ pc[r] = label
    /\ rm' = [rm EXCEPT ![r] = IF @.phase = "gone" THEN @ ELSE after]
    /\ Goto(r, next)
    /\ mem' = IF next = "idle" THEN [mem EXCEPT ![r] = Loaded(NewObject)] ELSE mem
    /\ UNCHANGED <<rmCache, pools, host, budget>>

PatchConditions(r) == PatchCall(r, "patch", "patchSpec", PatchedConditions(rm[r], mem[r]))
PatchSpec(r) == PatchCall(r, "patchSpec", "patchStatus", PatchedSpec(rm[r], mem[r]))
PatchStatus(r) == PatchCall(r, "patchStatus", "idle", PatchedStatus(rm[r], mem[r]))

PatchFails(r) ==
    /\ Disturb("apiError")
    /\ \/ pc[r] = "patch" /\ Goto(r, "patchSpec") /\ UNCHANGED mem
       \/ pc[r] = "patchSpec" /\ Goto(r, "patchStatus") /\ UNCHANGED mem
       \/ pc[r] = "patchStatus" /\ Goto(r, "idle")
             /\ mem' = [mem EXCEPT ![r] = Loaded(NewObject)]
    /\ UNCHANGED <<objects, pools, host>>

----------------------------------------------------------------------------
(* The environment.                                                          *)

(* The controller restarts: every Reconcile is lost.                         *)
Crash ==
    /\ \E r \in RM : pc[r] # "idle"
    /\ Disturb("crash")
    /\ pc' = [r \in RM |-> "idle"]
    /\ mem' = [r \in RM |-> Loaded(NewObject)]
    /\ UNCHANGED <<objects, pools, host>>

SyncRM(r) ==
    /\ rmCache[r] # rm[r]
    /\ rmCache' = [rmCache EXCEPT ![r] = rm[r]]
    /\ UNCHANGED <<rm, pools, host, pc, mem, budget>>

SyncPool ==
    /\ poolCache # pool \/ behind # {}
    /\ poolCache' = pool
    /\ behind' = {}
    /\ UNCHANGED <<objects, pool, host, pc, mem, budget>>

(* Cluster API creates the RemoteMachine and, once the bootstrap data is     *)
(* there, the controller may work on it; it deletes it with the Machine.     *)
Create(r) ==
    /\ rm[r].phase = "none"
    /\ rm' = [rm EXCEPT ![r].phase = "live"]
    /\ UNCHANGED <<rmCache, pools, host, pc, mem, budget>>

Delete(r) ==
    /\ rm[r].phase = "live"
    /\ Disturb("delete")
    /\ rm' = [rm EXCEPT ![r].phase = IF rm[r].fin THEN "deleting" ELSE "gone"]
    /\ UNCHANGED <<rmCache, pools, host, pc, mem>>

----------------------------------------------------------------------------
Reconcile(r) ==
    \/ EnsureFinalizer(r) \/ StartReconcile(r)
    \/ FindReserved(r) \/ PickFree(r) \/ NoFreeMachine(r) \/ Reserve(r) \/ Conflict(r)
    \/ Provision(r) \/ Cleanup(r)
    \/ ReturnMachineToPool(r) \/ ReturnConflict(r) \/ NothingToReturn(r)
    \/ PatchConditions(r) \/ PatchSpec(r) \/ PatchStatus(r)

Failure(r) ==
    \/ CallFails(r) \/ ProvisionFails(r) \/ Hang(r) \/ CleanupFails(r) \/ PatchFails(r)

Environment ==
    \/ Crash \/ SyncPool
    \/ \E r \in RM : SyncRM(r) \/ Create(r) \/ Delete(r)

Next == (\E r \in RM : Reconcile(r) \/ Failure(r)) \/ Environment

Spec == Init /\ [][Next]_vars

(* A RemoteMachine is reconciled again after an error or an event, and the   *)
(* informers deliver.                                                        *)
Fairness ==
    /\ WF_vars(SyncPool)
    /\ \A r \in RM : WF_vars(Reconcile(r)) /\ WF_vars(SyncRM(r))

FairSpec == Spec /\ Fairness

TypeOK ==
    /\ rm \in [RM -> Object] /\ rmCache \in [RM -> Object]
    /\ pool \in [Pooled -> RM \cup {NoRM}] /\ poolCache \in [Pooled -> RM \cup {NoRM}]
    /\ behind \subseteq Pooled
    /\ host \in [Pooled -> RM \cup {NoRM}]
    /\ pc \in [RM -> {"idle", "reserve", "update", "provision", "hung", "cleanup", "return",
                      "patch", "patchSpec", "patchStatus"}]
    /\ mem \in [RM -> Memory]
    /\ budget \in 0..MaxDisturbances

----------------------------------------------------------------------------
(* Properties.                                                               *)

(* The address in a live RemoteMachine is that of a machine reserved for it, *)
(* so two RemoteMachines never use the same machine                          *)
(* (reservePooledMachineAndPopulateRemoteMachine).                           *)
AddressIsReserved ==
    \A r \in RM : rm[r].phase = "live" /\ rm[r].addr # None => pool[rm[r].addr] = r

(* A machine whose RemoteMachine is gone is back in the pool                 *)
(* (returnMachineToPool).                                                    *)
NoLeak == \A r \in RM : rm[r].phase = "gone" => \A p \in Pooled : pool[p] # r

Lives == [r \in RM |-> rm[r].phase]
Asking == {r \in RM : pc[r] \in {"reserve", "update"}}

Lease == INSTANCE MachineLease WITH
             Client <- RM, Nobody <- NoRM, Machine <- Pooled,
             life <- Lives, lease <- pool, asking <- Asking

(* The controller implements the lease: a machine is reserved for one live   *)
(* RemoteMachine that has no other, stays reserved until the RemoteMachine   *)
(* is being deleted and no reservation is under way, and a RemoteMachine     *)
(* goes away without a machine (reservePooledMachineAndPopulateRemoteMachine *)
(* and returnMachineToPool, when caches are up to date where they are read). *)
Leased == Lease!Spec

(* A deletion resets only a machine that is still reserved for the           *)
(* RemoteMachine that is deleted, never the one of somebody else (Cleanup).  *)
CleanupOwnMachine == [][\A r \in RM : Cleanup(r) => pool[mem[r].addr] \in {r, NoRM}]_vars

(* A machine is handed out only after the k0s of its previous RemoteMachine  *)
(* was removed (Cleanup before returnMachineToPool).                         *)
CleanHandover == [][\A r \in RM : Provision(r) => host[mem[r].addr] \in {r, NoRM}]_vars

(* In the end every RemoteMachine is reported as provisioned (Reconcile,     *)
(* updateStatus), unless the script on the machine hangs or the patch of the *)
(* conditions failed and that of the ProviderID, after which Reconcile has   *)
(* nothing left to do, did not.  The pool has a machine for each of them.    *)
EventuallyProvisioned ==
    <>[](\A r \in RM : rm[r].phase = "live" =>
            rm[r].provisioned \/ pc[r] = "hung" \/ (rm[r].pid /\ ~rm[r].cond))

(* Once the ProviderID of a RemoteMachine is set its status says that it is  *)
(* provisioned, whatever happens to the deferred patch (updateStatus).       *)
StatusFollows == \A r \in RM : rm[r].pid ~> (rm[r].provisioned \/ rm[r].phase # "live")

(* A deleted RemoteMachine that had its address goes away, unless the script *)
(* on its machine hangs (reconcileDelete).                                   *)
PopulatedDeletionEnds ==
    <>[](\A r \in RM : rm[r].phase = "deleting" /\ rm[r].addr # None => pc[r] = "hung")
=============================================================================
