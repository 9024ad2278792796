----------------------------- MODULE JoinTokens -----------------------------
(***************************************************************************)
(* A JoinTokenRequest and its controller: Reconcile creates a token in a   *)
(* pod of the hosted control plane, writes it to a secret and records its  *)
(* ID in the status with the deferred patch; a deletion invalidates the    *)
(* token that is on record.  The token exists in the workload cluster from *)
(* the moment it is created, whatever becomes of the steps after that.     *)
(***************************************************************************)
EXTENDS Naturals, FiniteSets

CONSTANTS
    TokenID,            \* the IDs of the tokens k0s may create
    NoToken,
    Fault,              \* kinds of faults that may happen
    MaxFaults           \* how many of them

VARIABLES
    request,    \* the JoinTokenRequest
    oldRequest, \* the same before the last write, as a lagging cache has it
    secret,     \* the token in the secret
    issued,     \* the IDs of the tokens created so far
    valid,      \* those of the tokens the workload cluster accepts
    cluster,    \* the hosted control plane
    step, task, \* the Reconcile that runs
    faults      \* how many faults may still happen

requestObjects == <<request, oldRequest, secret>>
tokenVars == <<issued, valid>>
requestVars == <<request, oldRequest, secret, issued, valid, cluster, step, task, faults>>

(* legacy: made through v1beta1, where it may live in another namespace than *)
(* the cluster.  tied: it has the owner reference or, if it is legacy, the   *)
(* label by which it is deleted with the cluster.                            *)
Request == [phase : {"live", "deleting", "gone"}, legacy : BOOLEAN, fin : BOOLEAN,
            tied : BOOLEAN, created : BOOLEAN, tokenID : TokenID \cup {NoToken}]

NewRequest(l) == [phase |-> "live", legacy |-> l, fin |-> FALSE, tied |-> FALSE,
                  created |-> FALSE, tokenID |-> NoToken]

(* A token is its ID and a secret.                                           *)
Token(id) == <<id, "secret">>

getTokenID(token) == token[1]

TokenAssumption ==
    /\ MaxFaults \in Nat
    /\ NoToken \notin TokenID
    /\ \A id \in TokenID : Token(id) # NoToken

ASSUME ConstantsFit == TokenAssumption

(* read is the request as it was read; the others are what the Reconcile has *)
(* in memory: the token it created, the ID it is to record, whether it is    *)
(* tied, and the condition JoinTokenSecretCreated.                           *)
Task == [read : Request, token : {Token(id) : id \in TokenID} \cup {NoToken},
         tokenID : TokenID \cup {NoToken}, tied : BOOLEAN, created : BOOLEAN]

Idle == [read |-> NewRequest(FALSE), token |-> NoToken, tokenID |-> NoToken, tied |-> FALSE,
         created |-> FALSE]

Happens(kind) ==
    /\ kind \in Fault
    /\ faults > 0
    /\ faults' = faults - 1

RequestInit ==
    /\ request \in {NewRequest(l) : l \in BOOLEAN}
    /\ oldRequest = request
    /\ secret = NoToken
    /\ issued = {}
    /\ valid = {}
    /\ cluster \in {"up", "restarting", "gone"}
    /\ step = "idle"
    /\ task = Idle
    /\ faults = MaxFaults

Write(r) == request' = r /\ oldRequest' = IF r = request THEN oldRequest ELSE request

----------------------------------------------------------------------------
(* Reconcile.                                                                *)

EnsureRequestFinalizer ==
    /\ step = "idle"
    /\ request.phase = "live"
    /\ ~request.fin
    /\ Write([request EXCEPT !.fin = TRUE])
    /\ UNCHANGED <<secret, issued, valid, cluster, step, task, faults>>

Read(r) ==
    /\ r.fin
    /\ r.phase \in {"live", "deleting"}
    /\ task' = [Idle EXCEPT !.read = r]
    /\ step' = IF r.phase = "live" /\ ~r.legacy THEN "owner" ELSE "pod"

StartReconcile ==
    /\ step = "idle"
    /\ request.phase # "gone"
    /\ \/ Read(request) /\ UNCHANGED faults
       \/ oldRequest # request /\ Read(oldRequest) /\ Happens("staleRead")
    /\ UNCHANGED <<requestObjects, tokenVars, cluster>>

(* The deferred updateStatus: an error leaves a failure message.             *)
Report(tied, id) ==
    /\ task' = [task EXCEPT !.tied = tied, !.tokenID = id, !.created = TRUE]
    /\ step' = "patch"

ReportFailure ==
    /\ task' = [task EXCEPT !.created = FALSE]
    /\ step' = "patch"

(* ensureOwnerReference, patched at once; the Reconcile ends there, and the  *)
(* deferred update takes it for a success even if that patch has failed.     *)
EnsureOwner ==
    /\ step = "owner"
    /\ cluster # "gone"
    /\ ~task.read.tied
    /\ \/ Write([request EXCEPT !.tied = TRUE]) /\ UNCHANGED faults
       \/ Happens("apiError") /\ UNCHANGED <<request, oldRequest>>
    /\ Report(TRUE, NoToken)
    /\ UNCHANGED <<secret, tokenVars, cluster>>

HasOwner ==
    /\ step = "owner"
    /\ cluster # "gone"
    /\ task.read.tied
    /\ step' = "pod"
    /\ UNCHANGED <<requestObjects, tokenVars, cluster, task, faults>>

OwnerNotFound ==
    /\ step = "owner"
    /\ \/ cluster = "gone" /\ UNCHANGED faults
       \/ cluster # "gone" /\ Happens("apiError")
    /\ ReportFailure
    /\ UNCHANGED <<requestObjects, tokenVars, cluster>>

AlreadyReconciled(r) == r.tokenID # NoToken

(* FindStatefulSetPod: a running pod of the control plane.                   *)
FindPod ==
    /\ step = "pod"
    /\ task.read.phase = "live"
    /\ cluster = "up"
    /\ \/ AlreadyReconciled(task.read) /\ Report(task.read.tied, NoToken)
       \/ ~AlreadyReconciled(task.read) /\ step' = "create" /\ UNCHANGED task
    /\ UNCHANGED <<requestObjects, tokenVars, cluster, faults>>

NoPod ==
    /\ step = "pod"
    /\ task.read.phase = "live"
    /\ \/ cluster # "up" /\ UNCHANGED faults
       \/ cluster = "up" /\ Happens("apiError")
    /\ ReportFailure
    /\ UNCHANGED <<requestObjects, tokenVars, cluster>>

(* The cluster is read, a legacy request labelled in memory, and the command *)
(* k0s token create runs in the pod.                                         *)
CreateToken ==
    /\ step = "create"
    /\ cluster = "up"
    /\ \E id \in TokenID \ issued :
          /\ issued' = issued \cup {id}
          /\ valid' = valid \cup {id}
          /\ task' = [task EXCEPT !.tied = TRUE, !.token = Token(id)]
    /\ step' = "secret"
    /\ UNCHANGED <<requestObjects, cluster, faults>>

CreateFails ==
    /\ step = "create"
    /\ \/ cluster # "up" /\ UNCHANGED faults
       \/ cluster = "up" /\ Happens("apiError")
    /\ task' = [task EXCEPT !.tied = cluster # "gone"]
    /\ step' = "patch"
    /\ UNCHANGED <<requestObjects, tokenVars, cluster>>

(* updateJoinTokenURL, reconcileSecret, getTokenID.                          *)
WriteSecret ==
    /\ step = "secret"
    /\ secret' = task.token
    /\ Report(TRUE, getTokenID(task.token))
    /\ UNCHANGED <<request, oldRequest, tokenVars, cluster, faults>>

(* Mutant: the ID of the token is recorded before the secret is written.     *)
SecretFailed_Recorded == Report(TRUE, getTokenID(task.token))

SecretFailed == ReportFailure

SecretFails ==
    /\ step = "secret"
    /\ Happens("apiError")
    /\ SecretFailed
    /\ UNCHANGED <<requestObjects, tokenVars, cluster>>

(* The deferred patch: conditions, metadata and status, in separate calls    *)
(* that write what differs from the object as it was read, and whose errors  *)
(* are only logged.                                                          *)
PatchConditions ==
    /\ step = "patch"
    /\ Write([request EXCEPT !.created = IF task.created # task.read.created THEN task.created
                                          ELSE @])
    /\ step' = "patchMeta"
    /\ UNCHANGED <<secret, tokenVars, cluster, task, faults>>

PatchMetadata ==
    /\ step = "patchMeta"
    /\ Write([request EXCEPT !.tied = @ \/ task.tied])
    /\ step' = "patchStatus"
    /\ UNCHANGED <<secret, tokenVars, cluster, task, faults>>

PatchStatus ==
    /\ step = "patchStatus"
    /\ Write([request EXCEPT !.tokenID = IF task.tokenID # NoToken THEN task.tokenID ELSE @])
    /\ step' = "idle"
    /\ task' = Idle
    /\ UNCHANGED <<secret, tokenVars, cluster, faults>>

PatchFails ==
    /\ Happens("apiError")
    /\ \/ step = "patch" /\ step' = "patchMeta" /\ UNCHANGED task
       \/ step = "patchMeta" /\ step' = "patchStatus" /\ UNCHANGED task
       \/ step = "patchStatus" /\ step' = "idle" /\ task' = Idle
    /\ UNCHANGED <<requestObjects, tokenVars, cluster>>

(* Mutant: the pod is not looked for.                                        *)
NothingToInvalidate_Always == TRUE

(* While the request is deleted a control plane without a running pod, or    *)
(* one whose pods cannot be listed, has no token to invalidate.              *)
NothingToInvalidate == cluster # "up"

Return ==
    /\ step' = "idle"
    /\ task' = Idle
    /\ UNCHANGED <<requestObjects, cluster>>

SkipInvalidation ==
    /\ step = "pod"
    /\ task.read.phase = "deleting"
    /\ \/ NothingToInvalidate /\ UNCHANGED faults
       \/ cluster = "up" /\ Happens("apiError")
    /\ step' = "dropFin"
    /\ UNCHANGED <<requestObjects, tokenVars, cluster, task>>

(* k0s token invalidate, with the ID that is on record.                      *)
InvalidateToken ==
    /\ step = "pod"
    /\ task.read.phase = "deleting"
    /\ cluster = "up"
    /\ task.read.tokenID # NoToken
    /\ valid' = valid \ {task.read.tokenID}
    /\ step' = "dropFin"
    /\ UNCHANGED <<requestObjects, issued, cluster, task, faults>>

(* The command wants the ID of a token.                                      *)
InvalidateFails ==
    /\ step = "pod"
    /\ task.read.phase = "deleting"
    /\ cluster = "up"
    /\ \/ task.read.tokenID = NoToken /\ UNCHANGED faults
       \/ task.read.tokenID # NoToken /\ Happens("apiError")
    /\ Return
    /\ UNCHANGED tokenVars

(* Update, which fails if the object has changed since it was read.  The     *)
(* secret is owned by the request.                                           *)
RemoveFinalizer ==
    /\ step = "dropFin"
    /\ request' = IF request = task.read THEN [request EXCEPT !.phase = "gone", !.fin = FALSE]
                  ELSE request
    /\ oldRequest' = request'
    /\ secret' = IF request'.phase = "gone" THEN NoToken ELSE secret
    /\ step' = "idle"
    /\ task' = Idle
    /\ UNCHANGED <<tokenVars, cluster, faults>>

----------------------------------------------------------------------------
(* The environment.                                                          *)

CrashReconcile ==
    /\ step # "idle"
    /\ Happens("crash")
    /\ Return
    /\ UNCHANGED tokenVars

(* Deleting the request or the cluster is no fault: the controller is to     *)
(* cope with it.                                                             *)
DeleteRequest ==
    /\ request.phase = "live"
    /\ Write([request EXCEPT !.phase = IF request.fin THEN "deleting" ELSE "gone"])
    /\ UNCHANGED <<secret, tokenVars, cluster, step, task, faults>>

(* The pods are restarted, or the cluster is deleted and its tokens with it. *)
Restart ==
    /\ cluster = "up"
    /\ Happens("restart")
    /\ cluster' = "restarting"
    /\ UNCHANGED <<requestObjects, tokenVars, step, task>>

Recover ==
    /\ cluster = "restarting"
    /\ cluster' = "up"
    /\ UNCHANGED <<requestObjects, tokenVars, step, task, faults>>

DeleteCluster ==
    /\ cluster # "gone"
    /\ cluster' = "gone"
    /\ valid' = {}
    /\ UNCHANGED <<requestObjects, issued, step, task, faults>>

(* A request that is tied to the cluster is deleted with it.                 *)
Collect ==
    /\ cluster = "gone"
    /\ request.phase = "live"
    /\ request.tied
    /\ Write([request EXCEPT !.phase = "deleting"])
    /\ UNCHANGED <<secret, tokenVars, cluster, step, task, faults>>

----------------------------------------------------------------------------
Reconcile ==
    \/ EnsureRequestFinalizer \/ StartReconcile \/ EnsureOwner \/ HasOwner \/ OwnerNotFound
    \/ FindPod \/ NoPod \/ CreateToken \/ WriteSecret
    \/ PatchConditions \/ PatchMetadata \/ PatchStatus
    \/ SkipInvalidation \/ InvalidateToken \/ RemoveFinalizer

Failure == CreateFails \/ SecretFails \/ PatchFails \/ InvalidateFails \/ CrashReconcile

Environment == DeleteRequest \/ Restart \/ Recover \/ DeleteCluster \/ Collect

RequestNext == Reconcile \/ Failure \/ Environment

RequestSpec == RequestInit /\ [][RequestNext]_requestVars

(* A request is reconciled until there is nothing left to do, after a failed *)
(* patch with the next resync; pods come back, and the garbage collector     *)
(* works.                                                                    *)
RequestFairness == WF_requestVars(Reconcile \/ CreateFails \/ InvalidateFails) /\ WF_requestVars(Recover \/ Collect)

RequestFairSpec == RequestSpec /\ RequestFairness

RequestTypeOK ==
    /\ request \in Request /\ oldRequest \in Request
    /\ secret \in {Token(id) : id \in TokenID} \cup {NoToken}
    /\ valid \subseteq issued /\ issued \subseteq TokenID
    /\ cluster \in {"up", "restarting", "gone"}
    /\ step \in {"idle", "owner", "pod", "create", "secret", "patch", "patchMeta",
                 "patchStatus", "dropFin"}
    /\ task \in Task
    /\ faults \in 0..MaxFaults

----------------------------------------------------------------------------
(* Properties.                                                               *)

(* Tokens nobody can revoke any more: the workload cluster accepts them and  *)
(* neither the request nor the Reconcile that runs knows their ID.           *)
Unknown ==
    {id \in valid : task.token # Token(id) /\ (request.tokenID = id => request.phase = "gone")}

(* Every token that is left behind is the price of a fault: a crash, a       *)
(* failed call, an outdated read or a restart of the control plane.  Without *)
(* one the controller keeps the ID of every token it creates and, whenever   *)
(* the request is deleted, revokes it before the request is gone (Reconcile, *)
(* invalidateToken).                                                         *)
TokensOnRecord == Cardinality(Unknown) <= MaxFaults - faults

Served == request.created /\ request.tokenID # NoToken /\ secret # NoToken
Stuck == request.tokenID = NoToken /\ cluster = "up"

(* However often a step fails, a request ends up with a token on record, a   *)
(* token in its secret and a condition that says so, as long as its cluster  *)
(* lives; and once deleted it goes away, unless it has no token to           *)
(* invalidate while the control plane runs (Reconcile).                      *)
RequestSettles ==
    <>[](/\ request.phase = "live" => Served \/ cluster = "gone"
         /\ request.phase = "deleting" => Stuck)
=============================================================================
