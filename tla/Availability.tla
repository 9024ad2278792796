---------------------------- MODULE Availability ----------------------------
(***************************************************************************)
(* How a control plane comes to be reported as available or not: each      *)
(* Reconcile ends by reading the kube-system namespace of the workload     *)
(* cluster (computeAvailability) and sets the Available condition from the *)
(* outcome.  A failed read is held back for a grace period, which is       *)
(* counted from an anchor in the memory of the manager or, after a         *)
(* restart, from the time in the condition that was persisted.  The        *)
(* object is patched in two calls, the conditions and the rest of the      *)
(* status.                                                                 *)
(*                                                                         *)
(* Times are ages in ticks, counted up to the grace period and no further: *)
(* the code only ever asks whether a time is that far back.                *)
(***************************************************************************)
EXTENDS Naturals

CONSTANTS
    Grace,              \* availabilityGracePeriod, in ticks of the clock
    Threshold,          \* availabilityFailureThreshold
    Uid,                \* the objects that carry the name, one after the other
    FirstUid,
    Disturbance,        \* kinds of disturbances that may happen
    MaxDisturbances     \* how many of them

ASSUME GraceAssumption == Grace \in Nat \ {0}
ASSUME ThresholdAssumption == Threshold \in Nat \ {0}
ASSUME UidAssumption == FirstUid \in Uid
ASSUME DisturbancesAssumption == MaxDisturbances \in Nat

VARIABLES
    flavour,    \* how the workload cluster is reached
    kcp,        \* the control plane object
    old,        \* the object before the last write, as a lagging cache has it
    failures,   \* availabilityFailures, for each UID
    api,        \* whether the workload API serves reads
    link,       \* the connection of the cluster cache
    wake,       \* a Reconcile is scheduled
    pc, scope,  \* the Reconcile that runs
    quiet,      \* history: time since the API was last recorded as readable
    lagged,     \* history: a Reconcile has started from an outdated object
    budget

vars == <<flavour, kcp, old, failures, api, link, wake, pc, scope, quiet, lagged, budget>>

(* "k0s" is a K0sControlPlane read through the cluster cache, "tunneled" one *)
(* read through its own tunnel, "hosted" a K0smotronControlPlane.            *)
Flavour == {"k0s", "tunneled", "hosted"}

(* Three of the reasons belong to the status Unknown.                        *)
Condition == {"none", "NotCreated", "NotReached", "ConnectionDown", "False", "True"}

StatusOf(c) == IF c \in {"NotCreated", "NotReached", "ConnectionDown"} THEN "Unknown" ELSE c

(* age is that of the LastTransitionTime, own that it is later than the      *)
(* creation of the object, latch status.initialization.controlPlaneInitialized. *)
Object == [uid : Uid, cond : Condition, age : 0..Grace, own : BOOLEAN, latch : BOOLEAN]

(* A K0smotronControlPlane has a condition of 1970 by default.               *)
NewObject(f) ==
    [uid |-> FirstUid, cond |-> IF f = "hosted" THEN "NotCreated" ELSE "none",
     age |-> Grace, own |-> FALSE, latch |-> FALSE]

(* seen = 0 stands for no entry in the map.                                  *)
Failures == [since : 0..Grace, seen : 0..Threshold]

NoFailures == [since |-> 0, seen |-> 0]

(* read is the object as Reconcile read it, new as it is to be, contact that *)
(* the API was read.                                                         *)
Scope == [read : Object, new : Object, contact : BOOLEAN, err : BOOLEAN]

NoScope ==
    [read |-> NewObject("k0s"), new |-> NewObject("k0s"), contact |-> FALSE, err |-> FALSE]

Capped(n, max) == IF n < max THEN n ELSE max

Disturb(kind) ==
    /\ kind \in Disturbance
    /\ budget > 0
    /\ budget' = budget - 1

Init ==
    /\ flavour \in Flavour
    /\ kcp = NewObject(flavour)
    /\ old = kcp
    /\ failures = [u \in Uid |-> NoFailures]
    /\ api = "down"
    /\ link = "connecting"
    /\ wake = TRUE
    /\ pc = "idle"
    /\ scope = NoScope
    /\ quiet = Grace
    /\ lagged = FALSE
    /\ budget = MaxDisturbances

(* What a lagging cache may still answer after a write.                      *)
Remember == IF "staleRead" \in Disturbance THEN kcp ELSE old

----------------------------------------------------------------------------
(* Reconcile.                                                                *)

Load(o) == scope' = [NoScope EXCEPT !.read = o]

(* The event of the write that the cache has not seen yet is still to come.  *)
StartReconcile ==
    /\ pc = "idle"
    /\ wake
    /\ \/ Load(kcp) /\ wake' = FALSE /\ UNCHANGED <<lagged, budget>>
       \/ old # kcp /\ Load(old) /\ wake' = TRUE /\ Disturb("staleRead") /\ lagged' = TRUE
    /\ pc' = "look"
    /\ UNCHANGED <<flavour, kcp, old, failures, api, link, quiet>>

(* conditions.Set: the time changes with the status and only with it.        *)
SetCondition(o, c) ==
    IF StatusOf(o.cond) = StatusOf(c)
    THEN [o EXCEPT !.cond = c]
    ELSE [o EXCEPT !.cond = c, !.age = 0, !.own = TRUE]

(* GetControllerRuntimeClient and the read of kube-system.                   *)
Readable == api = "up" /\ (flavour = "tunneled" \/ link = "connected")

(* clusterCacheConnectionDown: a cache that is still connecting is given     *)
(* time, for a K0sControlPlane only.                                         *)
Undecided == flavour = "k0s" /\ link = "connecting"

(* Before the API was ever reached the condition says so up front.           *)
Assumed(o) == IF o.latch THEN o ELSE SetCondition(o, "NotReached")

(* Mutant: the first contact does not mark the control plane initialized.    *)
LookSucceeds_NoLatch ==
    /\ pc = "look"
    /\ Readable
    /\ failures' = [failures EXCEPT ![scope.read.uid] = NoFailures]
    /\ scope' = [scope EXCEPT !.new = SetCondition(Assumed(scope.read), "True"),
                              !.contact = TRUE]
    /\ pc' = "patch"
    /\ UNCHANGED <<flavour, kcp, old, api, link, wake, quiet, lagged, budget>>

LookSucceeds ==
    /\ pc = "look"
    /\ Readable
    /\ failures' = [failures EXCEPT ![scope.read.uid] = NoFailures]
    /\ scope' = [scope EXCEPT
           !.new = [SetCondition(Assumed(scope.read), "True") EXCEPT !.latch = TRUE],
           !.contact = TRUE]
    /\ pc' = "patch"
    /\ UNCHANGED <<flavour, kcp, old, api, link, wake, quiet, lagged, budget>>

(* A failure that is not counted: before the first contact, and while the    *)
(* cache has not made up its mind.                                           *)
LookKeeps ==
    /\ pc = "look"
    /\ ~Readable
    /\ ~scope.read.latch \/ Undecided
    /\ scope' = [scope EXCEPT !.new = Assumed(scope.read)]
    /\ pc' = "patch"
    /\ UNCHANGED <<flavour, kcp, old, failures, api, link, wake, quiet, lagged, budget>>

(* Mutant: an outage recorded for an earlier object counts.                  *)
NextFailures_AnyAnchor(f, o) ==
    IF f.seen > 0
    THEN [f EXCEPT !.seen = Capped(f.seen + 1, Threshold)]
    ELSE [since |-> IF o.cond = "ConnectionDown" THEN o.age ELSE 0, seen |-> 1]

(* setUnavailableAfterGracePeriod: the anchor is the one in memory, else the *)
(* one persisted by an outage of this object, else now.                      *)
NextFailures(f, o) ==
    IF f.seen > 0
    THEN [f EXCEPT !.seen = Capped(f.seen + 1, Threshold)]
    ELSE [since |-> IF o.cond = "ConnectionDown" /\ o.own THEN o.age ELSE 0, seen |-> 1]

availabilityCondition(existing, f) ==
    IF existing = "False" \/ (f.seen >= Threshold /\ f.since >= Grace)
    THEN "False"
    ELSE "ConnectionDown"

LookFails ==
    /\ pc = "look"
    /\ ~Readable
    /\ scope.read.latch
    /\ ~Undecided
    /\ LET f == NextFailures(failures[scope.read.uid], scope.read)
       IN  /\ failures' = [failures EXCEPT ![scope.read.uid] = f]
           /\ scope' = [scope EXCEPT
                  !.new = SetCondition(scope.read, availabilityCondition(scope.read.cond, f))]
    /\ pc' = "patch"
    /\ UNCHANGED <<flavour, kcp, old, api, link, wake, quiet, lagged, budget>>

(* The patch of the conditions: what differs from the object that was read,  *)
(* refused when somebody else changed it meanwhile.  A write is an event.    *)
Conflict == scope.new.cond # scope.read.cond /\ kcp.cond \notin {scope.read.cond, scope.new.cond}

PatchedConditions ==
    IF scope.new.cond = scope.read.cond \/ Conflict
    THEN kcp
    ELSE [kcp EXCEPT !.cond = scope.new.cond, !.age = scope.new.age, !.own = scope.new.own]

PatchConditions ==
    /\ pc = "patch"
    /\ kcp' = PatchedConditions
    /\ old' = IF kcp' = kcp THEN old ELSE Remember
    /\ scope' = [scope EXCEPT !.err = Conflict]
    /\ quiet' = IF scope.contact /\ ~Conflict THEN 0 ELSE quiet
    /\ wake' = (wake \/ kcp' # kcp)
    /\ pc' = "patchStatus"
    /\ UNCHANGED <<flavour, failures, api, link, lagged, budget>>

(* Mutant: only an error calls for another look.                             *)
Requeue_OnlyErrors(err) == wake \/ err

(* requeueResult and computeStatus: a K0sControlPlane is always looked at    *)
(* again, a K0smotronControlPlane after an error and while it is not         *)
(* available.                                                                *)
Requeue(err) == wake \/ flavour # "hosted" \/ err \/ scope.new.cond # "True"

Finish(err) ==
    /\ pc' = "idle"
    /\ scope' = NoScope
    /\ wake' = (Requeue(err) \/ kcp' # kcp)

PatchStatus ==
    /\ pc = "patchStatus"
    /\ kcp' = [kcp EXCEPT !.latch = @ \/ scope.new.latch]
    /\ old' = IF kcp' = kcp THEN old ELSE Remember
    /\ Finish(scope.err)
    /\ UNCHANGED <<flavour, failures, api, link, quiet, lagged, budget>>

(* A call that fails does not keep the next one from being made.             *)
PatchFails ==
    /\ UNCHANGED kcp
    /\ Disturb("apiError")
    /\ \/ pc = "patch" /\ pc' = "patchStatus" /\ scope' = [scope EXCEPT !.err = TRUE]
             /\ UNCHANGED wake
       \/ pc = "patchStatus" /\ Finish(TRUE)
    /\ UNCHANGED <<flavour, old, failures, api, link, quiet, lagged>>

----------------------------------------------------------------------------
(* The environment.                                                          *)

(* The manager restarts: its memory is empty and its cache not connected.    *)
Crash ==
    /\ Disturb("crash")
    /\ failures' = [u \in Uid |-> NoFailures]
    /\ link' = "connecting"
    /\ wake' = TRUE
    /\ pc' = "idle"
    /\ scope' = NoScope
    /\ UNCHANGED <<flavour, kcp, old, api, quiet, lagged>>

(* The object is created again, with the status it had: the cluster is moved *)
(* or restored from a backup, while it is paused.                            *)
Restore ==
    /\ pc = "idle"
    /\ Disturb("restore")
    /\ \E u \in Uid :
          /\ u # kcp.uid
          /\ failures[u].seen = 0
          /\ kcp' = [kcp EXCEPT !.uid = u, !.own = FALSE]
          /\ old' = kcp'
    /\ wake' = TRUE
    /\ quiet' = 0
    /\ UNCHANGED <<flavour, failures, api, link, pc, scope, lagged>>

ApiGoes(state) ==
    /\ api' = state
    /\ UNCHANGED <<flavour, kcp, old, failures, link, wake, pc, scope, quiet, lagged, budget>>

ApiUp == api = "down" /\ ApiGoes("up")
ApiDown == api = "up" /\ ApiGoes("down")

(* The cluster cache probes the API and reconnects; connecting and           *)
(* disconnecting are events.  A server whose storage is broken may go on     *)
(* answering the probe.  A tunneled control plane is read past the cache.    *)
LinkGoes(state, event) ==
    /\ flavour # "tunneled"
    /\ link' = state
    /\ wake' = (wake \/ event)
    /\ UNCHANGED <<flavour, kcp, old, failures, api, pc, scope, quiet, lagged>>

Connect == link # "connected" /\ api = "up" /\ LinkGoes("connected", TRUE) /\ UNCHANGED budget

Disconnect ==
    /\ link = "connected"
    /\ \/ api = "down" /\ UNCHANGED budget
       \/ api = "up" /\ Disturb("disconnect")
    /\ LinkGoes("connecting", TRUE)

GiveUp ==
    /\ link = "connecting"
    /\ api = "down"
    /\ LinkGoes("down", FALSE)
    /\ UNCHANGED budget

Older(o) == [o EXCEPT !.age = Capped(@ + 1, Grace)]

Tick ==
    /\ kcp' = Older(kcp)
    /\ old' = Older(old)
    /\ failures' = [u \in Uid |-> [failures[u] EXCEPT
                       !.since = IF failures[u].seen = 0 THEN 0 ELSE Capped(@ + 1, Grace)]]
    /\ scope' = IF pc = "idle" THEN scope
                ELSE [scope EXCEPT !.read = Older(@), !.new = Older(@)]
    /\ quiet' = Capped(quiet + 1, Grace)
    /\ UNCHANGED <<flavour, api, link, wake, pc, lagged, budget>>

----------------------------------------------------------------------------
Reconcile ==
    \/ StartReconcile \/ LookSucceeds \/ LookKeeps \/ LookFails
    \/ PatchConditions \/ PatchStatus

Environment ==
    \/ PatchFails \/ Crash \/ Restore \/ ApiUp \/ ApiDown
    \/ Connect \/ Disconnect \/ GiveUp \/ Tick

Next == Reconcile \/ Environment

Spec == Init /\ [][Next]_vars

(* Reconciles that are scheduled run, time passes, and the cluster cache     *)
(* keeps trying.                                                             *)
Fairness == WF_vars(Reconcile) /\ WF_vars(Tick) /\ WF_vars(Connect \/ GiveUp)

FairSpec == Spec /\ Fairness

TypeOK ==
    /\ flavour \in Flavour
    /\ kcp \in Object /\ old \in Object
    /\ failures \in [Uid -> Failures]
    /\ api \in {"up", "down"}
    /\ link \in {"connected", "connecting", "down"}
    /\ wake \in BOOLEAN
    /\ pc \in {"idle", "look", "patch", "patchStatus"}
    /\ scope \in Scope
    /\ quiet \in 0..Grace
    /\ lagged \in BOOLEAN
    /\ budget \in 0..MaxDisturbances

----------------------------------------------------------------------------
(* Properties.                                                               *)

Verdict == IF kcp.cond \in {"True", "False"} THEN kcp.cond ELSE "Unknown"

Health == INSTANCE DebouncedHealth WITH
              verdict <- Verdict, quiet <- quiet, looks <- failures[kcp.uid].seen,
              void <- lagged

(* The condition is debounced: it says that the control plane is not         *)
(* available only after as many failed reads in a row as the threshold asks  *)
(* for, by one manager, and a grace period without a recorded contact, and   *)
(* it leaves that state only for a contact, through restarts, failed patches *)
(* and recreated objects (setUnavailableAfterGracePeriod).  The promise ends *)
(* with the first Reconcile that starts from an outdated object.             *)
Debounced == Health!Spec

(* An initialized control plane cannot be reached; a K0smotronControlPlane   *)
(* has to be seen so by the cluster cache.                                   *)
Outage == kcp.latch /\ api = "down" /\ (flavour = "hosted" => link # "connected")

(* An outage that lasts is reported (availabilityRequeueAfter,               *)
(* computeStatus).                                                           *)
OutageReported == []<>(Outage => kcp.cond = "False")

(* A control plane that stays readable is reported as available and          *)
(* initialized (computeAvailability).                                        *)
RecoveryReported == []<>(api = "up" => kcp.cond = "True" /\ kcp.latch)
=============================================================================
