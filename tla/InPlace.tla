------------------------------ MODULE InPlace ------------------------------
(***************************************************************************)
(* In-place updates of the k0s version.  The K0sControlPlane controller    *)
(* has the nodes of its outdated Machines updated by k0s autopilot, which  *)
(* follows the only Plan object of the workload cluster.  Either the       *)
(* controller writes a plan for all of them and a goroutine records the    *)
(* new version on each Machine as its node gets it; or, with the Cluster   *)
(* API extension, it marks one Machine after the other for an update,      *)
(* Cluster API calls the extension for every Machine so marked, and the    *)
(* extension writes a plan for that Machine.  Cluster API marks the        *)
(* Machines of workers by itself, and the extension is called for them too.*)
(*                                                                         *)
(* Machines are numbered, controllers first, in the order of their         *)
(* creation.                                                               *)
(***************************************************************************)
EXTENDS Naturals, FiniteSets, FiniteSetsExt, Functions

CONSTANTS
    NumControllers,   \* control plane Machines; as many as spec.replicas
    NumWorkers,       \* Machines of workers
    MaxVersion,       \* versions are 1..MaxVersion
    MaxEdits,         \* how often the user changes spec.version
    Disturbance,      \* the kinds of disturbance that may happen
    MaxDisturbances   \* how many of them in one behaviour

Disturbances == {"crash", "apiError", "unavailable", "planFails", "deletePlan", "workerPlan", "workerUpdate"}

ASSUME CountAssumption ==
    NumControllers \in Nat \ {0} /\ NumWorkers \in Nat /\ MaxVersion \in Nat \ {0} /\ MaxEdits \in Nat
ASSUME DisturbanceAssumption == Disturbance \subseteq Disturbances /\ MaxDisturbances \in Nat

VARIABLES
    capi,         \* the feature gate is enabled and the extension is deployed
    desired,      \* kcp.Spec.Version
    edits,        \* how often it will change
    available,    \* the Available condition of the control plane
    version,      \* per Machine: spec.version
    node,         \* per Machine: the version that k0s runs on it
    latch,        \* per Machine: it has the update-in-progress annotation
    marked,       \* per Machine: which of its infrastructure and config have the annotation
    hook,         \* per Machine: the UpdateMachine hook is pending
    updating,     \* per Machine: its Updating condition
    plan,         \* the autopilot plan
    pc, mem,      \* the reconciler of the control plane and what it holds
    loops,        \* the goroutines that record versions
    call,         \* per Machine: where the machine controller and the extension are
    history,      \* what has happened that the properties make an exception for
    budget        \* disturbances still to come

machines == <<version, latch, marked, hook>>
capiVars == <<updating, call>>
reconciler == <<pc, mem>>
vars == <<capi, desired, edits, available, machines, node, capiVars, plan, reconciler, loops, history, budget>>

Controllers == 1..NumControllers
Workers == NumControllers + 1..NumControllers + NumWorkers
Machine == Controllers \cup Workers
Version == 1..MaxVersion
Marks == {"infra", "config"}

Plan(v, targets) == [exists |-> TRUE, version |-> v, targets |-> targets, state |-> "running", done |-> {}]
NoPlan == [exists |-> FALSE, version |-> 0, targets |-> {}, state |-> "none", done |-> {}]

(* The controlplane scope: its Machines as they were read, the outdated ones *)
(* among them, the plan as it was read, and the Machines still to mark.      *)
Scope == [desired |-> desired, version |-> Restrict(version, Controllers), latch |-> Restrict(latch, Controllers),
          marked |-> Restrict(marked, Controllers), hook |-> Restrict(hook, Controllers),
          outdated |-> {m \in Controllers : version[m] # desired}, plan |-> NoPlan, todo |-> {}]
NoMem == [desired |-> 0, version |-> <<>>, latch |-> <<>>, marked |-> <<>>, hook |-> <<>>,
          outdated |-> {}, plan |-> NoPlan, todo |-> {}]
Idle == [at |-> "idle", version |-> 0]

Init ==
    /\ capi \in BOOLEAN
    /\ desired = 1 /\ edits = MaxEdits /\ available = TRUE
    /\ version = [m \in Machine |-> 1]
    /\ node = [m \in Machine |-> 1]
    /\ latch = [m \in Machine |-> FALSE]
    /\ marked = [m \in Machine |-> {}]
    /\ hook = [m \in Machine |-> FALSE]
    /\ updating = [m \in Machine |-> FALSE]
    /\ plan = NoPlan
    /\ pc = "idle" /\ mem = NoMem
    /\ loops = {}
    /\ call = [m \in Machine |-> Idle]
    /\ history = {}
    /\ budget = MaxDisturbances

Disturb(kind) ==
    /\ kind \in Disturbance
    /\ budget > 0
    /\ budget' = budget - 1

----------------------------------------------------------------------------
(* The reconciler of the control plane.                                      *)

(* Mutant: the condition is not looked for.                                  *)
isAnyMachineUpdating_Never == FALSE

isAnyMachineUpdating == \E m \in Controllers : updating[m]

(* Mutant: the state of the plan is not looked at.                           *)
IsPlanCompleted_Exists(p) == p.exists

IsPlanCompleted(p) == p.state = "completed"

(* Mutant: interrupted triggers are forgotten.                               *)
machinesToCompleteTrigger_None == {}

machinesToCompleteTrigger == {m \in Controllers : capi /\ latch[m] /\ ~hook[m]}

(* A reconcile that would only read is not a step.                           *)
HasWork ==
    \/ machinesToCompleteTrigger # {}
    \/ /\ available
       /\ plan.exists => IsPlanCompleted(plan)
       /\ \/ \E m \in Controllers : version[m] # desired
          \/ \E m \in plan.targets \cap Controllers : version[m] # plan.version
          \/ plan.exists /\ loops # {}

Done == pc' = "idle" /\ mem' = NoMem

Start ==
    /\ pc = "idle"
    /\ ~isAnyMachineUpdating /\ HasWork
    /\ IF machinesToCompleteTrigger # {}
       THEN mem' = [Scope EXCEPT !.todo = machinesToCompleteTrigger] /\ pc' = "latch"
       ELSE mem' = Scope /\ pc' = "plan"
    /\ history' = IF \E m \in Controllers : hook[m] /\ ~updating[m] THEN history \cup {"unseen"} ELSE history
    /\ UNCHANGED <<capi, desired, edits, available, machines, node, capiVars, plan, loops, budget>>

(* Mutant: the goroutine is left to notice by itself.                        *)
stopUpdateMachineVersions_Not == loops

stopUpdateMachineVersions == {l \in loops : ~l.current}

GetPlan ==
    /\ pc = "plan"
    /\ CASE ~plan.exists /\ mem.outdated # {} -> pc' = "run" /\ UNCHANGED <<mem, loops>>
         [] IsPlanCompleted(plan) -> /\ loops' = stopUpdateMachineVersions
                                     /\ mem' = [mem EXCEPT !.plan = plan] /\ pc' = "ensure"
         [] OTHER -> Done /\ UNCHANGED loops
    /\ UNCHANGED <<capi, desired, edits, available, machines, node, capiVars, plan, history, budget>>

(* ensureTargetMachinesWithTargetVersion, one Machine of the control plane   *)
(* at a time.                                                                *)
Behind == {m \in mem.plan.targets \cap Controllers : mem.version[m] # mem.plan.version}

ensureTargetMachinesWithTargetVersion ==
    /\ pc = "ensure"
    /\ IF Behind # {}
       THEN \E m \in Behind :
               /\ version' = [version EXCEPT ![m] = mem.plan.version]
               /\ mem' = [mem EXCEPT !.version[m] = mem.plan.version]
               /\ UNCHANGED pc
       ELSE /\ IF mem.outdated # {} THEN pc' = "delete" /\ UNCHANGED mem ELSE Done
            /\ UNCHANGED version
    /\ UNCHANGED <<capi, desired, edits, available, node, latch, marked, hook, capiVars, plan, loops, history, budget>>

(* Those who have read a completed plan and will delete it, by its name; 0   *)
(* is the reconciler.  Whoever deletes the plan overtakes the others.        *)
Deciders ==
    {m \in Machine : call[m].at = "delete"} \cup
    {k \in {0} : pc \in {"ensure", "delete"} /\ mem.outdated # {}}
Overtakes(others) == IF plan.exists /\ others # {} THEN {"overtaken"} ELSE {}

DeletePlan ==
    /\ pc = "delete"
    /\ plan' = NoPlan
    /\ history' = history \cup Overtakes(Deciders \ {0})
    /\ pc' = "run"
    /\ UNCHANGED <<capi, desired, edits, available, machines, node, capiVars, mem, loops, budget>>

startUpdateMachineVersions ==
    {[l EXCEPT !.current = FALSE] : l \in loops} \cup
    {[version |-> mem.desired, current |-> TRUE, todo |-> {}, last |-> FALSE,
      wrote |-> {m \in Controllers : mem.version[m] = mem.desired}]}

(* CreatePlan fails when there is a plan.  A failed lookup of the extension  *)
(* is taken for its absence.                                                 *)
runStandaloneAutopilotPlan ==
    /\ pc = "run"
    /\ IF capi THEN Disturb("apiError") /\ history' = history \cup {"fallback"}
       ELSE UNCHANGED <<history, budget>>
    /\ IF plan.exists THEN UNCHANGED <<plan, loops>>
       ELSE plan' = Plan(mem.desired, mem.outdated) /\ loops' = startUpdateMachineVersions
    /\ Done
    /\ UNCHANGED <<capi, desired, edits, available, machines, node, capiVars>>

retrieveOldestMachineOutOfDate == Min(mem.outdated)

RunCapi ==
    /\ pc = "run" /\ capi
    /\ mem' = [mem EXCEPT !.todo = {retrieveOldestMachineOutOfDate}]
    /\ pc' = "latch"
    /\ UNCHANGED <<capi, desired, edits, available, machines, node, capiVars, plan, loops, history, budget>>

(* triggerCAPIInplaceVersionUpdate of the first Machine to mark.  A patch    *)
(* that is sent also refreshes the Machine the reconciler holds.             *)
Latch ==
    LET m == Min(mem.todo)
    IN  /\ pc = "latch"
        /\ IF mem.latch[m] THEN UNCHANGED <<latch, mem>>
           ELSE /\ latch' = [latch EXCEPT ![m] = TRUE]
                /\ mem' = [mem EXCEPT !.hook[m] = hook[m]]
        /\ pc' = "mark"
        /\ UNCHANGED <<capi, desired, edits, available, version, node, marked, hook, capiVars, plan, loops,
                       history, budget>>

(* Mutant: a trigger that is resumed has only the hook left.                 *)
Mark_Resumed ==
    LET m == Min(mem.todo)
        missing == Marks \ mem.marked[m]
    IN  /\ pc = "mark"
        /\ IF missing = {} \/ latch[m] = mem.latch[m] THEN pc' = "hook" /\ UNCHANGED <<marked, mem>>
           ELSE LET mark == IF "infra" \in missing THEN "infra" ELSE "config"
                IN  /\ marked' = [marked EXCEPT ![m] = @ \cup {mark}]
                    /\ mem' = [mem EXCEPT !.marked[m] = @ \cup {mark}]
                    /\ UNCHANGED pc
        /\ UNCHANGED <<capi, desired, edits, available, version, node, latch, hook, capiVars, plan, loops,
                       history, budget>>

(* First the infrastructure, then the config.                                *)
Mark ==
    LET m == Min(mem.todo)
        missing == Marks \ mem.marked[m]
    IN  /\ pc = "mark"
        /\ IF missing = {} THEN pc' = "hook" /\ UNCHANGED <<marked, mem>>
           ELSE LET mark == IF "infra" \in missing THEN "infra" ELSE "config"
                IN  /\ marked' = [marked EXCEPT ![m] = @ \cup {mark}]
                    /\ mem' = [mem EXCEPT !.marked[m] = @ \cup {mark}]
                    /\ UNCHANGED pc
        /\ UNCHANGED <<capi, desired, edits, available, version, node, latch, hook, capiVars, plan, loops,
                       history, budget>>

MarkHookPending ==
    LET m == Min(mem.todo)
    IN  /\ pc = "hook"
        /\ IF mem.hook[m] THEN UNCHANGED <<version, hook>>
           ELSE /\ version' = [version EXCEPT ![m] = mem.desired]
                /\ hook' = [hook EXCEPT ![m] = TRUE]
        /\ LET rest == mem.todo \ {m}
           IN  /\ mem' = IF rest = {} THEN NoMem ELSE [mem EXCEPT !.todo = rest]
               /\ pc' = IF rest = {} THEN "idle" ELSE "latch"
        /\ UNCHANGED <<capi, desired, edits, available, node, latch, marked, capiVars, plan, loops, history, budget>>

Reconcile ==
    \/ Start \/ GetPlan \/ ensureTargetMachinesWithTargetVersion \/ DeletePlan
    \/ runStandaloneAutopilotPlan \/ RunCapi \/ Latch \/ Mark \/ MarkHookPending

----------------------------------------------------------------------------
(* The goroutines that record the versions, updateMachineVersions.           *)

Replace(l, new) == loops' = (loops \ {l}) \cup new

(* One poll of the controllers in the plan's status; a plan for workers has  *)
(* none.  A plan that cannot be read ends the goroutine.                     *)
PollPlan(l) ==
    /\ l.todo = {}
    /\ IF plan.exists
       THEN LET controllers == plan.targets \cap Controllers
                todo == (plan.done \cap Controllers) \ l.wrote
                last == controllers # {} /\ controllers \subseteq plan.done
            IN  /\ todo # {} \/ last
                /\ Replace(l, IF todo = {} THEN {} ELSE {[l EXCEPT !.todo = todo, !.last = last]})
       ELSE Replace(l, {})
    /\ UNCHANGED <<capi, desired, edits, available, machines, node, capiVars, plan, reconciler, history, budget>>

updateMachineVersion(l) ==
    /\ \E m \in l.todo :
          /\ version' = [version EXCEPT ![m] = l.version]
          /\ Replace(l, IF l.todo = {m} /\ l.last THEN {}
                        ELSE {[l EXCEPT !.todo = @ \ {m}, !.wrote = @ \cup {m}]})
    /\ UNCHANGED <<capi, desired, edits, available, node, latch, marked, hook, capiVars, plan, reconciler,
                   history, budget>>

updateMachineVersions == \E l \in loops : PollPlan(l) \/ updateMachineVersion(l)

----------------------------------------------------------------------------
(* The machine controller of Cluster API and the extension it calls.         *)

At(m, label, v) == call' = [call EXCEPT ![m] = [at |-> label, version |-> v]]

IsMine(m) == m \in plan.targets /\ plan.version = version[m]

(* The call finds no plan, its own completed plan, or another one.           *)
DoUpdateMachine(m) ==
    /\ call[m] = Idle /\ latch[m] /\ hook[m]
    /\ updating[m] /\ plan.exists => IsPlanCompleted(plan)
    /\ At(m, CASE ~plan.exists -> "create"
               [] plan.exists /\ ~IsPlanCompleted(plan) -> "report"
               [] IsPlanCompleted(plan) /\ IsMine(m) -> "finished"
               [] OTHER -> "delete", version[m])
    /\ UNCHANGED <<capi, desired, edits, available, machines, node, updating, plan, reconciler, loops, history, budget>>

(* Deleting a plan that is gone is an error.                                 *)
DeleteOldPlan(m) ==
    /\ call[m].at = "delete"
    /\ plan' = NoPlan
    /\ history' = history \cup Overtakes(Deciders \ {m})
    /\ At(m, IF plan.exists THEN "create" ELSE "report", call[m].version)
    /\ UNCHANGED <<capi, desired, edits, available, machines, node, updating, reconciler, loops, budget>>

createAutopilotPlanForMachine(m) ==
    /\ call[m].at = "create"
    /\ plan' = IF plan.exists THEN plan ELSE Plan(call[m].version, {m})
    /\ At(m, "report", call[m].version)
    /\ UNCHANGED <<capi, desired, edits, available, machines, node, updating, reconciler, loops, history, budget>>

(* The machine controller removes the annotations, the hook last.            *)
CompleteUpdate(m) ==
    /\ \/ /\ call[m].at = "finished"
          /\ latch' = [latch EXCEPT ![m] = FALSE]
          /\ At(m, "unmark", 0) /\ UNCHANGED <<marked, hook>>
       \/ /\ call[m].at = "unmark"
          /\ marked' = [marked EXCEPT ![m] = {}]
          /\ At(m, "unhook", 0) /\ UNCHANGED <<latch, hook>>
       \/ /\ call[m].at = "unhook"
          /\ hook' = [hook EXCEPT ![m] = FALSE]
          /\ At(m, "report", 0) /\ UNCHANGED <<latch, marked>>
    /\ UNCHANGED <<capi, desired, edits, available, version, node, updating, plan, reconciler, loops, history, budget>>

(* The status is patched when the reconcile of the Machine ends.             *)
SetUpdating(m) ==
    /\ call[m].at = "report"
    /\ updating' = [updating EXCEPT ![m] = hook[m]]
    /\ At(m, "idle", 0)
    /\ UNCHANGED <<capi, desired, edits, available, machines, node, plan, reconciler, loops, history, budget>>

MachineController(m) ==
    \/ SetUpdating(m) \/ DoUpdateMachine(m) \/ DeleteOldPlan(m)
    \/ createAutopilotPlanForMachine(m) \/ CompleteUpdate(m)

----------------------------------------------------------------------------
(* k0s autopilot, the user and the rest of the world.                        *)

Autopilot ==
    /\ plan.state = "running"
    /\ \/ \E m \in plan.targets \ plan.done :
             /\ node' = [node EXCEPT ![m] = plan.version]
             /\ plan' = [plan EXCEPT !.done = @ \cup {m}]
       \/ /\ plan.done = plan.targets
          /\ plan' = [plan EXCEPT !.state = "completed"]
          /\ UNCHANGED node
    /\ UNCHANGED <<capi, desired, edits, available, machines, capiVars, reconciler, loops, history, budget>>

Recover ==
    /\ ~available /\ available' = TRUE
    /\ UNCHANGED <<capi, desired, edits, machines, node, capiVars, plan, reconciler, loops, history, budget>>

Edit ==
    /\ edits > 0
    /\ edits' = edits - 1
    /\ desired' \in Version \ {desired}
    /\ UNCHANGED <<capi, available, machines, node, capiVars, plan, reconciler, loops, history, budget>>

(* The MachineSet controller marks a worker's Machine.                       *)
UpdateWorker(w) ==
    /\ capi /\ ~hook[w] /\ call[w] = Idle
    /\ Disturb("workerUpdate")
    /\ \E v \in Version \ {version[w]} : version' = [version EXCEPT ![w] = v]
    /\ latch' = [latch EXCEPT ![w] = TRUE]
    /\ marked' = [marked EXCEPT ![w] = Marks]
    /\ hook' = [hook EXCEPT ![w] = TRUE]
    /\ history' = history \cup {"worker"}
    /\ UNCHANGED <<capi, desired, edits, available, node, capiVars, plan, reconciler, loops>>

PlanFails ==
    /\ plan.state = "running"
    /\ Disturb("planFails")
    /\ plan' = [plan EXCEPT !.state = "unexpected"]
    /\ UNCHANGED <<capi, desired, edits, available, machines, node, capiVars, reconciler, loops, history>>

DeletePlanByHand ==
    /\ plan.exists
    /\ Disturb("deletePlan")
    /\ plan' = NoPlan
    /\ history' = history \cup {"byHand"} \cup Overtakes(Deciders)
    /\ UNCHANGED <<capi, desired, edits, available, machines, node, capiVars, reconciler, loops>>

(* Whoever updates nodes of no Machine writes a plan for them.               *)
CreateWorkerPlan ==
    /\ ~plan.exists
    /\ Disturb("workerPlan")
    /\ plan' = Plan(desired, {})
    /\ UNCHANGED <<capi, desired, edits, available, machines, node, capiVars, reconciler, loops, history>>

BecomeUnavailable ==
    /\ available
    /\ Disturb("unavailable")
    /\ available' = FALSE
    /\ UNCHANGED <<capi, desired, edits, machines, node, capiVars, plan, reconciler, loops, history>>

(* An API call of the reconciler fails, or the manager stops.                *)
Fail ==
    /\ pc # "idle"
    /\ Disturb("apiError")
    /\ Done
    /\ UNCHANGED <<capi, desired, edits, available, machines, node, capiVars, plan, loops, history>>

Crash ==
    /\ pc # "idle" \/ loops # {}
    /\ Disturb("crash")
    /\ Done
    /\ loops' = {}
    /\ UNCHANGED <<capi, desired, edits, available, machines, node, capiVars, plan, history>>

System ==
    \/ Reconcile
    \/ updateMachineVersions
    \/ \E m \in Machine : MachineController(m)
    \/ Autopilot
    \/ Recover

Next ==
    \/ System
    \/ Edit
    \/ \E w \in Workers : UpdateWorker(w)
    \/ PlanFails \/ DeletePlanByHand \/ CreateWorkerPlan \/ BecomeUnavailable \/ Fail \/ Crash

Spec == Init /\ [][Next]_vars

(* Every controller, and autopilot, keeps working.                           *)
Fairness ==
    /\ WF_vars(Reconcile)
    /\ WF_vars(updateMachineVersions)
    /\ \A m \in Machine : WF_vars(MachineController(m))
    /\ WF_vars(Autopilot \/ Recover)

FairSpec == Spec /\ Fairness

----------------------------------------------------------------------------
(* Properties.                                                               *)

(* Every variable has its type.                                              *)
TypeOK ==
    /\ {capi, available} \subseteq BOOLEAN
    /\ desired \in Version /\ edits \in 0..MaxEdits
    /\ version \in [Machine -> Version] /\ node \in [Machine -> Version]
    /\ latch \in [Machine -> BOOLEAN] /\ hook \in [Machine -> BOOLEAN] /\ updating \in [Machine -> BOOLEAN]
    /\ marked \in [Machine -> SUBSET Marks]
    /\ plan.targets \subseteq Machine /\ plan.done \subseteq plan.targets
    /\ plan.state \in {"none", "running", "completed", "unexpected"}
    /\ pc \in {"idle", "plan", "ensure", "delete", "run", "latch", "mark", "hook"}
    /\ mem.outdated \subseteq Machine /\ mem.todo \subseteq Machine
    /\ \A l \in loops : l.version \in Version /\ l.todo \subseteq Machine \ l.wrote
    /\ \A m \in Machine : call[m].at \in {"idle", "delete", "create", "finished", "unmark", "unhook", "report"}
    /\ history \subseteq {"unseen", "byHand", "worker", "overtaken", "fallback"}
    /\ budget \in 0..MaxDisturbances

(* The two ways to update are meant to exclude each other.  After a failed   *)
(* lookup of the extension the controller's own plan may meet a hook that is *)
(* pending already, when the controller is woken before Cluster API has set  *)
(* the Updating condition; and its goroutine may outlive its plan, when that *)
(* is deleted by anyone else.                                                *)
MeetsHook == {"unseen", "fallback"} \subseteq history
Mixed == "fallback" \in history /\ history # {"fallback"}

(* The machine controller starts an update when it sees the hook, and by     *)
(* then the objects of the Machine have to be marked: also when the trigger  *)
(* was interrupted anywhere and completed later.  Only a plan of the         *)
(* controller's own that meets a pending hook can end an update early, in    *)
(* the middle of the next trigger.                                           *)
MarkedBeforeHook ==
    MeetsHook \/ \A m \in Machine : latch[m] /\ hook[m] => marked[m] = Marks

Touched(m) == latch[m] \/ hook[m]

(* As preflightChecks puts it: "we need to wait for the update to finish     *)
(* before update the next machine".  At most one Machine of the control      *)
(* plane has the annotation or the hook, as long as the controller has not   *)
(* been woken before Cluster API has set the Updating condition that         *)
(* preflightChecks looks for; after that two Machines may be marked at a     *)
(* time.                                                                     *)
OneUpdateAtATime ==
    "unseen" \notin history => \A m, n \in Controllers : Touched(m) /\ Touched(n) => m = n

(* A version is recorded on a Machine once its node runs it, and not when a  *)
(* goroutine left over from an earlier plan sees a later plan progress; an   *)
(* update through Cluster API ends with the node at the Machine's version.   *)
(* (A plan deleted by hand leaves such a goroutine, and so does the mixture  *)
(* of the two ways to update.  A version recorded together with the hook is  *)
(* the one to update to.)                                                    *)
RecordedVersionRuns ==
    [][\A m \in Machine :
          /\ version'[m] # version[m] /\ hook'[m] = hook[m] =>
                node[m] = version'[m] \/ "byHand" \in history \/ Mixed
          /\ hook[m] /\ ~hook'[m] => node[m] = version[m] \/ Mixed]_vars

(* Neither the controller nor the extension takes away a plan that autopilot *)
(* is still working on, unless someone else had deleted the completed plan   *)
(* that the decision was taken on: deletions are by name.  Nobody else does  *)
(* while no worker is updated, no plan is deleted by hand and the controller *)
(* is not woken before Cluster API has set the Updating condition.           *)
RunningPlanKept ==
    [][plan.state = "running" /\ ~DeletePlanByHand =>
          \/ plan'.exists
          \/ "overtaken" \in history /\ history \cap {"unseen", "byHand", "worker"} # {}]_vars

(* Whatever is interrupted, every node gets the version asked for last and   *)
(* no Machine stays marked, unless a plan ends in a state that the           *)
(* controller does not expect: it then waits for someone to delete it.  (A   *)
(* plan deleted by hand may leave a node at a version nobody asked for.)     *)
(* Nor do two Machines get there that are updated at a time, a worker and a  *)
(* controller or two controllers, while each one's call goes on taking away  *)
(* the other's completed plan before the other's call has seen it.           *)
Settled ==
    /\ \A m \in Controllers : version[m] = desired
    /\ \A m \in Machine : /\ ~latch[m] /\ ~hook[m] /\ ~updating[m]
                          /\ node[m] = version[m] \/ "byHand" \in history
TakesAway == plan.state = "completed" /\ ~plan'.exists /\ \E m \in Machine : hook[m] /\ IsMine(m)

Converges == []<><<TakesAway>>_vars \/ <>[](Settled \/ plan.state = "unexpected")
============================================================================
