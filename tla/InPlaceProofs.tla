---------------------------- MODULE InPlaceProofs ----------------------------
(***************************************************************************)
(* Proofs about InPlace: for any number of Machines, versions, edits and   *)
(* disturbances, the objects of a Machine are marked before its hook is,   *)
(* a version is recorded only where the node runs it, and a plan that      *)
(* autopilot works on is left alone, with the exceptions the properties    *)
(* name.                                                                   *)
(***************************************************************************)
EXTENDS InPlace, WellFoundedInduction, TLAPS

(* What no prover is named for goes to Zenon.                               *)
USE ZenonT(30)

USE CountAssumption, DisturbanceAssumption

----------------------------------------------------------------------------
(* The inductive invariant.                                                  *)

PlanStates == {"none", "running", "completed", "unexpected"}
PlanRecord == [exists : BOOLEAN, version : Version \cup {0}, targets : SUBSET Machine,
               state : PlanStates, done : SUBSET Machine]

(* A plan updates Machines to a version; there is nothing in no plan.        *)
PlanOK(p) ==
    /\ p \in PlanRecord
    /\ p.done \subseteq p.targets
    /\ p.targets # {} \/ p.state # "none" => p.exists
    /\ p.exists => p.version \in Version

ScopeRecord == [desired : Version, version : [Controllers -> Version], latch : [Controllers -> BOOLEAN],
                marked : [Controllers -> SUBSET Marks], hook : [Controllers -> BOOLEAN],
                outdated : SUBSET Controllers, plan : PlanRecord, todo : SUBSET Controllers]

Labels == {"idle", "delete", "create", "finished", "unmark", "unhook", "report"}
Steps == {"idle", "plan", "ensure", "delete", "run", "latch", "mark", "hook"}
Loop == [version : Version, current : BOOLEAN, todo : SUBSET Machine, last : BOOLEAN,
         wrote : SUBSET Machine]

(* TypeOK with the types of what the reconciler holds, of the goroutines and *)
(* of the calls spelled out.                                                 *)
MachinesOK ==
    /\ version \in [Machine -> Version] /\ node \in [Machine -> Version]
    /\ latch \in [Machine -> BOOLEAN] /\ hook \in [Machine -> BOOLEAN] /\ updating \in [Machine -> BOOLEAN]
    /\ marked \in [Machine -> SUBSET Marks]
    /\ call \in [Machine -> [at : Labels, version : Version \cup {0}]]

CallsOK == \A m \in Machine : call[m].at \in {"delete", "create"} => call[m].version \in Version

ScopeOK ==
    /\ pc \in Steps
    /\ IF pc = "idle" THEN mem = NoMem ELSE mem \in ScopeRecord /\ PlanOK(mem.plan)
    /\ pc \in {"delete", "run"} => mem.outdated # {}
    /\ pc \in {"latch", "mark", "hook"} => mem.todo # {}

LoopsOK == loops \subseteq Loop /\ \A l \in loops : l.todo \cap l.wrote = {}

RestOK ==
    /\ capi \in BOOLEAN /\ available \in BOOLEAN
    /\ desired \in Version /\ edits \in 0..MaxEdits
    /\ history \subseteq {"unseen", "byHand", "worker", "overtaken", "fallback"}
    /\ budget \in 0..MaxDisturbances

Typed == MachinesOK /\ CallsOK /\ PlanOK(plan) /\ ScopeOK /\ LoopsOK /\ RestOK

(* The machine controller works on a Machine only while the hook is pending, *)
(* and takes the latch away first.  It finishes an update of a controller    *)
(* only after it has set the Updating condition.                             *)
Finishing == {"finished", "unmark", "unhook"}
Unlatched == {"unmark", "unhook"}

CallOK(m) ==
    /\ call[m].at \in {"delete", "create"} \cup Finishing => hook[m]
    /\ call[m].at \in Finishing /\ m \in Controllers => updating[m]
    /\ call[m].at \in Unlatched => ~latch[m]
    /\ hook[m] /\ ~latch[m] => call[m].at \in Unlatched
    /\ hook[m] => capi
    /\ latch[m] => capi

(* A plan for a controller is not older than its hook: the reconciler        *)
(* deletes the plan before it latches a Machine.                             *)
PlanFollowsHook(m) ==
    m \in plan.targets /\ m \in Controllers =>
        /\ hook[m] => updating[m] \/ call[m].at = "report"
        /\ ~(latch[m] /\ ~hook[m])

(* The Machines that the reconciler may still touch, and what its copies of  *)
(* them say: nobody else latches a Machine or marks the hook pending.        *)
InScope(m) == m \in Controllers /\ pc # "idle" /\ (pc \in {"latch", "mark", "hook"} => m \in mem.todo)

CopyOK(m) ==
    /\ ~mem.latch[m] => ~mem.hook[m]
    /\ ~mem.hook[m] => /\ ~hook[m]
                       /\ mem.latch[m] => latch[m]
                       /\ mem.marked[m] \subseteq marked[m]

(* Where the trigger is, with the first Machine to mark.                     *)
TriggerOK ==
    /\ pc \in {"latch", "mark", "hook"} => capi
    /\ pc = "run" => \A m \in Controllers : m \in plan.targets => mem.latch[m]
    /\ pc = "latch" => \A m \in mem.todo : m \in plan.targets => mem.latch[m]
    /\ pc \in {"latch", "mark", "hook"} => \A m \in mem.todo : mem.latch[m] \/ m = Min(mem.todo)
    /\ pc \in {"mark", "hook"} /\ ~mem.hook[Min(mem.todo)] => latch[Min(mem.todo)]
    /\ pc = "hook" /\ ~mem.hook[Min(mem.todo)] => marked[Min(mem.todo)] = Marks

AllMarked == \A m \in Machine : latch[m] /\ hook[m] => marked[m] = Marks

Order ==
    /\ AllMarked
    /\ \A m \in Machine : CallOK(m) /\ PlanFollowsHook(m)
    /\ \A m \in Machine : InScope(m) => CopyOK(m)
    /\ TriggerOK

Inductive == Typed /\ Order

(* Unless the controller is woken before Cluster API has set the Updating    *)
(* condition, its Machines are updated one at a time, and the reconciler     *)
(* looks at the plan only while none is.                                     *)
OneAtATime ==
    /\ pc \in {"plan", "ensure", "delete", "run"} => \A m \in Controllers : ~Touched(m)
    /\ \A m, n \in Controllers : Touched(m) /\ Touched(n) => m = n
    /\ pc \in {"latch", "mark", "hook"} => /\ \A m \in Controllers : Touched(m) => m \in mem.todo
                                           /\ \A m, n \in mem.todo : m = n

(* Workers are marked by Cluster API alone.                                  *)
Undisturbed ==
    /\ "unseen" \notin history => OneAtATime
    /\ "worker" \notin history => \A w \in Workers : ~Touched(w)

(* Until a plan of the controller's own can have met a pending hook, all of  *)
(* it holds.                                                                 *)
Inv == Typed /\ Undisturbed /\ (MeetsHook \/ Order)

----------------------------------------------------------------------------
(* Type correctness.                                                         *)

LEMMA Kinds ==
    /\ Controllers \subseteq Machine /\ Workers \subseteq Machine /\ Machine \subseteq Nat
    /\ \A m \in Controllers : m \notin Workers
BY SMTT(30) DEF Controllers, Workers, Machine

(* There is a Machine to start with as long as there are any.                *)
LEMMA MinIsThere ==
    ASSUME NEW S \in SUBSET Controllers, S # {}
    PROVE  Min(S) \in S /\ Min(S) \in Controllers /\ Min(S) \in Machine
<1> DEFINE less == OpToRel(<, Nat)
<1>1. IsWellFoundedOn(less, Nat)
    BY NatLessThanWellFounded
<1> HIDE DEF less
<1>2. S \subseteq Nat
    BY Kinds
<1>3. PICK x \in S : \A y \in S : ~(<<y, x>> \in less)
    BY <1>1, <1>2, WFMin
<1>4. ASSUME NEW y \in S PROVE x <= y
    <2>1. y < x => <<y, x>> \in less
        BY <1>2 DEF less, OpToRel
    <2> QED BY <1>2, <1>3, <2>1, SMTT(30)
<1>5. Min(S) \in S
    BY <1>3, <1>4 DEF Min
<1> QED BY <1>5, Kinds

LEMMA PlanType ==
    /\ PlanOK(NoPlan)
    /\ \A v \in Version, targets \in SUBSET Machine : PlanOK(Plan(v, targets))
<1>1. PlanOK(NoPlan)
    BY DEF PlanOK, PlanRecord, PlanStates, NoPlan
<1>2. ASSUME NEW v \in Version, NEW targets \in SUBSET Machine PROVE PlanOK(Plan(v, targets))
    BY DEF PlanOK, PlanRecord, PlanStates, Plan
<1> QED BY <1>1, <1>2

LEMMA InitTyped == Init => Typed
<1> SUFFICES ASSUME Init PROVE Typed
    OBVIOUS
<1>1. 1 \in Version
    BY SMTT(30) DEF Version
<1>2. MachinesOK
    BY <1>1 DEF Init, MachinesOK, Labels, Idle
<1>3. CallsOK /\ LoopsOK
    BY DEF Init, CallsOK, LoopsOK, Idle
<1>4. PlanOK(plan)
    BY PlanType DEF Init
<1>5. ScopeOK
    BY DEF Init, ScopeOK, Steps
<1>6. RestOK
    BY <1>1, SMTT(30) DEF Init, RestOK
<1> QED BY <1>2, <1>3, <1>4, <1>5, <1>6 DEF Typed

LEMMA DoneScope == Done => ScopeOK'
BY DEF Done, ScopeOK, Steps

LEMMA BudgetTyped ==
    ASSUME RestOK, NEW kind, Disturb(kind)
    PROVE  budget' \in 0..MaxDisturbances
BY SMTT(30) DEF RestOK, Disturb

(* The reconciler's copies of its Machines.                                  *)
LEMMA ScopeTyped ==
    ASSUME MachinesOK, RestOK
    PROVE  /\ Scope \in ScopeRecord /\ Scope.plan = NoPlan
           /\ \A m \in Controllers : /\ Scope.version[m] = version[m] /\ Scope.latch[m] = latch[m]
                                      /\ Scope.marked[m] = marked[m] /\ Scope.hook[m] = hook[m]
<1>1. /\ Restrict(version, Controllers) \in [Controllers -> Version]
      /\ Restrict(latch, Controllers) \in [Controllers -> BOOLEAN]
      /\ Restrict(marked, Controllers) \in [Controllers -> SUBSET Marks]
      /\ Restrict(hook, Controllers) \in [Controllers -> BOOLEAN]
    BY Kinds DEF MachinesOK, Restrict
<1>2. /\ NoPlan \in PlanRecord /\ desired \in Version
      /\ {m \in Controllers : version[m] # desired} \in SUBSET Controllers
    BY PlanType DEF PlanOK, RestOK
<1>3. Scope \in ScopeRecord
    BY <1>1, <1>2 DEF Scope, ScopeRecord
<1>4. ASSUME NEW m \in Controllers
      PROVE  /\ Scope.version[m] = version[m] /\ Scope.latch[m] = latch[m]
             /\ Scope.marked[m] = marked[m] /\ Scope.hook[m] = hook[m]
    BY DEF Scope, Restrict
<1> QED BY <1>3, <1>4 DEF Scope

(* The reconciler.                                                           *)
LEMMA ReconcileTyped == Typed /\ Reconcile => Typed'
<1> SUFFICES ASSUME Typed, Reconcile PROVE Typed'
    OBVIOUS
<1> USE DEF machines, capiVars, reconciler
<1>0. Typed => MachinesOK /\ CallsOK /\ PlanOK(plan) /\ ScopeOK /\ LoopsOK /\ RestOK
    BY DEF Typed
<1>1. CASE Start
  <2>1. Scope \in ScopeRecord /\ Scope.plan = NoPlan /\ machinesToCompleteTrigger \in SUBSET Controllers
    <3>1. machinesToCompleteTrigger \in SUBSET Controllers
        BY DEF machinesToCompleteTrigger
    <3> QED BY <1>0, <3>1, ScopeTyped
  <2>2. ScopeOK'
    <3>1. CASE machinesToCompleteTrigger # {}
        BY <1>1, <2>1, <3>1, PlanType, SMTT(30) DEF Start, ScopeOK, ScopeRecord, Steps
    <3>2. CASE machinesToCompleteTrigger = {}
        BY <1>1, <2>1, <3>2, PlanType DEF Start, ScopeOK, Steps
    <3> QED BY <3>1, <3>2
  <2>3. RestOK'
      BY <1>0, <1>1 DEF Start, RestOK
  <2> QED BY <1>0, <1>1, <2>2, <2>3 DEF Typed, Start, MachinesOK, CallsOK, LoopsOK
<1>2. CASE GetPlan
  <2>1. ScopeOK' /\ loops' \subseteq loops
    <3>1. CASE ~plan.exists /\ mem.outdated # {}
      <4>1. ~IsPlanCompleted(plan)
          BY <1>0, <3>1 DEF PlanOK, IsPlanCompleted
      <4>2. pc' = "run" /\ mem' = mem /\ loops' = loops
          BY <1>2, <3>1, <4>1 DEF GetPlan
      <4> QED BY <1>0, <1>2, <3>1, <4>2 DEF GetPlan, ScopeOK, Steps
    <3>2. CASE ~(~plan.exists /\ mem.outdated # {}) /\ IsPlanCompleted(plan)
      <4>1. loops' \subseteq loops
          BY <1>2, <3>2 DEF GetPlan, stopUpdateMachineVersions
      <4>2. mem' = [mem EXCEPT !.plan = plan] /\ pc' = "ensure"
          BY <1>2, <3>2 DEF GetPlan
      <4>3. mem \in ScopeRecord
          BY <1>0, <1>2 DEF ScopeOK, GetPlan
      <4>4. mem' \in ScopeRecord /\ mem'.plan = plan
          BY <1>0, <4>2, <4>3 DEF ScopeRecord, PlanOK
      <4> QED BY <1>0, <4>1, <4>2, <4>4 DEF ScopeOK, Steps
    <3>3. CASE ~(~plan.exists /\ mem.outdated # {}) /\ ~IsPlanCompleted(plan)
        BY <1>2, <3>3, DoneScope DEF GetPlan
    <3> QED BY <3>1, <3>2, <3>3
  <2> QED BY <1>0, <1>2, <2>1 DEF Typed, GetPlan, MachinesOK, CallsOK, LoopsOK, RestOK
<1>3. CASE ensureTargetMachinesWithTargetVersion
  <2>0. mem \in ScopeRecord /\ PlanOK(mem.plan)
      BY <1>0, <1>3 DEF ScopeOK, ensureTargetMachinesWithTargetVersion
  <2>1. CASE Behind # {}
    <3>1. PICK m \in Behind : /\ version' = [version EXCEPT ![m] = mem.plan.version]
                              /\ mem' = [mem EXCEPT !.version[m] = mem.plan.version]
                              /\ pc' = pc
        BY <1>3, <2>1 DEF ensureTargetMachinesWithTargetVersion
    <3>2. m \in Machine /\ m \in Controllers /\ mem.plan.version \in Version
        BY <2>0, Kinds DEF Behind, PlanOK, PlanRecord
    <3>3. version' \in [Machine -> Version]
        BY <1>0, <3>1, <3>2 DEF MachinesOK
    <3>4. mem' \in ScopeRecord /\ mem'.plan = mem.plan
        BY <2>0, <3>1, <3>2 DEF ScopeRecord
    <3>5. ScopeOK'
        BY <1>3, <2>0, <3>1, <3>4 DEF ScopeOK, Steps, ensureTargetMachinesWithTargetVersion
    <3> QED BY <1>0, <1>3, <3>3, <3>5
            DEF Typed, MachinesOK, CallsOK, LoopsOK, RestOK, ensureTargetMachinesWithTargetVersion
  <2>2. CASE Behind = {}
    <3>1. version' = version /\ ScopeOK'
        BY <1>0, <1>3, <2>2, DoneScope DEF ensureTargetMachinesWithTargetVersion, ScopeOK, Steps
    <3> QED BY <1>0, <1>3, <3>1
            DEF Typed, MachinesOK, CallsOK, LoopsOK, RestOK, ensureTargetMachinesWithTargetVersion
  <2> QED BY <2>1, <2>2
<1>4. CASE DeletePlan
  <2>1. PlanOK(plan)'
      BY <1>4, PlanType DEF DeletePlan
  <2>2. ScopeOK'
      BY <1>0, <1>4 DEF DeletePlan, ScopeOK, Steps
  <2>3. RestOK'
      BY <1>0, <1>4 DEF DeletePlan, RestOK, Overtakes
  <2> QED BY <1>0, <1>4, <2>1, <2>2, <2>3 DEF Typed, DeletePlan, MachinesOK, CallsOK, LoopsOK
<1>5. CASE runStandaloneAutopilotPlan
  <2>0. mem \in ScopeRecord
      BY <1>0, <1>5 DEF ScopeOK, runStandaloneAutopilotPlan
  <2>1. ScopeOK'
      BY <1>5, DoneScope DEF runStandaloneAutopilotPlan
  <2>2. PlanOK(plan)'
    <3>1. PlanOK(Plan(mem.desired, mem.outdated))
        BY <2>0, PlanType, Kinds DEF ScopeRecord
    <3> QED BY <1>0, <1>5, <3>1 DEF runStandaloneAutopilotPlan
  <2>3. LoopsOK'
    <3>1. ASSUME NEW l \in loops
          PROVE  LET old == [l EXCEPT !.current = FALSE]
                 IN  old \in Loop /\ old.todo \cap old.wrote = {}
        BY <1>0 DEF LoopsOK, Loop
    <3>2. LET new == [version |-> mem.desired, current |-> TRUE, todo |-> {}, last |-> FALSE,
                      wrote |-> {m \in Controllers : mem.version[m] = mem.desired}]
          IN  new \in Loop /\ new.todo \cap new.wrote = {}
        BY <2>0, Kinds DEF Loop, ScopeRecord
    <3>3. \A l \in startUpdateMachineVersions : l \in Loop /\ l.todo \cap l.wrote = {}
        BY <3>1, <3>2 DEF startUpdateMachineVersions
    <3> QED BY <1>0, <1>5, <3>3 DEF runStandaloneAutopilotPlan, LoopsOK
  <2>4. RestOK'
      BY <1>0, <1>5, BudgetTyped DEF runStandaloneAutopilotPlan, RestOK
  <2> QED BY <1>0, <1>5, <2>1, <2>2, <2>3, <2>4
          DEF Typed, runStandaloneAutopilotPlan, MachinesOK, CallsOK
<1>6. CASE RunCapi
  <2>0. mem \in ScopeRecord /\ mem.outdated # {} /\ PlanOK(mem.plan)
      BY <1>0, <1>6 DEF ScopeOK, RunCapi
  <2>1. Min(mem.outdated) \in Controllers
      BY <2>0, MinIsThere DEF ScopeRecord
  <2>2. mem' \in ScopeRecord /\ mem'.todo # {} /\ mem'.plan = mem.plan
      BY <1>6, <2>0, <2>1 DEF RunCapi, retrieveOldestMachineOutOfDate, ScopeRecord
  <2>3. ScopeOK'
      BY <1>6, <2>0, <2>2 DEF RunCapi, ScopeOK, Steps
  <2> QED BY <1>0, <1>6, <2>3 DEF Typed, RunCapi, MachinesOK, CallsOK, LoopsOK, RestOK
<1>7. ASSUME pc \in {"latch", "mark", "hook"}
      PROVE  mem \in ScopeRecord /\ PlanOK(mem.plan) /\ mem.todo # {}
             /\ Min(mem.todo) \in Controllers /\ Min(mem.todo) \in Machine
  <2>1. mem \in ScopeRecord /\ PlanOK(mem.plan) /\ mem.todo # {}
      BY <1>0, <1>7 DEF ScopeOK
  <2> QED BY <2>1, MinIsThere DEF ScopeRecord
<1>8. CASE Latch
  <2>0. mem \in ScopeRecord /\ PlanOK(mem.plan) /\ mem.todo # {}
         /\ Min(mem.todo) \in Controllers /\ Min(mem.todo) \in Machine
      BY <1>7, <1>8 DEF Latch
  <2>1. latch' \in [Machine -> BOOLEAN]
      BY <1>0, <1>8, <2>0 DEF Latch, MachinesOK
  <2>2. mem' \in ScopeRecord /\ mem'.todo = mem.todo /\ mem'.plan = mem.plan
    <3>1. hook[Min(mem.todo)] \in BOOLEAN
        BY <1>0, <2>0 DEF MachinesOK
    <3> QED BY <1>8, <2>0, <3>1, SMTT(30) DEF Latch, ScopeRecord
  <2>3. ScopeOK'
      BY <1>8, <2>0, <2>2 DEF Latch, ScopeOK, Steps
  <2> QED BY <1>0, <1>8, <2>1, <2>3 DEF Typed, Latch, MachinesOK, CallsOK, LoopsOK, RestOK
<1>9. CASE Mark
  <2>0. mem \in ScopeRecord /\ PlanOK(mem.plan) /\ mem.todo # {}
         /\ Min(mem.todo) \in Controllers /\ Min(mem.todo) \in Machine
      BY <1>7, <1>9 DEF Mark
  <2>1. CASE Marks \ mem.marked[Min(mem.todo)] = {}
    <3>1. marked' = marked /\ mem' = mem /\ pc' = "hook"
        BY <1>9, <2>1 DEF Mark
    <3>2. ScopeOK'
        BY <2>0, <3>1 DEF ScopeOK, Steps
    <3> QED BY <1>0, <1>9, <3>1, <3>2 DEF Typed, Mark, MachinesOK, CallsOK, LoopsOK, RestOK
  <2>2. CASE Marks \ mem.marked[Min(mem.todo)] # {}
    <3>1. PICK mark \in Marks :
              /\ marked' = [marked EXCEPT ![Min(mem.todo)] = @ \cup {mark}]
              /\ mem' = [mem EXCEPT !.marked[Min(mem.todo)] = @ \cup {mark}]
              /\ pc' = pc
        BY <1>9, <2>2 DEF Mark, Marks
    <3>2. marked' \in [Machine -> SUBSET Marks]
        BY <1>0, <2>0, <3>1 DEF MachinesOK
    <3>3. mem' \in ScopeRecord /\ mem'.todo = mem.todo /\ mem'.plan = mem.plan
        BY <2>0, <3>1 DEF ScopeRecord
    <3>4. ScopeOK'
        BY <1>9, <2>0, <3>1, <3>3 DEF Mark, ScopeOK, Steps
    <3> QED BY <1>0, <1>9, <3>2, <3>4 DEF Typed, Mark, MachinesOK, CallsOK, LoopsOK, RestOK
  <2> QED BY <2>1, <2>2
<1>10. CASE MarkHookPending
  <2>0. mem \in ScopeRecord /\ PlanOK(mem.plan) /\ mem.todo # {}
         /\ Min(mem.todo) \in Controllers /\ Min(mem.todo) \in Machine
      BY <1>7, <1>10 DEF MarkHookPending
  <2>1. mem.desired \in Version
      BY <2>0 DEF ScopeRecord
  <2>2. version' \in [Machine -> Version] /\ hook' \in [Machine -> BOOLEAN]
      BY <1>0, <1>10, <2>0, <2>1 DEF MarkHookPending, MachinesOK
  <2>3. ScopeOK'
    <3>1. CASE mem.todo \ {Min(mem.todo)} = {}
        BY <1>10, <3>1 DEF MarkHookPending, ScopeOK, Steps
    <3>2. CASE mem.todo \ {Min(mem.todo)} # {}
      <4>1. mem' = [mem EXCEPT !.todo = mem.todo \ {Min(mem.todo)}] /\ pc' = "latch"
          BY <1>10, <3>2 DEF MarkHookPending
      <4>2. mem' \in ScopeRecord /\ mem'.todo # {} /\ mem'.plan = mem.plan
          BY <2>0, <3>2, <4>1 DEF ScopeRecord
      <4> QED BY <2>0, <4>1, <4>2 DEF ScopeOK, Steps
    <3> QED BY <3>1, <3>2
  <2> QED BY <1>0, <1>10, <2>2, <2>3 DEF Typed, MarkHookPending, MachinesOK, CallsOK, LoopsOK, RestOK
<1> QED BY <1>1, <1>2, <1>3, <1>4, <1>5, <1>6, <1>8, <1>9, <1>10 DEF Reconcile

(* The goroutines.                                                           *)
LEMMA LoopsTyped == Typed /\ updateMachineVersions => Typed'
<1> SUFFICES ASSUME Typed, NEW l \in loops, PollPlan(l) \/ updateMachineVersion(l) PROVE Typed'
    BY DEF updateMachineVersions
<1> USE DEF machines, capiVars, reconciler
<1>0. MachinesOK /\ CallsOK /\ PlanOK(plan) /\ ScopeOK /\ LoopsOK /\ RestOK
    BY DEF Typed
<1>1. l \in Loop /\ l.todo \cap l.wrote = {}
    BY <1>0 DEF LoopsOK
<1>2. ASSUME NEW new \in SUBSET Loop, \A k \in new : k.todo \cap k.wrote = {}, Replace(l, new)
      PROVE  LoopsOK'
    BY <1>0, <1>2 DEF LoopsOK, Replace
<1>3. CASE PollPlan(l)
  <2> DEFINE todo == (plan.done \cap Controllers) \ l.wrote
             controllers == plan.targets \cap Controllers
  <2>1. ASSUME NEW last \in BOOLEAN
        PROVE  LET k == [l EXCEPT !.todo = todo, !.last = last]
               IN  k \in Loop /\ k.todo \cap k.wrote = {}
    <3>1. todo \in SUBSET Machine /\ todo \cap l.wrote = {}
        BY <1>0 DEF PlanOK, PlanRecord
    <3> HIDE DEF todo
    <3> QED BY <1>1, <3>1 DEF Loop
  <2>2. (controllers # {} /\ controllers \subseteq plan.done) \in BOOLEAN
      OBVIOUS
  <2>3. LoopsOK'
    <3>1. CASE Replace(l, {})
        BY <1>2, <3>1
    <3>2. CASE \E last \in BOOLEAN : Replace(l, {[l EXCEPT !.todo = todo, !.last = last]})
      <4>1. PICK last \in BOOLEAN : Replace(l, {[l EXCEPT !.todo = todo, !.last = last]})
          BY <3>2
      <4> HIDE DEF todo
      <4>2. [l EXCEPT !.todo = todo, !.last = last] \in Loop
          BY <2>1
      <4> QED BY <1>2, <2>1, <4>1, <4>2
    <3> QED BY <1>3, <2>2, <3>1, <3>2 DEF PollPlan
  <2> QED BY <1>0, <1>3, <2>3 DEF Typed, PollPlan, MachinesOK, CallsOK, ScopeOK, RestOK
<1>4. CASE updateMachineVersion(l)
  <2>1. PICK m \in l.todo :
            /\ version' = [version EXCEPT ![m] = l.version]
            /\ Replace(l, IF l.todo = {m} /\ l.last THEN {}
                          ELSE {[l EXCEPT !.todo = @ \ {m}, !.wrote = @ \cup {m}]})
      BY <1>4 DEF updateMachineVersion
  <2>2. m \in Machine /\ l.version \in Version
      BY <1>1 DEF Loop
  <2>3. version' \in [Machine -> Version]
      BY <1>0, <2>1, <2>2 DEF MachinesOK
  <2>4. LET k == [l EXCEPT !.todo = @ \ {m}, !.wrote = @ \cup {m}]
        IN  k \in Loop /\ k.todo \cap k.wrote = {}
      BY <1>1, <2>2 DEF Loop
  <2>5. LoopsOK'
      BY <1>2, <2>1, <2>4
  <2> QED BY <1>0, <1>4, <2>3, <2>5
          DEF Typed, updateMachineVersion, MachinesOK, CallsOK, ScopeOK, RestOK
<1> QED BY <1>3, <1>4

(* The machine controller and the extension.                                 *)
LEMMA AtTyped ==
    ASSUME MachinesOK, CallsOK, NEW m \in Machine, NEW label \in Labels,
           NEW v \in Version \cup {0}, At(m, label, v),
           label \in {"delete", "create"} => v \in Version
    PROVE  call' \in [Machine -> [at : Labels, version : Version \cup {0}]] /\ CallsOK'
<1>1. [at |-> label, version |-> v] \in [at : Labels, version : Version \cup {0}]
    OBVIOUS
<1>2. call' = [call EXCEPT ![m] = [at |-> label, version |-> v]]
    BY DEF At
<1>3. call' \in [Machine -> [at : Labels, version : Version \cup {0}]]
    BY <1>1, <1>2 DEF MachinesOK
<1>4. \A k \in Machine : call'[k] = IF k = m THEN [at |-> label, version |-> v] ELSE call[k]
    BY <1>2 DEF MachinesOK
<1>5. CallsOK'
    BY <1>4, SMTT(30) DEF CallsOK
<1> QED BY <1>3, <1>5

LEMMA MachineControllerTyped ==
    ASSUME NEW m \in Machine, Typed, MachineController(m)
    PROVE  Typed'
<1> USE DEF machines, capiVars, reconciler
<1>0. MachinesOK /\ CallsOK /\ PlanOK(plan) /\ ScopeOK /\ LoopsOK /\ RestOK
    BY DEF Typed
<1>1. /\ {"idle", "delete", "create", "finished", "unmark", "unhook", "report"} \subseteq Labels
      /\ version[m] \in Version /\ call[m].version \in Version \cup {0}
      /\ call[m].at \in {"delete", "create"} => call[m].version \in Version
    BY <1>0 DEF MachinesOK, CallsOK, Labels
<1> DEFINE Calls == call' \in [Machine -> [at : Labels, version : Version \cup {0}]] /\ CallsOK'
<1>2. CASE SetUpdating(m)
  <2>1. Calls
      BY <1>0, <1>1, <1>2, AtTyped DEF SetUpdating
  <2>2. updating' \in [Machine -> BOOLEAN]
      BY <1>0, <1>2 DEF SetUpdating, MachinesOK
  <2> QED BY <1>0, <1>2, <2>1, <2>2 DEF Typed, SetUpdating, MachinesOK, ScopeOK, LoopsOK, RestOK
<1>3. CASE DoUpdateMachine(m)
  <2>1. PICK label \in Labels : At(m, label, version[m])
    <3>1. CASE ~plan.exists
        BY <1>1, <1>3, <3>1 DEF DoUpdateMachine
    <3>2. CASE plan.exists /\ ~IsPlanCompleted(plan)
        BY <1>1, <1>3, <3>2 DEF DoUpdateMachine
    <3>3. CASE plan.exists /\ IsPlanCompleted(plan)
        BY <1>1, <1>3, <3>3 DEF DoUpdateMachine
    <3> QED BY <3>1, <3>2, <3>3
  <2>2. Calls
      BY <1>0, <1>1, <2>1, AtTyped
  <2> QED BY <1>0, <1>3, <2>2 DEF Typed, DoUpdateMachine, MachinesOK, ScopeOK, LoopsOK, RestOK
<1>4. CASE DeleteOldPlan(m)
  <2>1. Calls
      BY <1>0, <1>1, <1>4, AtTyped DEF DeleteOldPlan
  <2>2. PlanOK(plan)'
      BY <1>4, PlanType DEF DeleteOldPlan
  <2>3. RestOK'
      BY <1>0, <1>4 DEF DeleteOldPlan, RestOK, Overtakes
  <2> QED BY <1>0, <1>4, <2>1, <2>2, <2>3 DEF Typed, DeleteOldPlan, MachinesOK, ScopeOK, LoopsOK
<1>5. CASE createAutopilotPlanForMachine(m)
  <2>1. Calls
      BY <1>0, <1>1, <1>5, AtTyped DEF createAutopilotPlanForMachine
  <2>2. PlanOK(Plan(call[m].version, {m}))
      BY <1>1, <1>5, PlanType DEF createAutopilotPlanForMachine
  <2>3. PlanOK(plan)'
      BY <1>0, <1>5, <2>2 DEF createAutopilotPlanForMachine
  <2> QED BY <1>0, <1>5, <2>1, <2>3
          DEF Typed, createAutopilotPlanForMachine, MachinesOK, ScopeOK, LoopsOK, RestOK
<1>6. CASE CompleteUpdate(m)
  <2>1. Calls
      BY <1>0, <1>1, <1>6, AtTyped DEF CompleteUpdate
  <2>2. /\ latch' \in [Machine -> BOOLEAN] /\ hook' \in [Machine -> BOOLEAN]
        /\ marked' \in [Machine -> SUBSET Marks]
      BY <1>0, <1>6 DEF CompleteUpdate, MachinesOK
  <2> QED BY <1>0, <1>6, <2>1, <2>2 DEF Typed, CompleteUpdate, MachinesOK, ScopeOK, LoopsOK, RestOK
<1> QED BY <1>2, <1>3, <1>4, <1>5, <1>6 DEF MachineController

LEMMA NextTyped == Typed /\ [Next]_vars => Typed'
<1> SUFFICES ASSUME Typed, [Next]_vars PROVE Typed'
    OBVIOUS
<1> USE DEF machines, capiVars, reconciler
<1>0. MachinesOK /\ CallsOK /\ PlanOK(plan) /\ ScopeOK /\ LoopsOK /\ RestOK
    BY DEF Typed
<1>1. CASE Reconcile
    BY <1>1, ReconcileTyped
<1>2. CASE updateMachineVersions
    BY <1>2, LoopsTyped
<1>3. CASE \E m \in Machine : MachineController(m)
    BY <1>3, MachineControllerTyped
<1>4. CASE Autopilot
  <2>1. node' \in [Machine -> Version] /\ PlanOK(plan)'
    <3>1. CASE \E m \in plan.targets \ plan.done :
                  /\ node' = [node EXCEPT ![m] = plan.version]
                  /\ plan' = [plan EXCEPT !.done = @ \cup {m}]
      <4>1. PICK m \in plan.targets \ plan.done :
                  /\ node' = [node EXCEPT ![m] = plan.version]
                  /\ plan' = [plan EXCEPT !.done = @ \cup {m}]
          BY <3>1
      <4>2. m \in Machine /\ plan.version \in Version
          BY <1>0 DEF PlanOK, PlanRecord
      <4> QED BY <1>0, <4>1, <4>2 DEF MachinesOK, PlanOK, PlanRecord
    <3>2. CASE plan' = [plan EXCEPT !.state = "completed"] /\ node' = node
        BY <1>0, <1>4, <3>2 DEF Autopilot, MachinesOK, PlanOK, PlanRecord, PlanStates
    <3> QED BY <1>4, <3>1, <3>2 DEF Autopilot
  <2> QED BY <1>0, <1>4, <2>1 DEF Typed, Autopilot, MachinesOK, CallsOK, ScopeOK, LoopsOK, RestOK
<1>5. CASE Recover
    BY <1>0, <1>5 DEF Typed, Recover, MachinesOK, CallsOK, ScopeOK, LoopsOK, RestOK
<1>6. CASE Edit
  <2>1. RestOK'
      BY <1>0, <1>6, SMTT(30) DEF Edit, RestOK
  <2> QED BY <1>0, <1>6, <2>1 DEF Typed, Edit, MachinesOK, CallsOK, ScopeOK, LoopsOK
<1>7. CASE PlanFails
  <2>1. RestOK'
      BY <1>0, <1>7, BudgetTyped DEF PlanFails, RestOK
  <2>2. PlanOK(plan)'
      BY <1>0, <1>7 DEF PlanFails, PlanOK, PlanRecord, PlanStates
  <2> QED BY <1>0, <1>7, <2>1, <2>2 DEF Typed, PlanFails, MachinesOK, CallsOK, ScopeOK, LoopsOK
<1>8. CASE DeletePlanByHand
  <2>1. RestOK'
      BY <1>0, <1>8, BudgetTyped DEF DeletePlanByHand, RestOK, Overtakes
  <2>2. PlanOK(plan)'
      BY <1>8, PlanType DEF DeletePlanByHand
  <2> QED BY <1>0, <1>8, <2>1, <2>2 DEF Typed, DeletePlanByHand, MachinesOK, CallsOK, ScopeOK, LoopsOK
<1>9. CASE CreateWorkerPlan
  <2>1. RestOK'
      BY <1>0, <1>9, BudgetTyped DEF CreateWorkerPlan, RestOK
  <2>2. PlanOK(plan)'
      BY <1>0, <1>9, PlanType DEF CreateWorkerPlan, RestOK
  <2> QED BY <1>0, <1>9, <2>1, <2>2 DEF Typed, CreateWorkerPlan, MachinesOK, CallsOK, ScopeOK, LoopsOK
<1>10. CASE BecomeUnavailable
  <2>1. RestOK'
      BY <1>0, <1>10, BudgetTyped DEF BecomeUnavailable, RestOK
  <2> QED BY <1>0, <1>10, <2>1 DEF Typed, BecomeUnavailable, MachinesOK, CallsOK, ScopeOK, LoopsOK
<1>11. CASE Fail
  <2>1. RestOK' /\ ScopeOK'
      BY <1>0, <1>11, BudgetTyped, DoneScope DEF Fail, RestOK
  <2> QED BY <1>0, <1>11, <2>1 DEF Typed, Fail, MachinesOK, CallsOK, LoopsOK
<1>12. CASE Crash
  <2>1. RestOK' /\ ScopeOK' /\ LoopsOK'
      BY <1>0, <1>12, BudgetTyped, DoneScope DEF Crash, RestOK, LoopsOK
  <2> QED BY <1>0, <1>12, <2>1 DEF Typed, Crash, MachinesOK, CallsOK
<1>13. ASSUME NEW w \in Workers, UpdateWorker(w) PROVE Typed'
  <2>1. w \in Machine
      BY Kinds
  <2>2. RestOK'
      BY <1>0, <1>13, BudgetTyped DEF UpdateWorker, RestOK
  <2>3. MachinesOK'
      BY <1>0, <1>13, <2>1 DEF UpdateWorker, MachinesOK
  <2> QED BY <1>0, <1>13, <2>2, <2>3 DEF Typed, UpdateWorker, CallsOK, ScopeOK, LoopsOK
<1>14. CASE UNCHANGED vars
    BY <1>0, <1>14 DEF Typed, vars, MachinesOK, CallsOK, ScopeOK, LoopsOK, RestOK
<1> QED BY <1>1, <1>2, <1>3, <1>4, <1>5, <1>6, <1>7, <1>8, <1>9, <1>10, <1>11, <1>12, <1>13, <1>14
        DEF Next, System

LEMMA TypedIsTyped == Typed => TypeOK
<1> SUFFICES ASSUME Typed PROVE TypeOK
    OBVIOUS
<1>1. MachinesOK /\ PlanOK(plan) /\ ScopeOK /\ LoopsOK /\ RestOK
    BY DEF Typed
<1>2. plan.targets \subseteq Machine /\ plan.done \subseteq plan.targets /\ plan.state \in PlanStates
    BY <1>1 DEF PlanOK, PlanRecord
<1>3. mem.outdated \subseteq Machine /\ mem.todo \subseteq Machine
    BY <1>1, Kinds, SMTT(30) DEF ScopeOK, ScopeRecord, NoMem
<1>4. \A l \in loops : l.version \in Version /\ l.todo \subseteq Machine \ l.wrote
    BY <1>1 DEF LoopsOK, Loop
<1>5. \A m \in Machine : call[m].at \in Labels
    BY <1>1 DEF MachinesOK
<1>6. pc \in Steps
    BY <1>1 DEF ScopeOK
<1> QED BY <1>1, <1>2, <1>3, <1>4, <1>5, <1>6
        DEF TypeOK, MachinesOK, RestOK, PlanStates, Labels, Steps

(* Every variable keeps its type, and with it a Machine to be marked is one  *)
(* there is (completeInterruptedTriggers, retrieveOldestMachineOutOfDate).   *)
THEOREM InPlaceTypeCorrect == Spec => []TypeOK
<1>1. Typed /\ [Next]_vars => Typed'
    BY NextTyped
<1> QED BY <1>1, InitTyped, TypedIsTyped, PTL DEF Spec

----------------------------------------------------------------------------
(* The order of the marks.                                                   *)

LEMMA InitOrder == Init => Order
<1> SUFFICES ASSUME Init PROVE Order
    OBVIOUS
<1>1. AllMarked
    BY DEF Init, AllMarked
<1>2. ASSUME NEW m \in Machine PROVE CallOK(m) /\ PlanFollowsHook(m) /\ ~InScope(m)
    BY DEF Init, CallOK, PlanFollowsHook, InScope, Finishing, Unlatched, Idle, NoPlan
<1>3. TriggerOK
    BY DEF Init, TriggerOK
<1> QED BY <1>1, <1>2, <1>3 DEF Order

(* A step that leaves the marks and the reconciler alone, or ends the        *)
(* reconcile, and at most takes the plan away.                               *)
LEMMA OrderFrame ==
    ASSUME Order, UNCHANGED <<capi, latch, marked, hook, updating, call>>,
           plan'.targets \subseteq plan.targets, UNCHANGED <<pc, mem>> \/ Done
    PROVE  Order'
<1>1. AllMarked'
    BY DEF Order, AllMarked
<1>2. ASSUME NEW m \in Machine PROVE CallOK(m)' /\ PlanFollowsHook(m)'
    BY DEF Order, CallOK, PlanFollowsHook
<1>3. CASE UNCHANGED <<pc, mem>>
  <2>1. \A m \in Machine : InScope(m)' => CopyOK(m)'
      BY <1>3 DEF Order, InScope, CopyOK
  <2>2. TriggerOK'
      BY <1>3 DEF Order, TriggerOK
  <2> QED BY <1>1, <1>2, <2>1, <2>2 DEF Order
<1>4. CASE Done
  <2>1. (\A m \in Machine : ~InScope(m)') /\ TriggerOK'
      BY <1>4 DEF Done, InScope, TriggerOK
  <2> QED BY <1>1, <1>2, <2>1 DEF Order
<1> QED BY <1>3, <1>4

LEMMA AtLabel ==
    ASSUME MachinesOK, NEW m \in Machine, NEW label, NEW v, At(m, label, v)
    PROVE  \A k \in Machine : call'[k].at = IF k = m THEN label ELSE call[k].at
BY DEF MachinesOK, At

LEMMA MachineControllerOrder ==
    ASSUME NEW m \in Machine, Inductive, MachineController(m)
    PROVE  Order'
<1> USE DEF machines, capiVars, reconciler
<1>0. MachinesOK /\ PlanOK(plan) /\ Order
    BY DEF Inductive, Typed
<1>1. /\ \A k \in Machine : CallOK(k) /\ PlanFollowsHook(k)
      /\ \A k \in Machine : InScope(k) => CopyOK(k)
      /\ TriggerOK /\ AllMarked
    BY <1>0 DEF Order
<1>2. CASE SetUpdating(m)
  <2>1. \A k \in Machine : call'[k].at = IF k = m THEN "idle" ELSE call[k].at
      BY <1>0, <1>2, AtLabel DEF SetUpdating
  <2>2. \A k \in Machine : updating'[k] = IF k = m THEN hook[m] ELSE updating[k]
      BY <1>0, <1>2 DEF SetUpdating, MachinesOK
  <2>3. call[m].at = "report" /\ UNCHANGED <<capi, latch, marked, hook, pc, mem, plan>>
      BY <1>2 DEF SetUpdating
  <2>4. ASSUME NEW k \in Machine PROVE CallOK(k)' /\ PlanFollowsHook(k)'
      BY <1>1, <2>1, <2>2, <2>3 DEF CallOK, PlanFollowsHook, Finishing, Unlatched
  <2>5. AllMarked' /\ TriggerOK' /\ \A k \in Machine : InScope(k)' => CopyOK(k)'
      BY <1>1, <2>3 DEF AllMarked, TriggerOK, InScope, CopyOK
  <2> QED BY <2>4, <2>5 DEF Order
<1>3. CASE DoUpdateMachine(m)
  <2>1. PICK label : At(m, label, version[m]) /\ label \in {"create", "report", "finished", "delete"}
                     /\ (label = "finished" => m \in plan.targets)
    <3>1. CASE ~plan.exists
        BY <1>0, <1>3, <3>1, SMTT(30) DEF DoUpdateMachine, PlanOK, IsPlanCompleted
    <3>2. CASE plan.exists /\ ~IsPlanCompleted(plan)
        BY <1>3, <3>2, SMTT(30) DEF DoUpdateMachine
    <3>3. CASE plan.exists /\ IsPlanCompleted(plan)
        BY <1>3, <3>3, SMTT(30) DEF DoUpdateMachine, IsMine
    <3> QED BY <3>1, <3>2, <3>3
  <2>2. \A k \in Machine : call'[k].at = IF k = m THEN label ELSE call[k].at
      BY <1>0, <2>1, AtLabel
  <2>3. /\ call[m].at = "idle" /\ latch[m] /\ hook[m]
        /\ UNCHANGED <<capi, latch, marked, hook, updating, pc, mem, plan>>
      BY <1>3, SMTT(30) DEF DoUpdateMachine, Idle
  <2>4. ASSUME NEW k \in Machine PROVE CallOK(k)' /\ PlanFollowsHook(k)'
      BY <1>1, <2>1, <2>2, <2>3 DEF CallOK, PlanFollowsHook, Finishing, Unlatched
  <2>5. AllMarked' /\ TriggerOK' /\ \A k \in Machine : InScope(k)' => CopyOK(k)'
      BY <1>1, <2>3 DEF AllMarked, TriggerOK, InScope, CopyOK
  <2> QED BY <2>4, <2>5 DEF Order
<1>4. CASE DeleteOldPlan(m)
  <2>1. PICK label \in {"create", "report"} : At(m, label, call[m].version)
      BY <1>4 DEF DeleteOldPlan
  <2>2. \A k \in Machine : call'[k].at = IF k = m THEN label ELSE call[k].at
      BY <1>0, <2>1, AtLabel
  <2>3. /\ call[m].at = "delete" /\ plan'.targets = {}
        /\ UNCHANGED <<capi, latch, marked, hook, updating, pc, mem>>
      BY <1>4 DEF DeleteOldPlan, NoPlan
  <2>4. ASSUME NEW k \in Machine PROVE CallOK(k)' /\ PlanFollowsHook(k)'
      BY <1>1, <2>1, <2>2, <2>3 DEF CallOK, PlanFollowsHook, Finishing, Unlatched
  <2>5. AllMarked' /\ TriggerOK' /\ \A k \in Machine : InScope(k)' => CopyOK(k)'
      BY <1>1, <2>3 DEF AllMarked, TriggerOK, InScope, CopyOK
  <2> QED BY <2>4, <2>5 DEF Order
<1>5. CASE createAutopilotPlanForMachine(m)
  <2>1. \A k \in Machine : call'[k].at = IF k = m THEN "report" ELSE call[k].at
      BY <1>0, <1>5, AtLabel DEF createAutopilotPlanForMachine
  <2>2. /\ call[m].at = "create" /\ UNCHANGED <<capi, latch, marked, hook, updating, pc, mem>>
        /\ plan'.targets \in {plan.targets, {m}}
      BY <1>5 DEF createAutopilotPlanForMachine, Plan
  <2>3. hook[m]
      BY <1>1, <2>2 DEF CallOK
  <2>4. ASSUME NEW k \in Machine PROVE CallOK(k)' /\ PlanFollowsHook(k)'
      BY <1>1, <2>1, <2>2, <2>3 DEF CallOK, PlanFollowsHook, Finishing, Unlatched
  <2>5. AllMarked' /\ \A k \in Machine : InScope(k)' => CopyOK(k)'
      BY <1>1, <2>2 DEF AllMarked, InScope, CopyOK
  <2>6. InScope(m) => mem.latch[m]
      BY <1>1, <2>3 DEF CopyOK
  <2>7. pc = "latch" => mem.todo \in SUBSET Controllers
      BY DEF Inductive, Typed, ScopeOK, ScopeRecord
  <2>8. TriggerOK'
      BY <1>1, <2>2, <2>6, <2>7 DEF TriggerOK, InScope
  <2> QED BY <2>4, <2>5, <2>8 DEF Order
<1>6. CASE CompleteUpdate(m)
  <2>1. PICK label \in {"unmark", "unhook", "report"} : At(m, label, 0)
                 /\ (label = "unmark" => call[m].at = "finished") /\ (label = "unhook" => call[m].at = "unmark")
                 /\ (label = "report" => call[m].at = "unhook")
      BY <1>6 DEF CompleteUpdate
  <2>2. \A k \in Machine : call'[k].at = IF k = m THEN label ELSE call[k].at
      BY <1>0, <2>1, AtLabel
  <2>3. call[m].at \in Finishing /\ hook[m] /\ (m \in Controllers => updating[m])
      BY <1>1, <1>6 DEF CompleteUpdate, CallOK, Finishing
  <2>4. UNCHANGED <<capi, updating, pc, mem, plan>>
      BY <1>6 DEF CompleteUpdate
  <2>5. \A k \in Machine \ {m} : latch'[k] = latch[k] /\ hook'[k] = hook[k] /\ marked'[k] = marked[k]
      BY <1>0, <1>6 DEF CompleteUpdate, MachinesOK
  <2>6. ~latch'[m] /\ (hook'[m] \/ call[m].at = "unhook") /\ (~hook'[m] \/ call[m].at # "unhook")
        /\ (call[m].at = "unhook" <=> call'[m].at = "report")
      BY <1>0, <1>1, <1>6, <2>1, <2>2, <2>3, SMTT(30) DEF CompleteUpdate, MachinesOK, CallOK, Finishing, Unlatched
  <2>7. ASSUME NEW k \in Machine PROVE CallOK(k)' /\ PlanFollowsHook(k)'
      BY <1>1, <2>1, <2>2, <2>3, <2>4, <2>5, <2>6, SMTT(30) DEF CallOK, PlanFollowsHook, Finishing, Unlatched
  <2>8. AllMarked'
      BY <1>1, <2>5, <2>6 DEF AllMarked
  <2>9. InScope(m) => mem.hook[m]
      BY <1>1, <2>3 DEF CopyOK
  <2>10. ASSUME NEW k \in Machine, InScope(k)' PROVE CopyOK(k)'
    <3>1. InScope(k) /\ CopyOK(k)
        BY <1>1, <2>4, <2>10 DEF InScope
    <3> QED BY <2>4, <2>5, <2>9, <3>1 DEF CopyOK
  <2>11. TriggerOK'
    <3>1. ASSUME pc \in {"mark", "hook"} PROVE Min(mem.todo) \in Machine /\ InScope(Min(mem.todo))
      <4>1. mem.todo \in SUBSET Controllers /\ mem.todo # {}
          BY <3>1 DEF Inductive, Typed, ScopeOK, ScopeRecord
      <4>2. Min(mem.todo) \in mem.todo /\ Min(mem.todo) \in Controllers /\ Min(mem.todo) \in Machine
          BY <4>1, MinIsThere
      <4> QED BY <3>1, <4>1, <4>2 DEF InScope
    <3> QED BY <1>1, <2>4, <2>5, <2>9, <3>1 DEF TriggerOK
  <2> QED BY <2>7, <2>8, <2>10, <2>11 DEF Order
<1> QED BY <1>2, <1>3, <1>4, <1>5, <1>6 DEF MachineController

LEMMA ReconcileOrder ==
    ASSUME Inductive, Undisturbed, Reconcile, ~MeetsHook'
    PROVE  Order'
<1> USE DEF machines, capiVars, reconciler
<1>0. MachinesOK /\ PlanOK(plan) /\ ScopeOK /\ RestOK /\ Order
    BY DEF Inductive, Typed
<1>1. /\ \A k \in Machine : CallOK(k) /\ PlanFollowsHook(k)
      /\ \A k \in Machine : InScope(k) => CopyOK(k)
      /\ TriggerOK /\ AllMarked
    BY <1>0 DEF Order
<1>2. ASSUME UNCHANGED <<capi, latch, marked, hook, updating, call, plan>>
      PROVE  AllMarked' /\ \A k \in Machine : CallOK(k)' /\ PlanFollowsHook(k)'
    BY <1>1, <1>2 DEF AllMarked, CallOK, PlanFollowsHook
<1>3. CASE Start
  <2>1. UNCHANGED <<capi, latch, marked, hook, updating, call, plan>>
      BY <1>3 DEF Start
  <2>2. /\ \A k \in Controllers : /\ mem'.latch[k] = latch[k] /\ mem'.hook[k] = hook[k]
                                  /\ mem'.marked[k] = marked[k]
        /\ pc' = "latch" => mem'.todo = machinesToCompleteTrigger
    <3>1. \/ mem' = Scope /\ pc' = "plan"
          \/ mem' = [Scope EXCEPT !.todo = machinesToCompleteTrigger] /\ pc' = "latch"
        BY <1>3 DEF Start
    <3>2. /\ Scope \in ScopeRecord
          /\ \A k \in Controllers : /\ Scope.latch[k] = latch[k] /\ Scope.hook[k] = hook[k]
                                    /\ Scope.marked[k] = marked[k]
        BY <1>0, ScopeTyped
    <3> QED BY <3>1, <3>2 DEF ScopeRecord
  <2>3. ASSUME NEW k \in Controllers PROVE ~latch[k] => ~hook[k]
      BY <1>1, <1>3, Kinds DEF Start, isAnyMachineUpdating, CallOK, Finishing, Unlatched
  <2>4. \A k \in Machine : InScope(k)' => CopyOK(k)'
      BY <2>1, <2>2, <2>3 DEF CopyOK, InScope
  <2>5. pc' = "plan" \/ (pc' = "latch" /\ capi /\ \A k \in mem'.todo : mem'.latch[k])
    <3>1. pc' = "plan" \/ (pc' = "latch" /\ machinesToCompleteTrigger # {})
        BY <1>3 DEF Start
    <3> QED BY <2>2, <3>1 DEF machinesToCompleteTrigger
  <2>6. TriggerOK'
      BY <2>1, <2>5 DEF TriggerOK
  <2> QED BY <1>2, <2>1, <2>4, <2>6 DEF Order
<1>4. CASE GetPlan
  <2>0. UNCHANGED <<capi, latch, marked, hook, updating, call, plan>>
      BY <1>4 DEF GetPlan
  <2>1. CASE ~plan.exists /\ mem.outdated # {}
    <3>1. ~IsPlanCompleted(plan) /\ plan.targets = {}
        BY <1>0, <2>1 DEF PlanOK, IsPlanCompleted
    <3>2. pc = "plan" /\ pc' = "run" /\ mem' = mem
        BY <1>4, <2>1, <3>1 DEF GetPlan
    <3>3. TriggerOK' /\ \A k \in Machine : InScope(k)' => CopyOK(k)'
        BY <1>1, <2>0, <3>1, <3>2 DEF TriggerOK, InScope, CopyOK
    <3> QED BY <1>2, <2>0, <3>3 DEF Order
  <2>2. CASE ~(~plan.exists /\ mem.outdated # {}) /\ IsPlanCompleted(plan)
    <3>1. pc = "plan" /\ mem' = [mem EXCEPT !.plan = plan] /\ pc' = "ensure"
        BY <1>4, <2>2 DEF GetPlan
    <3>2. mem'.latch = mem.latch /\ mem'.hook = mem.hook /\ mem'.marked = mem.marked
        BY <1>0, <3>1 DEF ScopeOK, ScopeRecord
    <3>3. TriggerOK' /\ \A k \in Machine : InScope(k)' => CopyOK(k)'
        BY <1>1, <2>0, <3>1, <3>2 DEF TriggerOK, InScope, CopyOK
    <3> QED BY <1>2, <2>0, <3>3 DEF Order
  <2>3. CASE ~(~plan.exists /\ mem.outdated # {}) /\ ~IsPlanCompleted(plan)
      BY <1>0, <1>4, <2>0, <2>3, OrderFrame DEF GetPlan
  <2> QED BY <2>1, <2>2, <2>3
<1>5. CASE ensureTargetMachinesWithTargetVersion
  <2>0. UNCHANGED <<capi, latch, marked, hook, updating, call, plan>> /\ pc = "ensure"
      BY <1>5 DEF ensureTargetMachinesWithTargetVersion
  <2>1. CASE Behind # {}
    <3>1. pc' = pc /\ \E m \in Behind : mem' = [mem EXCEPT !.version[m] = mem.plan.version]
        BY <1>5, <2>1 DEF ensureTargetMachinesWithTargetVersion
    <3>2. mem'.latch = mem.latch /\ mem'.hook = mem.hook /\ mem'.marked = mem.marked
        BY <1>0, <2>0, <3>1 DEF ScopeOK, ScopeRecord
    <3>3. TriggerOK' /\ \A k \in Machine : InScope(k)' => CopyOK(k)'
        BY <1>1, <2>0, <3>1, <3>2 DEF TriggerOK, InScope, CopyOK
    <3> QED BY <1>2, <2>0, <3>3 DEF Order
  <2>2. CASE Behind = {} /\ mem.outdated # {}
    <3>1. pc' = "delete" /\ mem' = mem
        BY <1>5, <2>2 DEF ensureTargetMachinesWithTargetVersion
    <3>2. TriggerOK' /\ \A k \in Machine : InScope(k)' => CopyOK(k)'
        BY <1>1, <2>0, <3>1 DEF TriggerOK, InScope, CopyOK
    <3> QED BY <1>2, <2>0, <3>2 DEF Order
  <2>3. CASE Behind = {} /\ mem.outdated = {}
      BY <1>0, <1>5, <2>0, <2>3, OrderFrame DEF ensureTargetMachinesWithTargetVersion
  <2> QED BY <2>1, <2>2, <2>3
<1>6. CASE DeletePlan
  <2>1. UNCHANGED <<capi, latch, marked, hook, updating, call, mem>> /\ plan'.targets = {}
        /\ pc = "delete" /\ pc' = "run"
      BY <1>6 DEF DeletePlan, NoPlan
  <2>2. AllMarked' /\ \A k \in Machine : CallOK(k)' /\ PlanFollowsHook(k)'
      BY <1>1, <2>1 DEF AllMarked, CallOK, PlanFollowsHook
  <2>3. TriggerOK' /\ \A k \in Machine : InScope(k)' => CopyOK(k)'
      BY <1>1, <2>1 DEF TriggerOK, InScope, CopyOK
  <2> QED BY <2>2, <2>3 DEF Order
<1>7. CASE runStandaloneAutopilotPlan
  <2>1. UNCHANGED <<capi, latch, marked, hook, updating, call>> /\ pc = "run" /\ Done
      BY <1>7 DEF runStandaloneAutopilotPlan
  <2>2. ASSUME NEW k \in Controllers PROVE ~latch[k] /\ ~hook[k]
    <3>1. CASE ~capi
        BY <1>1, <3>1, Kinds DEF CallOK
    <3>2. CASE capi
      <4>1. history' = history \cup {"fallback"}
          BY <1>7, <3>2 DEF runStandaloneAutopilotPlan
      <4>2. OneAtATime
          BY <4>1 DEF MeetsHook, Undisturbed
      <4> QED BY <2>1, <4>2 DEF OneAtATime, Touched
    <3> QED BY <3>1, <3>2
  <2>3. AllMarked' /\ \A k \in Machine : CallOK(k)' /\ PlanFollowsHook(k)'
      BY <1>1, <2>1, <2>2 DEF AllMarked, CallOK, PlanFollowsHook
  <2>4. TriggerOK' /\ \A k \in Machine : ~InScope(k)'
      BY <2>1 DEF Done, TriggerOK, InScope
  <2> QED BY <2>3, <2>4 DEF Order
<1>8. CASE RunCapi
  <2>1. UNCHANGED <<capi, latch, marked, hook, updating, call, plan>> /\ capi
        /\ pc = "run" /\ pc' = "latch"
      BY <1>8 DEF RunCapi
  <2>2. mem \in ScopeRecord /\ mem.outdated # {}
      BY <1>0, <2>1 DEF ScopeOK
  <2> DEFINE m == Min(mem.outdated)
  <2>3. m \in Controllers
      BY <2>2, MinIsThere DEF ScopeRecord
  <2>4. mem'.latch = mem.latch /\ mem'.hook = mem.hook /\ mem'.marked = mem.marked /\ mem'.todo = {m}
      BY <1>8, <2>2 DEF RunCapi, retrieveOldestMachineOutOfDate, ScopeRecord
  <2>5. Min({m}) = m
    <3> HIDE DEF m
    <3> QED BY <2>3, MinIsThere, SMTT(30)
  <2> HIDE DEF m
  <2>6. \A k \in Machine : InScope(k)' => CopyOK(k)'
      BY <1>1, <2>1, <2>4 DEF InScope, CopyOK
  <2>7. TriggerOK'
      BY <1>1, <2>1, <2>3, <2>4, <2>5 DEF TriggerOK
  <2> QED BY <1>2, <2>1, <2>6, <2>7 DEF Order
<1>9. ASSUME pc \in {"latch", "mark", "hook"}
      PROVE  /\ mem \in ScopeRecord /\ Min(mem.todo) \in mem.todo
             /\ Min(mem.todo) \in Controllers /\ Min(mem.todo) \in Machine
  <2>1. mem \in ScopeRecord /\ mem.todo # {} /\ mem.todo \in SUBSET Controllers
      BY <1>0, <1>9 DEF ScopeOK, ScopeRecord
  <2> QED BY <2>1, MinIsThere
<1> DEFINE first == Min(mem.todo)
<1>10. CASE Latch
  <2>0. UNCHANGED <<capi, marked, hook, updating, call, plan>> /\ pc = "latch" /\ pc' = "mark"
      BY <1>10 DEF Latch
  <2>1. mem \in ScopeRecord /\ first \in mem.todo /\ first \in Controllers /\ first \in Machine /\ InScope(first)
      BY <1>9, <2>0 DEF InScope
  <2>2. CASE mem.latch[first]
    <3>1. latch' = latch /\ mem' = mem
        BY <1>10, <2>2 DEF Latch
    <3>2. TriggerOK'
        BY <1>1, <2>0, <2>1, <2>2, <3>1 DEF TriggerOK, CopyOK
    <3>3. \A k \in Machine : InScope(k)' => CopyOK(k)'
        BY <1>1, <2>0, <3>1 DEF InScope, CopyOK
    <3> QED BY <1>2, <2>0, <3>1, <3>2, <3>3 DEF Order
  <2>3. CASE ~mem.latch[first]
    <3>1. latch' = [latch EXCEPT ![first] = TRUE] /\ mem' = [mem EXCEPT !.hook[first] = hook[first]]
        BY <1>10, <2>3 DEF Latch
    <3>2. ~hook[first] /\ first \notin plan.targets /\ capi
        BY <1>1, <2>0, <2>1, <2>3 DEF TriggerOK, CopyOK
    <3>3. \A k \in Machine : latch'[k] = IF k = first THEN TRUE ELSE latch[k]
        BY <1>0, <2>1, <3>1 DEF MachinesOK
    <3>4. /\ mem'.latch = mem.latch /\ mem'.marked = mem.marked /\ mem'.todo = mem.todo
          /\ \A k \in Controllers : mem'.hook[k] = IF k = first THEN hook[first] ELSE mem.hook[k]
        BY <2>1, <3>1 DEF ScopeRecord
    <3> HIDE DEF first
    <3>5. AllMarked'
        BY <1>1, <2>0, <3>2, <3>3 DEF AllMarked
    <3>6. ASSUME NEW k \in Machine PROVE CallOK(k)' /\ PlanFollowsHook(k)'
        BY <1>1, <2>0, <3>2, <3>3 DEF CallOK, PlanFollowsHook, Finishing, Unlatched
    <3>7. ASSUME NEW k \in Machine, InScope(k)' PROVE CopyOK(k)'
      <4>1. CopyOK(k) /\ k \in Controllers
          BY <1>1, <2>0, <3>4, <3>7 DEF InScope
      <4> QED BY <2>0, <2>3, <3>2, <3>3, <3>4, <4>1 DEF CopyOK
    <3>8. Min(mem'.todo) = first
        BY <3>4 DEF first
    <3>9. TriggerOK'
        BY <1>1, <2>0, <2>1, <3>2, <3>3, <3>4, <3>8 DEF TriggerOK, first
    <3> QED BY <3>5, <3>6, <3>7, <3>9 DEF Order
  <2> QED BY <2>2, <2>3
<1>11. CASE Mark
  <2>0. UNCHANGED <<capi, latch, hook, updating, call, plan>> /\ pc = "mark"
      BY <1>11 DEF Mark
  <2>1. mem \in ScopeRecord /\ first \in mem.todo /\ first \in Controllers /\ first \in Machine /\ InScope(first)
      BY <1>9, <2>0 DEF InScope
  <2>2. CASE Marks \ mem.marked[first] = {}
    <3>1. marked' = marked /\ mem' = mem /\ pc' = "hook"
        BY <1>11, <2>2 DEF Mark
    <3>2. ~mem.hook[first] => marked[first] = Marks
      <4>1. marked[first] \subseteq Marks
          BY <1>0, <2>1 DEF MachinesOK
      <4>2. CopyOK(first)
          BY <1>1, <2>1
      <4> HIDE DEF first
      <4> QED BY <2>2, <4>1, <4>2 DEF CopyOK
    <3>3. TriggerOK'
        BY <1>1, <2>0, <3>1, <3>2 DEF TriggerOK
    <3>4. \A k \in Machine : InScope(k)' => CopyOK(k)'
        BY <1>1, <2>0, <3>1 DEF InScope, CopyOK
    <3> QED BY <1>2, <2>0, <3>1, <3>3, <3>4 DEF Order
  <2>3. CASE Marks \ mem.marked[first] # {}
    <3>1. PICK mark \in Marks :
              /\ marked' = [marked EXCEPT ![first] = @ \cup {mark}]
              /\ mem' = [mem EXCEPT !.marked[first] = @ \cup {mark}]
              /\ pc' = pc
        BY <1>11, <2>3 DEF Mark, Marks
    <3> HIDE DEF first
    <3>2. \A k \in Machine : marked'[k] = IF k = first THEN marked[k] \cup {mark} ELSE marked[k]
        BY <1>0, <2>1, <3>1 DEF MachinesOK
    <3>3. /\ mem'.latch = mem.latch /\ mem'.hook = mem.hook /\ mem'.todo = mem.todo
          /\ \A k \in Controllers : mem'.marked[k] = IF k = first THEN mem.marked[k] \cup {mark}
                                                      ELSE mem.marked[k]
        BY <2>1, <3>1 DEF ScopeRecord
    <3>4. AllMarked'
        BY <1>0, <1>1, <2>0, <3>1, <3>2, SMTT(30) DEF AllMarked, MachinesOK
    <3>5. ASSUME NEW k \in Machine PROVE CallOK(k)' /\ PlanFollowsHook(k)'
        BY <1>1, <2>0 DEF CallOK, PlanFollowsHook
    <3>6. ASSUME NEW k \in Machine, InScope(k)' PROVE CopyOK(k)'
      <4>1. CopyOK(k) /\ k \in Controllers
          BY <1>1, <2>0, <3>1, <3>3, <3>6 DEF InScope
      <4> QED BY <2>0, <3>2, <3>3, <4>1 DEF CopyOK
    <3>7. TriggerOK'
        BY <1>1, <2>0, <3>1, <3>3 DEF TriggerOK
    <3> QED BY <3>4, <3>5, <3>6, <3>7 DEF Order
  <2> QED BY <2>2, <2>3
<1>12. CASE MarkHookPending
  <2>0. UNCHANGED <<capi, latch, marked, updating, call, plan>> /\ pc = "hook"
      BY <1>12 DEF MarkHookPending
  <2>1. mem \in ScopeRecord /\ first \in mem.todo /\ first \in Controllers /\ first \in Machine /\ InScope(first)
      BY <1>9, <2>0 DEF InScope
  <2>2. \A k \in Machine : hook'[k] = IF k = first /\ ~mem.hook[first] THEN TRUE ELSE hook[k]
      BY <1>0, <1>12, <2>1 DEF MarkHookPending, MachinesOK
  <2>3. ~mem.hook[first] => /\ latch[first] /\ marked[first] = Marks /\ capi /\ ~hook[first]
      BY <1>1, <2>0, <2>1 DEF TriggerOK, CopyOK
  <2>4. \/ pc' = "idle"
        \/ pc' = "latch" /\ mem' = [mem EXCEPT !.todo = mem.todo \ {first}]
      BY <1>12 DEF MarkHookPending
  <2>5. CASE pc' = "idle"
    <3> HIDE DEF first
    <3>1. AllMarked' /\ \A k \in Machine : CallOK(k)' /\ PlanFollowsHook(k)'
        BY <1>1, <2>0, <2>1, <2>2, <2>3
           DEF AllMarked, CallOK, PlanFollowsHook, Finishing, Unlatched
    <3>2. TriggerOK' /\ \A k \in Machine : ~InScope(k)'
        BY <2>5 DEF TriggerOK, InScope
    <3> QED BY <3>1, <3>2 DEF Order
  <2>6. CASE pc' = "latch" /\ mem' = [mem EXCEPT !.todo = mem.todo \ {first}]
    <3>0. \A k \in mem.todo \ {first} : mem.latch[k]
        BY <1>1, <2>0 DEF TriggerOK
    <3> HIDE DEF first
    <3>1. AllMarked' /\ \A k \in Machine : CallOK(k)' /\ PlanFollowsHook(k)'
        BY <1>1, <2>0, <2>1, <2>2, <2>3
           DEF AllMarked, CallOK, PlanFollowsHook, Finishing, Unlatched
    <3>2. /\ mem'.latch = mem.latch /\ mem'.hook = mem.hook /\ mem'.marked = mem.marked
          /\ mem'.todo = mem.todo \ {first}
        BY <2>1, <2>6 DEF ScopeRecord
    <3>3. ASSUME NEW k \in Machine, InScope(k)' PROVE CopyOK(k)'
      <4>1. k # first /\ CopyOK(k)
          BY <1>1, <2>0, <2>6, <3>2, <3>3 DEF InScope
      <4> QED BY <2>0, <2>2, <3>2, <4>1 DEF CopyOK
    <3>4. capi' /\ \A k \in mem'.todo : mem'.latch[k]
        BY <1>1, <2>0, <3>0, <3>2 DEF TriggerOK
    <3>5. TriggerOK'
        BY <2>6, <3>4 DEF TriggerOK
    <3> QED BY <3>1, <3>3, <3>5 DEF Order
  <2> QED BY <2>4, <2>5, <2>6
<1> QED BY <1>3, <1>4, <1>5, <1>6, <1>7, <1>8, <1>10, <1>11, <1>12 DEF Reconcile

LEMMA UpdateWorkerOrder ==
    ASSUME Inductive, NEW w \in Workers, UpdateWorker(w)
    PROVE  Order'
<1> USE DEF machines, capiVars, reconciler
<1>0. MachinesOK /\ ScopeOK /\ Order /\ w \in Machine /\ w \notin Controllers
    BY Kinds DEF Inductive, Typed
<1>1. /\ capi /\ call[w].at = "idle" /\ UNCHANGED <<capi, updating, call, plan, pc, mem>>
    BY SMTT(30) DEF UpdateWorker, Idle
<1>2. \A k \in Machine : /\ latch'[k] = IF k = w THEN TRUE ELSE latch[k]
                         /\ hook'[k] = IF k = w THEN TRUE ELSE hook[k]
                         /\ marked'[k] = IF k = w THEN Marks ELSE marked[k]
    BY <1>0 DEF UpdateWorker, MachinesOK
<1>3. AllMarked'
    BY <1>0, <1>2 DEF Order, AllMarked
<1>4. ASSUME NEW k \in Machine PROVE CallOK(k)' /\ PlanFollowsHook(k)'
    BY <1>0, <1>1, <1>2 DEF Order, CallOK, PlanFollowsHook, Finishing, Unlatched
<1>5. ASSUME NEW k \in Machine, InScope(k)' PROVE CopyOK(k)'
    BY <1>0, <1>1, <1>2, <1>5 DEF Order, InScope, CopyOK
<1>6. TriggerOK'
  <2>1. ASSUME pc \in {"mark", "hook"} PROVE Min(mem.todo) \in Controllers /\ Min(mem.todo) \in Machine
    <3>1. mem.todo \in SUBSET Controllers /\ mem.todo # {}
        BY <1>0, <2>1 DEF ScopeOK, ScopeRecord
    <3> QED BY <3>1, MinIsThere
  <2> QED BY <1>0, <1>1, <1>2, <2>1 DEF Order, TriggerOK
<1> QED BY <1>3, <1>4, <1>5, <1>6 DEF Order

LEMMA NextOrder ==
    ASSUME Inductive, Undisturbed, [Next]_vars, ~MeetsHook'
    PROVE  Order'
<1> USE DEF machines, capiVars, reconciler
<1>0. PlanOK(plan) /\ Order
    BY DEF Inductive, Typed
<1>1. CASE Reconcile
    BY <1>1, ReconcileOrder
<1>2. CASE \E m \in Machine : MachineController(m)
    BY <1>2, MachineControllerOrder
<1>3. CASE updateMachineVersions \/ Recover \/ Edit \/ BecomeUnavailable \/ UNCHANGED vars
  <2>1. UNCHANGED <<capi, latch, marked, hook, updating, call, plan, pc, mem>>
      BY <1>3 DEF updateMachineVersions, PollPlan, updateMachineVersion, Recover, Edit,
                  BecomeUnavailable, vars
  <2> QED BY <1>0, <2>1, OrderFrame
<1>4. CASE Fail \/ Crash
  <2>1. UNCHANGED <<capi, latch, marked, hook, updating, call, plan>> /\ Done
      BY <1>4 DEF Fail, Crash
  <2> QED BY <1>0, <2>1, OrderFrame
<1>5. CASE Autopilot \/ PlanFails \/ DeletePlanByHand \/ CreateWorkerPlan
  <2>1. UNCHANGED <<capi, latch, marked, hook, updating, call, pc, mem>>
      BY <1>5 DEF Autopilot, PlanFails, DeletePlanByHand, CreateWorkerPlan
  <2>2. plan'.targets \subseteq plan.targets
      BY <1>0, <1>5, SMTT(30) DEF Autopilot, PlanFails, DeletePlanByHand, CreateWorkerPlan, NoPlan, Plan,
                        PlanOK, PlanRecord
  <2> QED BY <1>0, <2>1, <2>2, OrderFrame
<1>6. CASE \E w \in Workers : UpdateWorker(w)
    BY <1>6, UpdateWorkerOrder
<1> QED BY <1>1, <1>2, <1>3, <1>4, <1>5, <1>6 DEF Next, System

----------------------------------------------------------------------------
(* One update at a time.                                                     *)

LEMMA InitUndisturbed == Init => Undisturbed
BY Kinds, SMTT(30) DEF Init, Undisturbed, OneAtATime, Touched, Idle

LEMMA OneAtATimeFrame ==
    ASSUME OneAtATime, \A m \in Controllers : Touched(m)' => Touched(m), UNCHANGED <<pc, mem>> \/ pc' = "idle"
    PROVE  OneAtATime'
BY DEF OneAtATime

LEMMA NextHistory == [Next]_vars => history \subseteq history'
<1> SUFFICES ASSUME [Next]_vars PROVE history \subseteq history'
    OBVIOUS
<1>1. CASE Reconcile
    BY <1>1 DEF Reconcile, Start, GetPlan, ensureTargetMachinesWithTargetVersion, DeletePlan,
                runStandaloneAutopilotPlan, RunCapi, Latch, Mark, MarkHookPending
<1>2. CASE \E k \in Machine : MachineController(k)
    BY <1>2 DEF MachineController, SetUpdating, DoUpdateMachine, DeleteOldPlan,
                createAutopilotPlanForMachine, CompleteUpdate
<1>3. CASE ~Reconcile /\ ~(\E k \in Machine : MachineController(k))
    BY <1>3 DEF Next, System, updateMachineVersions, PollPlan, updateMachineVersion, Autopilot, Recover,
                Edit, UpdateWorker, PlanFails, DeletePlanByHand, CreateWorkerPlan, BecomeUnavailable, Fail,
                Crash, vars
<1> QED BY <1>1, <1>2, <1>3

LEMMA MachineControllerUndisturbed ==
    ASSUME NEW m \in Machine, Typed, MachineController(m)
    PROVE  UNCHANGED <<pc, mem>> /\ \A k \in Machine : Touched(k)' => Touched(k)
<1>1. UNCHANGED <<pc, mem>> /\ \A k \in Machine : (latch'[k] => latch[k]) /\ (hook'[k] => hook[k])
    BY DEF Typed, MachineController, SetUpdating, DoUpdateMachine, DeleteOldPlan,
           createAutopilotPlanForMachine, CompleteUpdate, MachinesOK, machines, capiVars, reconciler
<1> QED BY <1>1 DEF Touched

LEMMA ReconcileUndisturbed ==
    ASSUME Inductive, Reconcile, OneAtATime, "unseen" \notin history'
    PROVE  OneAtATime'
<1> USE DEF machines, capiVars, reconciler
<1>0. MachinesOK /\ PlanOK(plan) /\ ScopeOK /\ TriggerOK /\ \A k \in Machine : CallOK(k)
    BY DEF Inductive, Typed, Order
<1>1. ASSUME UNCHANGED <<latch, hook>>, pc' \in {"plan", "ensure", "delete", "run", "idle"}, pc # "idle",
             pc \notin {"latch", "mark", "hook"}
      PROVE  OneAtATime'
    BY <1>0, <1>1 DEF OneAtATime, Touched, ScopeOK, Steps
<1>2. CASE Start
  <2>0. UNCHANGED <<latch, hook>> /\ pc' \in {"plan", "latch"}
      BY <1>2 DEF Start
  <2>1. ASSUME NEW m \in Controllers PROVE ~hook[m]
      BY <1>2, <2>1 DEF Start, isAnyMachineUpdating
  <2>2. machinesToCompleteTrigger = {m \in Controllers : Touched(m)}
      BY <1>0, <2>1, Kinds DEF machinesToCompleteTrigger, Touched, CallOK
  <2>3. pc' = "plan" => \A m \in Controllers : ~Touched(m)
      BY <1>2, <2>2 DEF Start
  <2>4. pc' = "latch" => mem'.todo = machinesToCompleteTrigger
      BY <1>2 DEF Start, Scope
  <2> QED BY <2>0, <2>2, <2>3, <2>4 DEF OneAtATime, Touched
<1>3. CASE GetPlan
  <2>1. CASE ~plan.exists /\ mem.outdated # {} /\ ~IsPlanCompleted(plan)
      BY <1>1, <1>3, <2>1 DEF GetPlan
  <2>2. CASE ~(~plan.exists /\ mem.outdated # {}) /\ IsPlanCompleted(plan)
      BY <1>1, <1>3, <2>2 DEF GetPlan
  <2>3. CASE ~(~plan.exists /\ mem.outdated # {}) /\ ~IsPlanCompleted(plan)
      BY <1>1, <1>3, <2>3 DEF GetPlan, Done
  <2> QED BY <1>0, <2>1, <2>2, <2>3 DEF PlanOK, IsPlanCompleted
<1>4. CASE ensureTargetMachinesWithTargetVersion
    BY <1>1, <1>4 DEF ensureTargetMachinesWithTargetVersion, Done
<1>5. CASE DeletePlan
    BY <1>1, <1>5 DEF DeletePlan
<1>6. CASE runStandaloneAutopilotPlan
    BY <1>1, <1>6 DEF runStandaloneAutopilotPlan, Done
<1>7. CASE RunCapi
  <2>0. UNCHANGED <<latch, hook>> /\ pc = "run" /\ pc' = "latch"
      BY <1>7 DEF RunCapi
  <2>1. \A m, n \in mem'.todo : m = n
      BY <1>0, <1>7 DEF RunCapi, ScopeOK, ScopeRecord
  <2> QED BY <2>0, <2>1 DEF OneAtATime, Touched
<1>8. ASSUME pc \in {"latch", "mark", "hook"}
      PROVE  mem \in ScopeRecord /\ Min(mem.todo) \in mem.todo /\ mem.todo = {Min(mem.todo)}
             /\ \A m \in Controllers : Touched(m) => m = Min(mem.todo)
  <2>1. mem \in ScopeRecord /\ mem.todo # {} /\ mem.todo \in SUBSET Controllers
      BY <1>0, <1>8 DEF ScopeOK, ScopeRecord
  <2>2. Min(mem.todo) \in mem.todo
      BY <2>1, MinIsThere
  <2>3. /\ \A m \in Controllers : Touched(m) => m \in mem.todo
        /\ \A m, n \in mem.todo : m = n
      BY <1>8 DEF OneAtATime
  <2> QED BY <2>1, <2>2, <2>3
<1>9. CASE Latch \/ Mark
  <2>1. UNCHANGED <<hook, call, plan>> /\ pc \in {"latch", "mark"} /\ pc' \in {"mark", "hook"}
      BY <1>9 DEF Latch, Mark
  <2>2. /\ mem \in ScopeRecord /\ mem.todo = {Min(mem.todo)}
        /\ \A m \in Controllers : Touched(m) => m = Min(mem.todo)
      BY <1>8, <2>1
  <2>3. mem'.todo = mem.todo
    <3>1. CASE Latch
        BY <2>2, <3>1 DEF Latch, ScopeRecord
    <3>2. CASE Mark
        BY <2>2, <3>2 DEF Mark, ScopeRecord
    <3> QED BY <1>9, <3>1, <3>2
  <2>4. ASSUME NEW m \in Controllers, Touched(m)' PROVE m = Min(mem.todo)
    <3>1. latch'[m] = latch[m] \/ m = Min(mem.todo)
        BY <1>0, <1>9, Kinds DEF Latch, Mark, MachinesOK
    <3> QED BY <2>1, <2>2, <2>4, <3>1 DEF Touched
  <2> QED BY <2>1, <2>2, <2>3, <2>4 DEF OneAtATime
<1>10. CASE MarkHookPending
  <2>1. UNCHANGED <<latch, call, plan>> /\ pc = "hook"
      BY <1>10 DEF MarkHookPending
  <2>2. mem.todo = {Min(mem.todo)} /\ \A m \in Controllers : Touched(m) => m = Min(mem.todo)
      BY <1>8, <2>1
  <2>3. pc' = "idle"
      BY <1>10, <2>2 DEF MarkHookPending
  <2>4. ASSUME NEW m \in Controllers, Touched(m)' PROVE m = Min(mem.todo)
    <3>1. hook'[m] = hook[m] \/ m = Min(mem.todo)
        BY <1>0, <1>10, Kinds DEF MarkHookPending, MachinesOK
    <3> QED BY <2>1, <2>2, <2>4, <3>1 DEF Touched
  <2> QED BY <2>3, <2>4 DEF OneAtATime
<1> QED BY <1>2, <1>3, <1>4, <1>5, <1>6, <1>7, <1>9, <1>10 DEF Reconcile

LEMMA ReconcileWorkers ==
    ASSUME Typed, Reconcile, NEW w \in Workers
    PROVE  latch'[w] = latch[w] /\ hook'[w] = hook[w]
<1> USE DEF machines, capiVars, reconciler
<1>0. MachinesOK /\ ScopeOK /\ w \in Machine
    BY Kinds DEF Typed
<1>1. ASSUME pc \in {"latch", "hook"} PROVE Min(mem.todo) # w
  <2>1. mem.todo # {} /\ mem.todo \in SUBSET Controllers
      BY <1>0, <1>1 DEF ScopeOK, ScopeRecord
  <2> QED BY <2>1, MinIsThere, Kinds
<1>2. CASE Latch
    BY <1>0, <1>1, <1>2 DEF Latch, MachinesOK
<1>3. CASE MarkHookPending
    BY <1>0, <1>1, <1>3 DEF MarkHookPending, MachinesOK
<1>4. CASE ~Latch /\ ~MarkHookPending
    BY <1>4 DEF Reconcile, Start, GetPlan, ensureTargetMachinesWithTargetVersion, DeletePlan,
                runStandaloneAutopilotPlan, RunCapi, Mark
<1> QED BY <1>2, <1>3, <1>4

LEMMA NextUndisturbed ==
    ASSUME Typed, MeetsHook \/ Order, Undisturbed, [Next]_vars
    PROVE  Undisturbed'
<1> USE DEF machines, capiVars, reconciler
<1>0. history \subseteq history'
    BY NextHistory
<1>1. ASSUME UNCHANGED <<pc, mem>> \/ pc' = "idle", \A k \in Machine : Touched(k)' => Touched(k)
      PROVE  Undisturbed'
  <2>1. "unseen" \notin history' => OneAtATime'
      BY <1>0, <1>1, OneAtATimeFrame, Kinds DEF Undisturbed
  <2> QED BY <1>0, <1>1, <2>1, Kinds DEF Undisturbed
<1>2. CASE Reconcile
  <2>1. ASSUME "unseen" \notin history' PROVE OneAtATime'
    <3>1. Inductive /\ OneAtATime
        BY <1>0, <2>1 DEF Inductive, Undisturbed, MeetsHook
    <3> QED BY <1>2, <2>1, <3>1, ReconcileUndisturbed
  <2>2. ASSUME NEW w \in Workers, Touched(w)' PROVE Touched(w)
      BY <1>2, <2>2, ReconcileWorkers DEF Touched
  <2> QED BY <1>0, <2>1, <2>2 DEF Undisturbed
<1>3. ASSUME NEW m \in Machine, MachineController(m) PROVE Undisturbed'
    BY <1>1, <1>3, MachineControllerUndisturbed
<1>4. CASE updateMachineVersions \/ Autopilot \/ Recover \/ Edit \/ PlanFails \/ DeletePlanByHand
           \/ CreateWorkerPlan \/ BecomeUnavailable \/ Fail \/ Crash \/ UNCHANGED vars
  <2>1. UNCHANGED <<latch, hook>> /\ (UNCHANGED <<pc, mem>> \/ pc' = "idle")
      BY <1>4 DEF updateMachineVersions, PollPlan, updateMachineVersion, Autopilot, Recover, Edit,
                  PlanFails, DeletePlanByHand, CreateWorkerPlan, BecomeUnavailable, Fail, Crash, Done, vars
  <2> QED BY <1>1, <2>1 DEF Touched
<1>5. ASSUME NEW w \in Workers, UpdateWorker(w) PROVE Undisturbed'
  <2>1. "worker" \in history' /\ UNCHANGED <<pc, mem>>
      BY <1>5 DEF UpdateWorker
  <2>2. ASSUME NEW m \in Controllers PROVE Touched(m)' => Touched(m)
    <3>1. m # w /\ m \in Machine
        BY Kinds
    <3> QED BY <1>5, <3>1 DEF UpdateWorker, Touched, Typed, MachinesOK
  <2>3. "unseen" \notin history' => OneAtATime'
      BY <1>0, <2>1, <2>2, OneAtATimeFrame DEF Undisturbed
  <2> QED BY <2>1, <2>3 DEF Undisturbed
<1> QED BY <1>2, <1>3, <1>4, <1>5 DEF Next, System

(* All of it together.                                                       *)
LEMMA InitInv == Init => Inv
BY InitTyped, InitOrder, InitUndisturbed DEF Inv

LEMMA NextInv == Inv /\ [Next]_vars => Inv'
<1> SUFFICES ASSUME Inv, [Next]_vars PROVE Inv'
    OBVIOUS
<1>1. Typed' /\ Undisturbed'
    BY NextTyped, NextUndisturbed DEF Inv
<1>2. ASSUME ~MeetsHook' PROVE Order'
  <2>1. ~MeetsHook
      BY <1>2, NextHistory DEF MeetsHook
  <2> QED BY <1>2, <2>1, NextOrder DEF Inv, Inductive
<1> QED BY <1>1, <1>2 DEF Inv

(* When the machine controller sees the hook of a latched Machine, the       *)
(* objects of the Machine are marked, however many Machines there are and    *)
(* wherever triggers are interrupted and completed                           *)
(* (triggerCAPIInplaceVersionUpdate, completeInterruptedTriggers), until a   *)
(* plan of the controller's own can meet a pending hook.                     *)
THEOREM MarkedBeforeHookHolds == Spec => []MarkedBeforeHook
<1>1. Inv => MarkedBeforeHook
    BY DEF Inv, Order, AllMarked, MarkedBeforeHook
<1> QED BY <1>1, InitInv, NextInv, PTL DEF Spec

(* Machines are updated one at a time: as long as the controller has not     *)
(* been woken between the hook of a Machine and its Updating condition, at   *)
(* most one Machine of a control plane of any size is marked for an update   *)
(* or has its hook pending (preflightChecks and                              *)
(* triggerCAPIInplaceVersionUpdate), whichever calls fail, wherever the      *)
(* manager stops, whoever deletes a plan and however many workers Cluster    *)
(* API updates.                                                              *)
THEOREM OneUpdateAtATimeHolds == Spec => []OneUpdateAtATime
<1>1. Inv => OneUpdateAtATime
    BY DEF Inv, Undisturbed, OneAtATime, OneUpdateAtATime
<1> QED BY <1>1, InitInv, NextInv, PTL DEF Spec

----------------------------------------------------------------------------
(* The recorded versions.                                                    *)

(* What autopilot says it has done is done.                                  *)
Progress ==
    /\ \A m \in plan.done : node[m] = plan.version
    /\ plan.state = "completed" => plan.done = plan.targets

(* From the time the hook of a Machine is pending until it is removed, its   *)
(* spec.version stays, and once its plan is seen completed no plan for the   *)
(* Machine runs.                                                             *)
Recorded(m) ==
    /\ call[m].at \in {"delete", "create"} => call[m].version = version[m]
    /\ call[m].at \in Finishing => node[m] = version[m] /\ (m \in plan.targets => plan.state # "running")

(* As long as the extension is found, only the reconciler writes             *)
(* spec.version of its Machines, so its copy of it is up to date, and a plan *)
(* is a plan for that version.                                               *)
HooksOnly == capi /\ "fallback" \notin history

Read(m) ==
    HooksOnly /\ m \in Controllers =>
        /\ InScope(m) => mem.version[m] = version[m]
        /\ m \in plan.targets => plan.version = version[m]
        /\ pc = "ensure" /\ m \in mem.plan.targets => mem.plan.version = version[m]

(* Otherwise a goroutine lives no longer than the plan that it was started   *)
(* for, unless someone deletes that plan, and not while a Machine is marked. *)
Deleting == {"ensure", "delete", "run", "latch", "mark", "hook"}

LoopsFollow ==
    /\ HooksOnly => loops = {}
    /\ ~HooksOnly /\ "byHand" \notin history =>
          /\ \A l \in loops : /\ l.current /\ plan.exists
                              /\ l.version = plan.version /\ l.todo \subseteq plan.done
          /\ pc \in Deleting => loops = {}
          /\ \A m \in Machine : Touched(m) => loops = {}
          /\ pc = "ensure" => mem.plan = plan /\ plan.state = "completed"

Follow == LoopsFollow /\ \A m \in Machine : Recorded(m) /\ Read(m)

Versions == Progress /\ ("fallback" \in history => capi) /\ (Mixed \/ Follow)

LEMMA InitVersions == Init => Versions
<1> SUFFICES ASSUME Init PROVE Versions
    OBVIOUS
<1>1. Progress /\ LoopsFollow
    BY DEF Init, Progress, LoopsFollow, NoPlan, Deleting
<1>2. ASSUME NEW m \in Machine PROVE Recorded(m) /\ Read(m)
    BY DEF Init, Recorded, Read, InScope, Finishing, Idle, NoPlan
<1> QED BY <1>1, <1>2 DEF Init, Versions, Follow

(* After a failed lookup, as long as the two ways to update do not mix, no   *)
(* Machine is marked while the reconciler looks at the plan.                 *)
LEMMA NoneTouched ==
    ASSUME Inductive, Undisturbed, ~capi \/ history \subseteq {"fallback"},
           pc \in {"plan", "ensure", "delete", "run"}
    PROVE  \A m \in Machine : ~Touched(m)
<1>1. CASE ~capi
    BY <1>1 DEF Inductive, Order, CallOK, Touched
<1>2. CASE history \subseteq {"fallback"}
  <2>1. OneAtATime /\ \A w \in Workers : ~Touched(w)
      BY <1>2 DEF Undisturbed
  <2> QED BY <2>1 DEF OneAtATime, Machine
<1> QED BY <1>1, <1>2

(* What can happen to the plan and the nodes in a step.                      *)
PlanStep ==
    \/ UNCHANGED <<plan, node>>
    \/ plan' = NoPlan /\ node' = node
    \/ node' = node /\ \E v \in Version, targets \in SUBSET Machine : plan' = Plan(v, targets)
    \/ plan' = [plan EXCEPT !.state = "unexpected"] /\ node' = node
    \/ Autopilot

LEMMA NextPlan == Typed /\ [Next]_vars => PlanStep
<1> SUFFICES ASSUME Typed, [Next]_vars PROVE PlanStep
    OBVIOUS
<1> USE DEF machines, capiVars, reconciler
<1>0. CallsOK /\ ScopeOK /\ RestOK
    BY DEF Typed
<1>1. CASE Start \/ GetPlan \/ ensureTargetMachinesWithTargetVersion \/ RunCapi \/ Latch \/ Mark
           \/ MarkHookPending
    BY <1>1 DEF PlanStep, Start, GetPlan, ensureTargetMachinesWithTargetVersion, RunCapi, Latch, Mark,
                MarkHookPending
<1>2. CASE DeletePlan
    BY <1>2 DEF PlanStep, DeletePlan
<1>3. CASE runStandaloneAutopilotPlan
  <2>1. mem.desired \in Version /\ mem.outdated \in SUBSET Machine
      BY <1>0, <1>3, Kinds DEF runStandaloneAutopilotPlan, ScopeOK, ScopeRecord
  <2> QED BY <1>3, <2>1 DEF PlanStep, runStandaloneAutopilotPlan
<1>4. CASE updateMachineVersions
    BY <1>4 DEF PlanStep, updateMachineVersions, PollPlan, updateMachineVersion
<1>5. ASSUME NEW m \in Machine, MachineController(m) PROVE PlanStep
  <2>1. CASE createAutopilotPlanForMachine(m)
    <3>1. call[m].version \in Version /\ {m} \in SUBSET Machine
        BY <1>0, <2>1 DEF createAutopilotPlanForMachine, CallsOK
    <3> QED BY <2>1, <3>1 DEF PlanStep, createAutopilotPlanForMachine
  <2>2. CASE SetUpdating(m) \/ DoUpdateMachine(m) \/ DeleteOldPlan(m) \/ CompleteUpdate(m)
      BY <2>2 DEF PlanStep, SetUpdating, DoUpdateMachine, DeleteOldPlan, CompleteUpdate
  <2> QED BY <1>5, <2>1, <2>2 DEF MachineController
<1>6. CASE Recover \/ Edit \/ (\E w \in Workers : UpdateWorker(w)) \/ PlanFails \/ DeletePlanByHand \/ BecomeUnavailable \/ Fail \/ Crash
           \/ UNCHANGED vars
    BY <1>6 DEF PlanStep, Recover, Edit, UpdateWorker, PlanFails, DeletePlanByHand, BecomeUnavailable, Fail, Crash, vars
<1>7. CASE CreateWorkerPlan
  <2>1. desired \in Version /\ {} \in SUBSET Machine
      BY <1>0 DEF RestOK
  <2> QED BY <1>7, <2>1 DEF PlanStep, CreateWorkerPlan
<1>8. CASE Autopilot
    BY <1>8 DEF PlanStep
<1> QED BY <1>1, <1>2, <1>3, <1>4, <1>5, <1>6, <1>7, <1>8 DEF Next, System, Reconcile

LEMMA ProgressNext ==
    ASSUME MachinesOK, PlanOK(plan), Progress, PlanStep
    PROVE  Progress'
<1>1. CASE UNCHANGED <<plan, node>>
    BY <1>1 DEF Progress
<1>2. CASE plan' = NoPlan /\ node' = node
    BY <1>2 DEF Progress, NoPlan
<1>3. CASE node' = node /\ \E v \in Version, targets \in SUBSET Machine : plan' = Plan(v, targets)
    BY <1>3, SMTT(30) DEF Progress, Plan
<1>4. CASE plan' = [plan EXCEPT !.state = "unexpected"] /\ node' = node
    BY <1>4 DEF Progress, PlanOK, PlanRecord
<1>5. CASE Autopilot
  <2>1. CASE \E m \in plan.targets \ plan.done :
                /\ node' = [node EXCEPT ![m] = plan.version]
                /\ plan' = [plan EXCEPT !.done = @ \cup {m}]
      BY <1>5, <2>1, SMTT(30) DEF Autopilot, Progress, PlanOK, PlanRecord, MachinesOK
  <2>2. CASE /\ plan.done = plan.targets /\ node' = node
             /\ plan' = [plan EXCEPT !.state = "completed"]
      BY <2>2 DEF Progress, PlanOK, PlanRecord
  <2> QED BY <1>5, <2>1, <2>2 DEF Autopilot
<1> QED BY <1>1, <1>2, <1>3, <1>4, <1>5 DEF PlanStep

(* A step that leaves the versions, the calls and the hooks alone, that keeps *)
(* the reconciler's copies or ends the reconcile, and with which the plan     *)
(* and the nodes go on as they may.                                           *)
LEMMA RecordedFrame ==
    ASSUME NEW m \in Machine, MachinesOK, PlanOK(plan), Recorded(m),
           version'[m] = version[m], call'[m] = call[m], hook'[m] = hook[m],
           \/ UNCHANGED <<plan, node>>
           \/ plan'.targets = {} /\ node' = node
           \/ plan' = [plan EXCEPT !.state = "unexpected"] /\ node' = node
           \/ Autopilot
    PROVE  Recorded(m)'
<1>1. CASE UNCHANGED <<plan, node>>
    BY <1>1 DEF Recorded
<1>2. CASE plan'.targets = {} /\ node' = node
    BY <1>2 DEF Recorded
<1>3. CASE plan' = [plan EXCEPT !.state = "unexpected"] /\ node' = node
    BY <1>3 DEF Recorded, PlanOK, PlanRecord
<1>4. CASE Autopilot
  <2>1. CASE \E k \in plan.targets \ plan.done :
                /\ node' = [node EXCEPT ![k] = plan.version]
                /\ plan' = [plan EXCEPT !.done = @ \cup {k}]
    <3>1. PICK k \in plan.targets \ plan.done :
                /\ node' = [node EXCEPT ![k] = plan.version]
                /\ plan' = [plan EXCEPT !.done = @ \cup {k}]
        BY <2>1
    <3>2. plan'.targets = plan.targets /\ plan'.version = plan.version /\ plan'.state = "running"
        BY <1>4, <3>1 DEF Autopilot, PlanOK, PlanRecord
    <3>3. node'[m] = node[m] \/ m \in plan.targets
        BY <3>1 DEF MachinesOK
    <3> QED BY <1>4, <3>2, <3>3 DEF Recorded, Autopilot
  <2>2. CASE plan' = [plan EXCEPT !.state = "completed"] /\ node' = node
      BY <2>2 DEF Recorded, PlanOK, PlanRecord
  <2> QED BY <1>4, <2>1, <2>2 DEF Autopilot
<1> QED BY <1>1, <1>2, <1>3, <1>4

LEMMA NoHookRecorded ==
    ASSUME NEW m \in Machine, CallOK(m)', ~hook'[m]
    PROVE  Recorded(m)'
BY DEF CallOK, Recorded

LEMMA HistoryGrows == [Next]_vars => capi' = capi /\ (HooksOnly' => HooksOnly)
<1> SUFFICES ASSUME [Next]_vars PROVE capi' = capi
    BY NextHistory DEF HooksOnly
<1>1. CASE Reconcile
    BY <1>1 DEF Reconcile, Start, GetPlan, ensureTargetMachinesWithTargetVersion, DeletePlan,
                runStandaloneAutopilotPlan, RunCapi, Latch, Mark, MarkHookPending
<1>2. CASE \E k \in Machine : MachineController(k)
    BY <1>2 DEF MachineController, SetUpdating, DoUpdateMachine, DeleteOldPlan,
                createAutopilotPlanForMachine, CompleteUpdate
<1>3. CASE ~Reconcile /\ ~(\E k \in Machine : MachineController(k))
    BY <1>3 DEF Next, System, updateMachineVersions, PollPlan, updateMachineVersion, Autopilot, Recover,
                Edit, UpdateWorker, PlanFails, DeletePlanByHand, CreateWorkerPlan, BecomeUnavailable, Fail,
                Crash, vars
<1> QED BY <1>1, <1>2, <1>3

LEMMA ReadFrame ==
    ASSUME NEW m \in Machine, Read(m), HooksOnly' => HooksOnly, version'[m] = version[m],
           m \in plan'.targets => m \in plan.targets /\ plan'.version = plan.version,
           UNCHANGED <<pc, mem>> \/ Done
    PROVE  Read(m)'
<1>1. CASE UNCHANGED <<pc, mem>>
    BY <1>1 DEF Read, InScope
<1>2. CASE Done
    BY <1>2 DEF Read, InScope, Done
<1> QED BY <1>1, <1>2

LEMMA MachineControllerVersions ==
    ASSUME NEW m \in Machine, Inductive, Order', Progress, Follow, MachineController(m),
           HooksOnly' => HooksOnly, NEW k \in Machine
    PROVE  Recorded(k)' /\ Read(k)'
<1> USE DEF machines, capiVars, reconciler
<1>0. /\ MachinesOK /\ PlanOK(plan) /\ CallOK(m) /\ CallOK(m)' /\ CallOK(k) /\ CallOK(k)'
      /\ Recorded(m) /\ Recorded(k) /\ Read(k)
    BY DEF Inductive, Typed, Order, Follow
<1>1. UNCHANGED <<capi, version, pc, mem, node>> /\ (hook'[k] => hook[k])
    BY <1>0 DEF MachineController, SetUpdating, DoUpdateMachine, DeleteOldPlan,
                createAutopilotPlanForMachine, CompleteUpdate, MachinesOK
<1>2. Read(k)'
  <2>1. CASE plan' = plan
      BY <1>0, <1>1, <2>1, ReadFrame
  <2>2. CASE plan'.targets = {}
      BY <1>0, <1>1, <2>2, ReadFrame
  <2>3. CASE createAutopilotPlanForMachine(m) /\ plan' # plan
    <3>1. plan'.targets = {m} /\ plan'.version = version[m]
        BY <1>0, <2>3 DEF createAutopilotPlanForMachine, Plan, Recorded
    <3> QED BY <1>0, <1>1, <3>1 DEF Read, InScope
  <2>4. plan' = plan \/ plan'.targets = {} \/ createAutopilotPlanForMachine(m)
    <3>1. CASE SetUpdating(m) \/ DoUpdateMachine(m) \/ CompleteUpdate(m)
        BY <3>1 DEF SetUpdating, DoUpdateMachine, CompleteUpdate
    <3>2. CASE DeleteOldPlan(m)
        BY <3>2 DEF DeleteOldPlan, NoPlan
    <3> QED BY <3>1, <3>2 DEF MachineController
  <2> QED BY <2>1, <2>2, <2>3, <2>4
<1>3. Recorded(k)'
  <2>1. CASE SetUpdating(m)
    <3>1. call'[k] = IF k = m THEN [at |-> "idle", version |-> 0] ELSE call[k]
        BY <1>0, <2>1 DEF SetUpdating, At, MachinesOK
    <3>2. UNCHANGED <<plan, hook>>
        BY <2>1 DEF SetUpdating
    <3>3. CASE k # m
        BY <1>0, <1>1, <3>1, <3>2, <3>3 DEF Recorded
    <3>4. CASE k = m
      <4>1. call'[k].at = "idle"
          BY <3>1, <3>4, SMTT(30)
      <4> QED BY <1>0, <1>1, <3>2, <4>1 DEF Recorded, Finishing
    <3> QED BY <3>3, <3>4
  <2>2. CASE DoUpdateMachine(m)
    <3>1. PICK label : At(m, label, version[m]) /\ label \in {"create", "report", "finished", "delete"}
                       /\ (label = "finished" => IsPlanCompleted(plan) /\ IsMine(m))
      <4>1. CASE ~plan.exists
          BY <1>0, <2>2, <4>1, SMTT(30) DEF DoUpdateMachine, PlanOK, IsPlanCompleted
      <4>2. CASE plan.exists /\ ~IsPlanCompleted(plan)
          BY <2>2, <4>2, SMTT(30) DEF DoUpdateMachine
      <4>3. CASE plan.exists /\ IsPlanCompleted(plan)
          BY <2>2, <4>3, SMTT(30) DEF DoUpdateMachine
      <4> QED BY <4>1, <4>2, <4>3
    <3>2. call'[k] = IF k = m THEN [at |-> label, version |-> version[m]] ELSE call[k]
        BY <1>0, <3>1 DEF At, MachinesOK
    <3>3. UNCHANGED <<plan, hook>>
        BY <2>2 DEF DoUpdateMachine
    <3>4. label = "finished" => node[m] = version[m] /\ plan.state # "running"
        BY <3>1 DEF IsPlanCompleted, IsMine, Progress
    <3>5. CASE k # m
        BY <1>0, <1>1, <3>2, <3>3, <3>5 DEF Recorded
    <3>6. CASE k = m
      <4>1. call'[k].at = label /\ call'[k].version = version[k]
          BY <3>2, <3>6, SMTT(30)
      <4> QED BY <1>0, <1>1, <3>1, <3>3, <3>4, <3>6, <4>1 DEF Recorded, Finishing
    <3> QED BY <3>5, <3>6
  <2>3. CASE DeleteOldPlan(m)
    <3>1. PICK label \in {"create", "report"} : At(m, label, call[m].version)
        BY <2>3 DEF DeleteOldPlan
    <3>2. call'[k] = IF k = m THEN [at |-> label, version |-> call[m].version] ELSE call[k]
        BY <1>0, <3>1 DEF At, MachinesOK
    <3>3. plan'.targets = {} /\ hook' = hook /\ call[m].version = version[m]
        BY <1>0, <2>3 DEF DeleteOldPlan, NoPlan, Recorded
    <3>4. CASE k # m
      <4>1. call'[k] = call[k]
          BY <3>2, <3>4
      <4> QED BY <1>0, <1>1, <3>3, <4>1 DEF Recorded
    <3>5. CASE k = m
      <4>1. call'[k].at \in {"create", "report"} /\ call'[k].version = version[k]
          BY <3>1, <3>2, <3>3, <3>5, SMTT(30)
      <4> QED BY <1>1, <3>3, <4>1 DEF Recorded, Finishing
    <3> QED BY <3>4, <3>5
  <2>4. CASE createAutopilotPlanForMachine(m)
    <3>1. call'[k] = IF k = m THEN [at |-> "report", version |-> call[m].version] ELSE call[k]
        BY <1>0, <2>4 DEF createAutopilotPlanForMachine, At, MachinesOK
    <3>2. hook' = hook /\ call[m].version = version[m]
        BY <1>0, <2>4 DEF createAutopilotPlanForMachine, Recorded
    <3>3. plan' = plan \/ (plan'.targets = {m} /\ plan'.version = version[m])
        BY <2>4, <3>2 DEF createAutopilotPlanForMachine, Plan
    <3>4. CASE k # m
      <4>1. call'[k] = call[k]
          BY <3>1, <3>4
      <4> QED BY <1>0, <1>1, <3>2, <3>3, <3>4, <4>1 DEF Recorded
    <3>5. CASE k = m
      <4>1. call'[k].at = "report"
          BY <3>1, <3>5, SMTT(30)
      <4> QED BY <1>0, <1>1, <3>2, <3>3, <3>5, <4>1 DEF Recorded, Finishing
    <3> QED BY <3>4, <3>5
  <2>5. CASE CompleteUpdate(m)
    <3>1. PICK label \in {"unmark", "unhook", "report"} : At(m, label, 0)
        BY <2>5 DEF CompleteUpdate
    <3>2. call'[k] = IF k = m THEN [at |-> label, version |-> 0] ELSE call[k]
        BY <1>0, <3>1 DEF At, MachinesOK
    <3>3. plan' = plan /\ call[m].at \in Finishing
        BY <2>5 DEF CompleteUpdate, Finishing
    <3>4. CASE k # m
      <4>1. call'[k] = call[k]
          BY <3>2, <3>4
      <4> QED BY <1>0, <1>1, <3>3, <4>1 DEF Recorded
    <3>5. CASE k = m
      <4>1. call'[k].at \in {"unmark", "unhook", "report"}
          BY <3>1, <3>2, <3>5, SMTT(30)
      <4> QED BY <1>0, <1>1, <3>3, <3>5, <4>1 DEF Recorded, Finishing
    <3> QED BY <3>4, <3>5
  <2> QED BY <2>1, <2>2, <2>3, <2>4, <2>5 DEF MachineController
<1> QED BY <1>2, <1>3

LEMMA ReconcileVersions ==
    ASSUME Inductive, Undisturbed, Order', Follow, Reconcile, HooksOnly' => HooksOnly, ~Mixed',
           NEW k \in Machine
    PROVE  Recorded(k)' /\ Read(k)'
<1> USE DEF machines, capiVars, reconciler
<1>0. /\ MachinesOK /\ PlanOK(plan) /\ ScopeOK /\ RestOK /\ TriggerOK /\ CallOK(k) /\ CallOK(k)'
      /\ PlanFollowsHook(k) /\ (InScope(k) => CopyOK(k)) /\ Recorded(k) /\ Read(k)
      /\ (\A m \in Machine : Read(m))
    BY DEF Inductive, Typed, Order, Follow
<1>1. ASSUME UNCHANGED <<version, call, hook, plan, node>> PROVE Recorded(k)'
    BY <1>0, <1>1 DEF Recorded
<1>2. CASE Start
  <2>1. UNCHANGED <<capi, version, call, hook, plan, node>> /\ pc' # "ensure"
      BY <1>2 DEF Start
  <2>2. \A m \in Controllers : mem'.version[m] = version[m]
    <3>1. \/ mem' = Scope
          \/ mem' = [Scope EXCEPT !.todo = machinesToCompleteTrigger]
        BY <1>2 DEF Start
    <3>2. Scope \in ScopeRecord /\ \A m \in Controllers : Scope.version[m] = version[m]
        BY <1>0, ScopeTyped
    <3> QED BY <3>1, <3>2 DEF ScopeRecord
  <2> QED BY <1>0, <1>1, <2>1, <2>2 DEF Read
<1>3. CASE GetPlan
  <2>0. UNCHANGED <<capi, version, call, hook, plan, node>> /\ pc = "plan"
      BY <1>3 DEF GetPlan
  <2>1. CASE ~plan.exists /\ mem.outdated # {}
    <3>1. ~IsPlanCompleted(plan)
        BY <1>0, <2>1 DEF PlanOK, IsPlanCompleted
    <3>2. pc' = "run" /\ mem' = mem
        BY <1>3, <2>1, <3>1 DEF GetPlan
    <3> QED BY <1>0, <1>1, <2>0, <3>2 DEF Read, InScope
  <2>2. CASE ~(~plan.exists /\ mem.outdated # {}) /\ IsPlanCompleted(plan)
    <3>1. mem' = [mem EXCEPT !.plan = plan] /\ pc' = "ensure"
        BY <1>3, <2>2 DEF GetPlan
    <3>2. mem'.version = mem.version /\ mem'.plan = plan
        BY <1>0, <2>0, <3>1 DEF ScopeOK, ScopeRecord
    <3> QED BY <1>0, <1>1, <2>0, <3>1, <3>2 DEF Read, InScope
  <2>3. CASE ~(~plan.exists /\ mem.outdated # {}) /\ ~IsPlanCompleted(plan)
    <3>1. Done
        BY <1>3, <2>3 DEF GetPlan
    <3> QED BY <1>0, <1>1, <2>0, <3>1, ReadFrame
  <2> QED BY <2>1, <2>2, <2>3
<1>4. CASE ensureTargetMachinesWithTargetVersion
  <2>0. UNCHANGED <<capi, call, hook, plan, node>> /\ pc = "ensure" /\ mem \in ScopeRecord
        /\ PlanOK(mem.plan)
      BY <1>0, <1>4 DEF ensureTargetMachinesWithTargetVersion, ScopeOK
  <2>1. CASE Behind # {}
    <3>1. PICK m \in Behind : version' = [version EXCEPT ![m] = mem.plan.version]
        BY <1>4, <2>1 DEF ensureTargetMachinesWithTargetVersion
    <3>2. m \in Machine /\ m \in Controllers /\ m \in mem.plan.targets /\ mem.version[m] # mem.plan.version
        BY Kinds DEF Behind
    <3>3. ~HooksOnly
      <4>1. Read(m)
          BY <1>0, <3>2
      <4>2. InScope(m)
          BY <2>0, <3>2 DEF InScope
      <4> QED BY <2>0, <3>2, <4>1, <4>2 DEF Read
    <3>4. ~hook'[k]
      <4>1. ~capi \/ history \subseteq {"fallback"}
          BY <1>4, <3>3 DEF HooksOnly, Mixed, ensureTargetMachinesWithTargetVersion
      <4> QED BY <2>0, <4>1, NoneTouched DEF Touched
    <3> QED BY <1>0, <3>3, <3>4, NoHookRecorded DEF Read
  <2>2. CASE Behind = {}
    <3>1. version' = version /\ (Done \/ (pc' = "delete" /\ mem' = mem))
        BY <1>4, <2>2 DEF ensureTargetMachinesWithTargetVersion
    <3>2. Read(k)'
      <4>1. CASE Done
          BY <1>0, <2>0, <3>1, <4>1, ReadFrame
      <4>2. CASE pc' = "delete" /\ mem' = mem
          BY <1>0, <2>0, <3>1, <4>2 DEF Read, InScope
      <4> QED BY <3>1, <4>1, <4>2
    <3> QED BY <1>1, <2>0, <3>1, <3>2
  <2> QED BY <2>1, <2>2
<1>5. CASE DeletePlan
  <2>1. /\ UNCHANGED <<capi, version, call, hook, node, mem>> /\ plan'.targets = {}
        /\ pc = "delete" /\ pc' = "run"
      BY <1>5 DEF DeletePlan, NoPlan
  <2> QED BY <1>0, <2>1 DEF Recorded, Read, InScope
<1>6. CASE runStandaloneAutopilotPlan
  <2>1. UNCHANGED <<capi, hook>> /\ pc = "run"
      BY <1>6 DEF runStandaloneAutopilotPlan
  <2>2. ~HooksOnly' /\ (~capi \/ history \subseteq {"fallback"})
    <3>1. CASE ~capi
        BY <2>1, <3>1 DEF HooksOnly
    <3>2. CASE capi
      <4>1. history' = history \cup {"fallback"}
          BY <1>6, <3>2 DEF runStandaloneAutopilotPlan
      <4> QED BY <4>1 DEF HooksOnly, Mixed
    <3> QED BY <3>1, <3>2
  <2>3. ~hook'[k]
      BY <2>1, <2>2, NoneTouched DEF Touched
  <2> QED BY <1>0, <2>2, <2>3, NoHookRecorded DEF Read
<1>7. CASE RunCapi
  <2>1. UNCHANGED <<capi, version, call, hook, plan, node>> /\ pc = "run" /\ pc' = "latch"
      BY <1>7 DEF RunCapi
  <2>2. mem'.version = mem.version
      BY <1>0, <1>7 DEF RunCapi, ScopeOK, ScopeRecord
  <2> QED BY <1>0, <1>1, <2>1, <2>2 DEF Read, InScope
<1>8. CASE Latch
  <2>1. UNCHANGED <<capi, version, call, hook, plan, node>> /\ pc = "latch" /\ pc' = "mark"
      BY <1>8 DEF Latch
  <2>2. mem'.version = mem.version /\ mem'.todo = mem.todo
      BY <1>0, <1>8 DEF Latch, ScopeOK, ScopeRecord
  <2> QED BY <1>0, <1>1, <2>1, <2>2 DEF Read, InScope
<1>9. CASE Mark
  <2>1. UNCHANGED <<capi, version, call, hook, plan, node>> /\ pc = "mark" /\ pc' \in {"mark", "hook"}
      BY <1>9 DEF Mark
  <2>2. mem'.version = mem.version /\ mem'.todo = mem.todo
      BY <1>0, <1>9 DEF Mark, ScopeOK, ScopeRecord
  <2> QED BY <1>0, <1>1, <2>1, <2>2 DEF Read, InScope
<1>10. CASE MarkHookPending
  <2> DEFINE first == Min(mem.todo)
  <2>0. UNCHANGED <<capi, latch, call, plan, node>> /\ pc = "hook" /\ pc' # "ensure"
      BY <1>10 DEF MarkHookPending
  <2>1. mem \in ScopeRecord /\ mem.todo # {} /\ mem.todo \in SUBSET Controllers
      BY <1>0, <2>0 DEF ScopeOK, ScopeRecord
  <2>2. first \in mem.todo /\ first \in Controllers /\ first \in Machine
      BY <2>1, MinIsThere
  <2>3. mem.hook[first] => UNCHANGED <<version, hook>>
      BY <1>10 DEF MarkHookPending
  <2>4. k # first => version'[k] = version[k] /\ hook'[k] = hook[k]
      BY <1>0, <1>10, <2>2 DEF MarkHookPending, MachinesOK
  <2>5. CASE k = first /\ ~mem.hook[first]
    <3>1. InScope(k) /\ CopyOK(k) /\ latch[k] /\ ~hook[k]
        BY <1>0, <2>0, <2>2, <2>5 DEF InScope, CopyOK, TriggerOK
    <3>2. k \notin plan.targets /\ call[k].at \notin {"delete", "create"} \cup Finishing
        BY <1>0, <2>2, <2>5, <3>1 DEF PlanFollowsHook, CallOK
    <3>3. ~InScope(k)'
      <4>1. \/ pc' = "idle"
            \/ pc' = "latch" /\ mem' = [mem EXCEPT !.todo = mem.todo \ {first}]
          BY <1>10 DEF MarkHookPending
      <4>2. pc' = "latch" => k \notin mem'.todo
          BY <2>1, <2>5, <4>1 DEF ScopeRecord
      <4> QED BY <4>1, <4>2 DEF InScope
    <3> QED BY <2>0, <3>2, <3>3 DEF Recorded, Read
  <2>6. CASE k # first \/ mem.hook[first]
    <3>1. version'[k] = version[k] /\ hook'[k] = hook[k]
        BY <2>3, <2>4, <2>6
    <3>2. \/ pc' = "idle"
          \/ pc' = "latch" /\ mem'.todo = mem.todo \ {first} /\ mem'.version = mem.version
      <4>1. \/ pc' = "idle"
            \/ pc' = "latch" /\ mem' = [mem EXCEPT !.todo = mem.todo \ {first}]
          BY <1>10 DEF MarkHookPending
      <4> QED BY <2>1, <4>1 DEF ScopeRecord
    <3>3. InScope(k)' => InScope(k) /\ mem'.version = mem.version
      <4> HIDE DEF first
      <4> QED BY <2>0, <3>2 DEF InScope
    <3>4. Read(k)'
        BY <1>0, <2>0, <3>1, <3>3 DEF Read
    <3> QED BY <1>0, <2>0, <3>1, <3>4 DEF Recorded
  <2> QED BY <2>5, <2>6
<1> QED BY <1>2, <1>3, <1>4, <1>5, <1>6, <1>7, <1>8, <1>9, <1>10 DEF Reconcile

(* The goroutines: a step that starts none and leaves the plan alone.        *)
LEMMA LoopsFrame ==
    ASSUME LoopsFollow, HooksOnly' <=> HooksOnly, "byHand" \in history => "byHand" \in history',
           loops' \subseteq loops, plan' = plan, \A m \in Machine : Touched(m)' => Touched(m),
           UNCHANGED <<pc, mem>> \/ pc' \in {"idle", "plan"}
    PROVE  LoopsFollow'
<1>1. CASE UNCHANGED <<pc, mem>>
    BY <1>1 DEF LoopsFollow
<1>2. CASE pc' \in {"idle", "plan"}
    BY <1>2 DEF LoopsFollow, Deleting
<1> QED BY <1>1, <1>2

(* Nor does one start while there is none.                                   *)
LEMMA NoLoopsFrame ==
    ASSUME loops = {}, loops' = loops, pc' # "ensure"
    PROVE  LoopsFollow'
BY DEF LoopsFollow

LEMMA ReconcileLoops ==
    ASSUME Inductive, Undisturbed, Versions, Follow, Reconcile, ~Mixed'
    PROVE  LoopsFollow'
<1> USE DEF machines, capiVars, reconciler
<1>0. PlanOK(plan) /\ ScopeOK /\ LoopsFollow
    BY DEF Inductive, Typed, Follow
<1>1. CASE Start
  <2>0. /\ UNCHANGED <<capi, loops, plan, latch, hook>> /\ pc' \in {"plan", "latch"}
        /\ history' \in {history, history \cup {"unseen"}}
      BY <1>1 DEF Start
  <2>1. (HooksOnly' <=> HooksOnly) /\ ("byHand" \in history' <=> "byHand" \in history)
      BY <2>0 DEF HooksOnly
  <2>2. CASE pc' = "plan"
      BY <1>0, <2>0, <2>1, <2>2, LoopsFrame DEF Touched
  <2>3. CASE pc' = "latch"
    <3>1. PICK m \in Controllers : latch[m]
        BY <1>1, <2>3 DEF Start, machinesToCompleteTrigger
    <3>2. m \in Machine /\ Touched(m)
        BY <3>1, Kinds DEF Touched
    <3>3. loops = {} \/ (~HooksOnly /\ "byHand" \in history)
        BY <1>0, <3>2 DEF LoopsFollow
    <3> QED BY <2>0, <2>1, <2>3, <3>3, NoLoopsFrame DEF LoopsFollow
  <2> QED BY <2>0, <2>2, <2>3
<1>2. CASE GetPlan
  <2>0. UNCHANGED <<capi, plan, history, latch, hook>> /\ pc = "plan"
      BY <1>2 DEF GetPlan
  <2>1. CASE ~plan.exists /\ mem.outdated # {}
    <3>1. ~IsPlanCompleted(plan)
        BY <1>0, <2>1 DEF PlanOK, IsPlanCompleted
    <3>2. pc' = "run" /\ loops' = loops
        BY <1>2, <2>1, <3>1 DEF GetPlan
    <3>3. loops = {} \/ (~HooksOnly /\ "byHand" \in history)
        BY <1>0, <2>1 DEF LoopsFollow
    <3> QED BY <2>0, <3>2, <3>3, NoLoopsFrame DEF LoopsFollow, HooksOnly
  <2>2. CASE ~(~plan.exists /\ mem.outdated # {}) /\ IsPlanCompleted(plan)
    <3>1. mem' = [mem EXCEPT !.plan = plan] /\ pc' = "ensure" /\ loops' = {l \in loops : ~l.current}
        BY <1>2, <2>2 DEF GetPlan, stopUpdateMachineVersions
    <3>2. mem'.plan = plan
        BY <1>0, <2>0, <3>1 DEF ScopeOK, ScopeRecord
    <3>3. loops' = {} \/ (~HooksOnly /\ "byHand" \in history)
        BY <1>0, <3>1 DEF LoopsFollow
    <3> QED BY <2>0, <2>2, <3>2, <3>3 DEF LoopsFollow, IsPlanCompleted, HooksOnly
  <2>3. CASE ~(~plan.exists /\ mem.outdated # {}) /\ ~IsPlanCompleted(plan)
    <3>1. pc' = "idle" /\ loops' = loops
        BY <1>2, <2>3 DEF GetPlan, Done
    <3> QED BY <1>0, <2>0, <3>1, LoopsFrame DEF Touched, HooksOnly
  <2> QED BY <2>1, <2>2, <2>3
<1>3. CASE ensureTargetMachinesWithTargetVersion
  <2>0. UNCHANGED <<capi, plan, loops, history>> /\ pc = "ensure" /\ mem \in ScopeRecord
      BY <1>0, <1>3 DEF ensureTargetMachinesWithTargetVersion, ScopeOK
  <2>1. loops = {} \/ (~HooksOnly /\ "byHand" \in history)
      BY <1>0, <2>0 DEF LoopsFollow, Deleting
  <2>2. CASE Behind # {}
    <3>1. pc' = "ensure" /\ mem'.plan = mem.plan
        BY <1>3, <2>0, <2>2 DEF ensureTargetMachinesWithTargetVersion, ScopeRecord
    <3> QED BY <1>0, <2>0, <2>1, <3>1 DEF LoopsFollow, HooksOnly
  <2>3. CASE Behind = {}
    <3>1. pc' # "ensure"
        BY <1>3, <2>3 DEF ensureTargetMachinesWithTargetVersion, Done
    <3> QED BY <2>0, <2>1, <3>1, NoLoopsFrame DEF LoopsFollow, HooksOnly
  <2> QED BY <2>2, <2>3
<1>4. CASE DeletePlan \/ RunCapi \/ Latch \/ Mark \/ MarkHookPending
  <2>1. /\ UNCHANGED <<capi, loops>> /\ pc \in Deleting /\ pc' # "ensure" /\ history \subseteq history'
        /\ "fallback" \in history' => "fallback" \in history
      BY <1>4 DEF DeletePlan, RunCapi, Latch, Mark, MarkHookPending, Overtakes, Deleting
  <2>2. loops = {} \/ (~HooksOnly /\ "byHand" \in history)
      BY <1>0, <2>1 DEF LoopsFollow
  <2> QED BY <2>1, <2>2, NoLoopsFrame DEF LoopsFollow, HooksOnly
<1>5. CASE runStandaloneAutopilotPlan
  <2>1. UNCHANGED <<capi, latch, hook>> /\ pc = "run" /\ pc' = "idle" /\ history \subseteq history'
      BY <1>5 DEF runStandaloneAutopilotPlan, Done
  <2>2. ~HooksOnly' /\ (~capi \/ history \subseteq {"fallback"})
    <3>1. CASE ~capi
        BY <2>1, <3>1 DEF HooksOnly
    <3>2. CASE capi
      <4>1. history' = history \cup {"fallback"}
          BY <1>5, <3>2 DEF runStandaloneAutopilotPlan
      <4> QED BY <4>1 DEF HooksOnly, Mixed
    <3> QED BY <3>1, <3>2
  <2>3. loops = {} \/ (~HooksOnly /\ "byHand" \in history)
      BY <1>0, <2>1 DEF LoopsFollow, Deleting
  <2>4. \A m \in Machine : ~Touched(m)'
    <3>1. \A m \in Machine : ~Touched(m)
        BY <2>1, <2>2, NoneTouched
    <3> QED BY <2>1, <3>1 DEF Touched
  <2>5. CASE "byHand" \in history
      BY <2>1, <2>2, <2>5 DEF LoopsFollow
  <2>6. CASE "byHand" \notin history /\ plan.exists
    <3>1. loops' = {}
        BY <1>5, <2>3, <2>6 DEF runStandaloneAutopilotPlan
    <3> QED BY <2>1, <3>1 DEF LoopsFollow
  <2>7. CASE "byHand" \notin history /\ ~plan.exists
    <3>1. plan' = Plan(mem.desired, mem.outdated) /\ loops' = startUpdateMachineVersions
        BY <1>5, <2>7 DEF runStandaloneAutopilotPlan
    <3>2. plan'.exists /\ plan'.version = mem.desired
        BY <3>1 DEF Plan
    <3>3. loops = {}
        BY <2>3, <2>7
    <3>4. ASSUME NEW l \in loops'
          PROVE  l.current /\ l.version = mem.desired /\ l.todo = {}
        BY <3>1, <3>3, <3>4, SMTT(30) DEF startUpdateMachineVersions
    <3> QED BY <2>1, <2>2, <2>4, <3>2, <3>4 DEF LoopsFollow, Deleting
  <2> QED BY <2>5, <2>6, <2>7
<1> QED BY <1>1, <1>2, <1>3, <1>4, <1>5 DEF Reconcile

(* A goroutine that runs was started without the extension, and no Machine   *)
(* is marked.                                                                *)
LEMMA LoopsAlone ==
    ASSUME Inductive, Versions, ~Mixed, loops # {}
    PROVE  ~HooksOnly /\ \A m \in Machine : ~hook[m]
<1>1. LoopsFollow /\ ~HooksOnly
    BY DEF Versions, Follow, LoopsFollow
<1>2. CASE ~capi
    BY <1>1, <1>2 DEF Inductive, Order, CallOK
<1>3. CASE capi
  <2>1. "byHand" \notin history
    <3>1. history = {"fallback"}
        BY <1>1, <1>3 DEF HooksOnly, Mixed
    <3> QED BY <3>1, SMTT(30)
  <2> QED BY <1>1, <2>1 DEF LoopsFollow, Touched
<1> QED BY <1>2, <1>3

LEMMA GoroutineLoops == Inductive /\ Follow /\ updateMachineVersions => LoopsFollow'
<1> SUFFICES ASSUME Inductive, Follow, NEW l \in loops, PollPlan(l) \/ updateMachineVersion(l)
             PROVE  LoopsFollow'
    BY DEF updateMachineVersions
<1> USE DEF machines, capiVars, reconciler
<1>0. LoopsFollow /\ l \in Loop /\ ~HooksOnly
    BY DEF Inductive, Typed, LoopsOK, Follow, LoopsFollow
<1>1. UNCHANGED <<capi, plan, pc, mem, latch, hook, history>>
    BY DEF PollPlan, updateMachineVersion
<1>2. \A new \in loops' : \/ new \in loops
                          \/ /\ new.current = l.current /\ new.version = l.version
                             /\ new.todo \subseteq plan.done \/ new.todo \subseteq l.todo
  <2>1. CASE PollPlan(l)
    <3> DEFINE controllers == plan.targets \cap Controllers
               todo == (plan.done \cap Controllers) \ l.wrote
    <3>1. ASSUME NEW new \in loops', new \notin loops
          PROVE  \E last \in BOOLEAN : new = [l EXCEPT !.todo = todo, !.last = last]
      <4>1. (controllers # {} /\ controllers \subseteq plan.done) \in BOOLEAN
          OBVIOUS
      <4> QED BY <2>1, <3>1, <4>1 DEF PollPlan, Replace
    <3>2. ASSUME NEW last \in BOOLEAN
          PROVE  LET new == [l EXCEPT !.todo = todo, !.last = last]
                 IN  new.current = l.current /\ new.version = l.version /\ new.todo \subseteq plan.done
        BY <1>0 DEF Loop
    <3> QED BY <3>1, <3>2
  <2>2. CASE updateMachineVersion(l)
    <3>1. PICK m \in l.todo : Replace(l, IF l.todo = {m} /\ l.last THEN {}
                                         ELSE {[l EXCEPT !.todo = @ \ {m}, !.wrote = @ \cup {m}]})
        BY <2>2 DEF updateMachineVersion
    <3>2. LET new == [l EXCEPT !.todo = @ \ {m}, !.wrote = @ \cup {m}]
          IN  new.current = l.current /\ new.version = l.version /\ new.todo \subseteq l.todo
        BY <1>0 DEF Loop
    <3>3. ASSUME NEW new \in loops', new \notin loops
          PROVE  new = [l EXCEPT !.todo = @ \ {m}, !.wrote = @ \cup {m}]
        BY <3>1, <3>3 DEF Replace
    <3> QED BY <3>2, <3>3
  <2> QED BY <2>1, <2>2
<1>3. (pc \in Deleting \/ \E m \in Machine : Touched(m)) => "byHand" \in history
    BY <1>0 DEF LoopsFollow
<1>4. ASSUME "byHand" \notin history, NEW new \in loops'
      PROVE  /\ new.current /\ plan'.exists
             /\ new.version = plan'.version /\ new.todo \subseteq plan'.done
    BY <1>0, <1>1, <1>2, <1>4 DEF LoopsFollow
<1>5. "byHand" \notin history =>
        /\ ~(pc' \in Deleting) /\ pc' # "ensure"
        /\ \A m \in Machine : ~Touched(m)'
    BY <1>1, <1>3 DEF Deleting, Touched
<1> QED BY <1>0, <1>1, <1>4, <1>5 DEF LoopsFollow, HooksOnly

(* Only the controller's own plan beside the extension is a "fallback".      *)
LEMMA FallbackOnly ==
    ASSUME [Next]_vars, ~runStandaloneAutopilotPlan
    PROVE  "fallback" \in history' => "fallback" \in history
<1>1. history' \subseteq history \cup {"unseen", "byHand", "worker", "overtaken"}
  <2>1. CASE Reconcile
      BY <2>1 DEF Reconcile, Start, GetPlan, ensureTargetMachinesWithTargetVersion, DeletePlan,
                  RunCapi, Latch, Mark, MarkHookPending, Overtakes
  <2>2. CASE \E k \in Machine : MachineController(k)
      BY <2>2 DEF MachineController, SetUpdating, DoUpdateMachine, DeleteOldPlan,
                  createAutopilotPlanForMachine, CompleteUpdate, Overtakes
  <2>3. CASE ~Reconcile /\ ~(\E k \in Machine : MachineController(k))
      BY <2>3 DEF Next, System, updateMachineVersions, PollPlan, updateMachineVersion, Autopilot, Recover,
                  Edit, UpdateWorker, PlanFails, DeletePlanByHand, CreateWorkerPlan, BecomeUnavailable, Fail,
                  Crash, Overtakes, vars
  <2> QED BY <2>1, <2>2, <2>3
<1> QED BY <1>1, SMTT(30)

(* Nor has it then met a pending hook.                                       *)
LEMMA NotMixed ==
    ASSUME Inv, ~Mixed
    PROVE  Inductive /\ Undisturbed
<1>1. ~MeetsHook
    BY SMTT(30) DEF Mixed, MeetsHook
<1> QED BY <1>1 DEF Inv, Inductive

(* The machine controller changes the plan only while a Machine is marked.   *)
LEMMA MachineControllerLoops ==
    ASSUME NEW m \in Machine, Inductive, Undisturbed, Follow, MachineController(m), ~Mixed
    PROVE  LoopsFollow'
<1> USE DEF machines, capiVars, reconciler
<1>0. PlanOK(plan) /\ LoopsFollow /\ CallOK(m)
    BY DEF Inductive, Typed, Order, Follow
<1>1. /\ UNCHANGED <<capi, loops, pc, mem>> /\ history \subseteq history'
      /\ "fallback" \in history' => "fallback" \in history
    BY DEF MachineController, SetUpdating, DoUpdateMachine, DeleteOldPlan, createAutopilotPlanForMachine,
           CompleteUpdate, Overtakes
<1>2. \A k \in Machine : Touched(k)' => Touched(k)
    BY MachineControllerUndisturbed DEF Inductive
<1>3. HooksOnly' <=> HooksOnly
    BY <1>1 DEF HooksOnly
<1>4. CASE plan' = plan
    BY <1>0, <1>1, <1>2, <1>3, <1>4, LoopsFrame
<1>5. CASE plan' # plan
  <2>1. call[m].at \in {"delete", "create"}
      BY <1>5 DEF MachineController, SetUpdating, DoUpdateMachine, DeleteOldPlan,
                  createAutopilotPlanForMachine, CompleteUpdate
  <2>2. Touched(m) /\ capi
      BY <1>0, <2>1 DEF CallOK, Touched
  <2>3. loops = {} \/ (~HooksOnly /\ "byHand" \in history)
      BY <1>0, <2>2 DEF LoopsFollow
  <2>4. CASE HooksOnly
      BY <1>1, <1>3, <2>3, <2>4 DEF LoopsFollow
  <2>5. CASE ~HooksOnly
    <3>1. history \subseteq {"fallback"}
        BY <2>2, <2>5 DEF HooksOnly, Mixed
    <3>2. pc \notin {"plan", "ensure", "delete", "run"}
        BY <2>2, <3>1, NoneTouched
    <3>3. loops = {}
        BY <2>3, <3>1
    <3> QED BY <1>1, <3>2, <3>3, NoLoopsFrame
  <2> QED BY <2>4, <2>5
<1> QED BY <1>4, <1>5

LEMMA NextFollow ==
    ASSUME Inductive, Undisturbed, Order', Versions, Follow, [Next]_vars, ~Mixed, ~Mixed'
    PROVE  Follow'
<1> USE DEF machines, capiVars, reconciler
<1>0. /\ MachinesOK /\ PlanOK(plan) /\ ScopeOK /\ Progress /\ LoopsFollow
      /\ \A k \in Machine : Recorded(k) /\ Read(k) /\ CallOK(k) /\ CallOK(k)'
    BY DEF Inductive, Typed, Order, Versions, Follow
<1>1. capi' = capi /\ (HooksOnly' => HooksOnly) /\ history \subseteq history'
    BY HistoryGrows, NextHistory
<1>2. CASE Reconcile
    BY <1>1, <1>2, ReconcileVersions, ReconcileLoops DEF Follow
<1>3. ASSUME NEW m \in Machine, MachineController(m) PROVE Follow'
    BY <1>0, <1>1, <1>3, MachineControllerVersions, MachineControllerLoops DEF Follow
<1>4. CASE updateMachineVersions
  <2>1. UNCHANGED <<hook, history>> /\ loops # {}
      BY <1>4 DEF updateMachineVersions, PollPlan, updateMachineVersion
  <2>2. ~HooksOnly' /\ \A k \in Machine : ~hook'[k]
    <3>1. ~HooksOnly /\ \A k \in Machine : ~hook[k]
        BY <2>1, LoopsAlone
    <3> QED BY <1>1, <2>1, <3>1
  <2>3. ASSUME NEW k \in Machine PROVE Recorded(k)' /\ Read(k)'
      BY <1>0, <2>2, NoHookRecorded DEF Read
  <2> QED BY <1>4, <2>3, GoroutineLoops DEF Follow
<1>5. CASE Recover \/ Edit \/ BecomeUnavailable \/ Fail \/ Crash \/ UNCHANGED vars
  <2>1. /\ UNCHANGED <<capi, version, call, latch, hook, plan, node, history>> /\ loops' \subseteq loops
        /\ UNCHANGED <<pc, mem>> \/ Done
      BY <1>5 DEF Recover, Edit, BecomeUnavailable, Fail, Crash, vars
  <2>2. ASSUME NEW k \in Machine PROVE Recorded(k)' /\ Read(k)'
      BY <1>0, <1>1, <2>1, RecordedFrame, ReadFrame
  <2>3. LoopsFollow'
      BY <1>0, <2>1, LoopsFrame DEF Done, HooksOnly, Touched
  <2> QED BY <2>2, <2>3 DEF Follow
<1>6. CASE Autopilot \/ PlanFails \/ DeletePlanByHand \/ CreateWorkerPlan
  <2>1. UNCHANGED <<capi, version, call, latch, hook, pc, mem, loops>>
      BY <1>6 DEF Autopilot, PlanFails, DeletePlanByHand, CreateWorkerPlan
  <2>2. \/ plan'.targets = {} /\ node' = node
        \/ plan' = [plan EXCEPT !.state = "unexpected"] /\ node' = node
        \/ Autopilot
      BY <1>6, SMTT(30) DEF PlanFails, DeletePlanByHand, CreateWorkerPlan, NoPlan, Plan
  <2>3. plan'.targets = {} \/ (plan'.targets = plan.targets /\ plan'.version = plan.version)
    <3>1. CASE plan'.targets = {}
        BY <3>1
    <3>2. CASE plan' = [plan EXCEPT !.state = "unexpected"]
        BY <1>0, <3>2 DEF PlanOK, PlanRecord
    <3>3. CASE Autopilot
        BY <1>0, <3>3 DEF Autopilot, PlanOK, PlanRecord
    <3> QED BY <2>2, <3>1, <3>2, <3>3
  <2>4. ASSUME NEW k \in Machine PROVE Recorded(k)' /\ Read(k)'
    <3>1. Recorded(k)'
        BY <1>0, <2>1, <2>2, RecordedFrame
    <3>2. Read(k)'
        BY <1>0, <1>1, <2>1, <2>3, ReadFrame
    <3> QED BY <3>1, <3>2
  <2>5. LoopsFollow'
    <3>1. CASE Autopilot \/ PlanFails
      <4>1. /\ plan.state = "running" /\ history' = history /\ plan'.exists = plan.exists
            /\ plan'.version = plan.version /\ plan.done \subseteq plan'.done
          BY <1>0, <3>1 DEF Autopilot, PlanFails, PlanOK, PlanRecord
      <4> QED BY <1>0, <2>1, <4>1 DEF LoopsFollow, HooksOnly, Touched
    <3>2. CASE DeletePlanByHand
      <4>1. "byHand" \in history' /\ loops' = loops
          BY <2>1, <3>2 DEF DeletePlanByHand
      <4>2. HooksOnly => loops = {}
          BY <1>0 DEF LoopsFollow
      <4> QED BY <1>1, <4>1, <4>2 DEF LoopsFollow
    <3>3. CASE CreateWorkerPlan
      <4>1. ~plan.exists /\ plan.state # "completed" /\ history' = history
          BY <1>0, <3>3 DEF CreateWorkerPlan, PlanOK
      <4> QED BY <1>0, <2>1, <4>1 DEF LoopsFollow, HooksOnly, Touched
    <3> QED BY <1>6, <3>1, <3>2, <3>3
  <2> QED BY <2>4, <2>5 DEF Follow
<1>7. ASSUME NEW w \in Workers, UpdateWorker(w) PROVE Follow'
  <2>0. w \in Machine /\ w \notin Controllers
      BY Kinds
  <2>1. /\ UNCHANGED <<call, plan, node, pc, mem, loops>> /\ call[w].at = "idle"
        /\ capi /\ "worker" \in history'
      BY <1>7, SMTT(30) DEF UpdateWorker, Idle
  <2>2. \A k \in Machine : k # w => version'[k] = version[k] /\ hook'[k] = hook[k]
      BY <1>0, <1>7, <2>0 DEF UpdateWorker, MachinesOK
  <2>3. "fallback" \notin history'
    <3>1. history' # {"fallback"}
        BY <2>1, SMTT(30)
    <3> QED BY <3>1 DEF Mixed
  <2>4. HooksOnly' /\ loops = {}
      BY <1>0, <1>1, <2>1, <2>3 DEF LoopsFollow, HooksOnly
  <2>5. ASSUME NEW k \in Machine PROVE Recorded(k)' /\ Read(k)'
    <3>1. CASE k = w
        BY <2>0, <2>1, <3>1 DEF Recorded, Read, Finishing
    <3>2. CASE k # w
        BY <1>0, <1>1, <2>1, <2>2, <3>2, RecordedFrame, ReadFrame
    <3> QED BY <3>1, <3>2
  <2> QED BY <2>1, <2>4, <2>5 DEF Follow, LoopsFollow
<1> QED BY <1>2, <1>3, <1>4, <1>5, <1>6, <1>7 DEF Next, System

LEMMA NextVersions == Inv /\ Versions /\ [Next]_vars => Versions'
<1> SUFFICES ASSUME Inv, Versions, [Next]_vars PROVE Versions'
    OBVIOUS
<1>1. Progress'
    BY NextPlan, ProgressNext DEF Inv, Typed, Versions
<1>2. "fallback" \in history' => capi'
  <2>1. capi' = capi
      BY HistoryGrows
  <2>2. CASE runStandaloneAutopilotPlan
    <3>1. capi \/ history' = history
        BY <2>2 DEF runStandaloneAutopilotPlan
    <3> QED BY <2>1, <3>1 DEF Versions
  <2>3. CASE ~runStandaloneAutopilotPlan
    <3>1. "fallback" \in history' => "fallback" \in history
        BY <2>3, FallbackOnly
    <3> QED BY <2>1, <3>1 DEF Versions
  <2> QED BY <2>2, <2>3
<1>3. ASSUME ~Mixed' PROVE Follow'
  <2>1. ~Mixed /\ ~MeetsHook'
    <3>1. history \subseteq history'
        BY NextHistory
    <3> QED BY <1>3, <3>1 DEF Mixed, MeetsHook
  <2>2. Inductive /\ Undisturbed /\ Follow
      BY <2>1, NotMixed DEF Versions
  <2>3. Order'
      BY <2>1, NextInv DEF Inv
  <2> QED BY <1>3, <2>1, <2>2, <2>3, NextFollow
<1> QED BY <1>1, <1>2, <1>3 DEF Versions

LEMMA VersionsRecorded ==
    ASSUME Inductive, Versions, [Next]_vars, ~Mixed, NEW m \in Machine
    PROVE  /\ version'[m] # version[m] /\ hook'[m] = hook[m] => node[m] = version'[m] \/ "byHand" \in history
           /\ hook[m] /\ ~hook'[m] => node[m] = version[m]
<1> USE DEF machines, capiVars, reconciler
<1>0. /\ MachinesOK /\ PlanOK(plan) /\ ScopeOK /\ LoopsOK /\ TriggerOK /\ Progress /\ LoopsFollow
      /\ Recorded(m) /\ \A k \in Machine : Read(k) /\ (InScope(k) => CopyOK(k))
    BY DEF Inductive, Typed, Order, Versions, Follow
<1>1. ASSUME version'[m] # version[m], hook'[m] = hook[m], "byHand" \notin history
      PROVE  node[m] = version'[m]
  <2>1. CASE ensureTargetMachinesWithTargetVersion
    <3>1. PICK k \in Behind : version' = [version EXCEPT ![k] = mem.plan.version]
        BY <1>1, <2>1 DEF ensureTargetMachinesWithTargetVersion
    <3>2. pc = "ensure" /\ k \in Controllers /\ k \in Machine /\ k \in mem.plan.targets
          /\ mem.version[k] # mem.plan.version
        BY <2>1, Kinds DEF ensureTargetMachinesWithTargetVersion, Behind
    <3>3. InScope(k) /\ Read(k)
        BY <1>0, <3>2 DEF InScope
    <3>4. ~HooksOnly
        BY <3>2, <3>3 DEF Read
    <3>5. mem.plan = plan /\ plan.state = "completed"
        BY <1>0, <1>1, <3>2, <3>4 DEF LoopsFollow
    <3>6. k \in plan.done
        BY <1>0, <3>2, <3>5 DEF Progress
    <3>7. k = m /\ version'[m] = plan.version
        BY <1>0, <1>1, <3>1, <3>2, <3>5 DEF MachinesOK
    <3> QED BY <1>0, <3>6, <3>7 DEF Progress
  <2>2. CASE updateMachineVersions
    <3>1. PICK l \in loops : updateMachineVersion(l)
        BY <1>1, <2>2 DEF updateMachineVersions, PollPlan
    <3>2. PICK k \in l.todo : version' = [version EXCEPT ![k] = l.version]
        BY <3>1 DEF updateMachineVersion
    <3>3. l.version = plan.version /\ k \in plan.done
        BY <1>0, <1>1 DEF LoopsFollow
    <3>4. k \in Machine
        BY <1>0, <3>3 DEF PlanOK, PlanRecord
    <3>5. k = m /\ version'[m] = plan.version
        BY <1>0, <1>1, <3>2, <3>3, <3>4 DEF MachinesOK
    <3> QED BY <1>0, <3>3, <3>5 DEF Progress
  <2>3. CASE MarkHookPending
    <3> DEFINE k == Min(mem.todo)
    <3>1. /\ pc = "hook" /\ ~mem.hook[k]
          /\ version' = [version EXCEPT ![k] = mem.desired] /\ hook' = [hook EXCEPT ![k] = TRUE]
        BY <1>1, <2>3 DEF MarkHookPending
    <3>2. mem.todo \in SUBSET Controllers /\ mem.todo # {}
        BY <1>0, <3>1 DEF ScopeOK, ScopeRecord
    <3>3. k \in mem.todo /\ k \in Controllers /\ k \in Machine
        BY <3>2, MinIsThere
    <3> HIDE DEF k
    <3>4. ~hook[k]
      <4>1. InScope(k)
          BY <3>1, <3>3 DEF InScope
      <4> QED BY <1>0, <3>1, <3>3, <4>1 DEF CopyOK
    <3>5. m = k
        BY <1>0, <1>1, <3>1, <3>3 DEF MachinesOK
    <3> QED BY <1>0, <1>1, <3>1, <3>3, <3>4, <3>5 DEF MachinesOK
  <2>4. ASSUME NEW w \in Workers, UpdateWorker(w) PROVE FALSE
    <3>1. PICK v \in Version : version' = [version EXCEPT ![w] = v]
        BY <2>4 DEF UpdateWorker
    <3>2. ~hook[w] /\ hook' = [hook EXCEPT ![w] = TRUE] /\ w \in Machine
        BY <2>4, Kinds DEF UpdateWorker
    <3>3. m = w
        BY <1>0, <1>1, <3>1, <3>2 DEF MachinesOK
    <3> QED BY <1>0, <1>1, <3>2, <3>3 DEF MachinesOK
  <2>5. CASE /\ ~ensureTargetMachinesWithTargetVersion /\ ~updateMachineVersions /\ ~MarkHookPending
             /\ ~(\E w \in Workers : UpdateWorker(w))
    <3>1. version' = version
      <4>1. CASE Reconcile
          BY <2>5, <4>1 DEF Reconcile, Start, GetPlan, DeletePlan, runStandaloneAutopilotPlan, RunCapi,
                            Latch, Mark
      <4>2. CASE \E k \in Machine : MachineController(k)
          BY <4>2 DEF MachineController, SetUpdating, DoUpdateMachine, DeleteOldPlan,
                      createAutopilotPlanForMachine, CompleteUpdate
      <4>3. CASE ~Reconcile /\ ~(\E k \in Machine : MachineController(k))
          BY <2>5, <4>3 DEF Next, System, Autopilot, Recover, Edit, PlanFails, DeletePlanByHand,
                            CreateWorkerPlan, BecomeUnavailable, Fail, Crash, vars
      <4> QED BY <4>1, <4>2, <4>3
    <3> QED BY <1>1, <3>1
  <2> QED BY <2>1, <2>2, <2>3, <2>4, <2>5
<1>2. ASSUME hook[m], ~hook'[m] PROVE node[m] = version[m]
  <2>1. CASE \E k \in Machine : MachineController(k)
    <3>1. PICK k \in Machine : MachineController(k)
        BY <2>1
    <3>2. call[k].at = "unhook" /\ hook' = [hook EXCEPT ![k] = FALSE]
        BY <1>2, <3>1 DEF MachineController, SetUpdating, DoUpdateMachine, DeleteOldPlan,
                          createAutopilotPlanForMachine, CompleteUpdate
    <3>3. k = m
        BY <1>0, <1>2, <3>2 DEF MachinesOK
    <3> QED BY <1>0, <3>2, <3>3 DEF Recorded, Finishing
  <2>2. CASE MarkHookPending
      BY <1>0, <1>2, <2>2 DEF MarkHookPending, MachinesOK
  <2>3. CASE \E w \in Workers : UpdateWorker(w)
      BY <1>0, <1>2, <2>3 DEF UpdateWorker, MachinesOK
  <2>4. CASE /\ ~(\E k \in Machine : MachineController(k)) /\ ~MarkHookPending
             /\ ~(\E w \in Workers : UpdateWorker(w))
    <3>1. hook' = hook
      <4>1. CASE Reconcile
          BY <2>4, <4>1 DEF Reconcile, Start, GetPlan, ensureTargetMachinesWithTargetVersion, DeletePlan,
                            runStandaloneAutopilotPlan, RunCapi, Latch, Mark
      <4>2. CASE ~Reconcile
          BY <2>4, <4>2 DEF Next, System, updateMachineVersions, PollPlan, updateMachineVersion, Autopilot,
                            Recover, Edit, PlanFails, DeletePlanByHand, CreateWorkerPlan,
                            BecomeUnavailable, Fail, Crash, vars
      <4> QED BY <4>1, <4>2
    <3> QED BY <1>2, <3>1
  <2> QED BY <2>1, <2>2, <2>3, <2>4
<1> QED BY <1>1, <1>2

(* A version is recorded on a Machine only once its node runs it             *)
(* (updateMachineVersions, ensureTargetMachinesWithTargetVersion), and an    *)
(* update through Cluster API ends with the node at the Machine's version    *)
(* (doUpdateMachine): for any number of Machines, plans and interruptions.   *)
(* The exceptions are a plan deleted by hand, which leaves its goroutine     *)
(* behind, and a plan of the controller's own beside the extension's.        *)
THEOREM RecordedVersionRunsHolds == Spec => RecordedVersionRuns
<1>1. Init => Inv /\ Versions
    BY InitInv, InitVersions
<1>2. Inv /\ Versions /\ [Next]_vars => (Inv /\ Versions)'
    BY NextInv, NextVersions
<1>3. ASSUME Inv, Versions, [Next]_vars, NEW m \in Machine
      PROVE  /\ version'[m] # version[m] /\ hook'[m] = hook[m] =>
                    node[m] = version'[m] \/ "byHand" \in history \/ Mixed
             /\ hook[m] /\ ~hook'[m] => node[m] = version[m] \/ Mixed
  <2>1. CASE Mixed
      BY <2>1
  <2>2. CASE ~Mixed
    <3>1. Inductive
        BY <1>3, <2>2, NotMixed
    <3> QED BY <1>3, <2>2, <3>1, VersionsRecorded
  <2> QED BY <2>1, <2>2
<1>4. Inv /\ Versions /\ [Next]_vars =>
        [\A m \in Machine :
            /\ version'[m] # version[m] /\ hook'[m] = hook[m] =>
                  node[m] = version'[m] \/ "byHand" \in history \/ Mixed
            /\ hook[m] /\ ~hook'[m] => node[m] = version[m] \/ Mixed]_vars
    BY <1>3
<1> QED BY <1>1, <1>2, <1>4, PTL DEF Spec, RecordedVersionRuns

----------------------------------------------------------------------------
(* The running plan.                                                         *)

(* Those who will delete the plan have seen it completed, and unless one of  *)
(* them has overtaken the others it still is the plan that was seen.         *)
PlanIsOver == "overtaken" \in history \/ Deciders = {} \/ plan.state = "completed"

(* Which takes a worker's call, a deletion by hand or two Machines at a time.*)
Overtaken == "overtaken" \in history => history \cap {"unseen", "byHand", "worker"} # {}

LEMMA ZeroIsNone == 0 \notin Machine
BY SMTT(30) DEF Machine, Controllers, Workers

(* A step that leaves the plan alone, and after which nobody new decides.    *)
LEMMA DecidersFrame ==
    ASSUME PlanIsOver, history \subseteq history', plan' = plan,
           \A k \in Machine : call'[k].at = "delete" => call[k].at = "delete",
           \/ pc' \notin {"ensure", "delete"}
           \/ pc \in {"ensure", "delete"} /\ (mem'.outdated # {} => mem.outdated # {})
    PROVE  PlanIsOver'
<1>1. Deciders' \subseteq Deciders
    BY DEF Deciders
<1> QED BY <1>1 DEF PlanIsOver

(* Without a plan that is completed nobody decides.                          *)
LEMMA NobodyDecides ==
    ASSUME PlanIsOver, "overtaken" \notin history, plan.state # "completed"
    PROVE  /\ \A k \in Machine : call[k].at # "delete"
           /\ ~(pc \in {"ensure", "delete"} /\ mem.outdated # {})
BY DEF PlanIsOver, Deciders

(* Nor does anybody after the step.                                          *)
LEMMA NobodyDecidesNext ==
    ASSUME \A k \in Machine : call'[k].at # "delete",
           ~(pc' \in {"ensure", "delete"} /\ mem'.outdated # {})
    PROVE  PlanIsOver'
BY DEF PlanIsOver, Deciders

LEMMA ReconcileIsOver ==
    ASSUME Typed, PlanIsOver, Reconcile, history \subseteq history', "overtaken" \notin history'
    PROVE  PlanIsOver'
<1> USE DEF machines, capiVars, reconciler
<1>0. PlanOK(plan) /\ ScopeOK /\ "overtaken" \notin history
    BY DEF Typed
<1>1. CASE Start \/ RunCapi \/ Latch \/ Mark \/ MarkHookPending
  <2>1. UNCHANGED <<call, plan>> /\ pc' \notin {"ensure", "delete"}
      BY <1>1 DEF Start, RunCapi, Latch, Mark, MarkHookPending
  <2> QED BY <2>1, DecidersFrame
<1>2. CASE GetPlan
  <2>0. UNCHANGED <<call, plan>>
      BY <1>2 DEF GetPlan
  <2>1. CASE IsPlanCompleted(plan)
      BY <2>0, <2>1 DEF PlanIsOver, IsPlanCompleted
  <2>2. CASE ~IsPlanCompleted(plan)
    <3>1. pc' \notin {"ensure", "delete"}
      <4>1. CASE ~plan.exists /\ mem.outdated # {}
          BY <1>2, <2>2, <4>1 DEF GetPlan
      <4>2. CASE ~(~plan.exists /\ mem.outdated # {})
          BY <1>2, <2>2, <4>2 DEF GetPlan, Done
      <4> QED BY <4>1, <4>2
    <3> QED BY <2>0, <3>1, DecidersFrame
  <2> QED BY <2>1, <2>2
<1>3. CASE ensureTargetMachinesWithTargetVersion
  <2>0. UNCHANGED <<call, plan>> /\ pc = "ensure" /\ mem \in ScopeRecord
      BY <1>0, <1>3 DEF ensureTargetMachinesWithTargetVersion, ScopeOK
  <2>1. pc' = "idle" \/ mem'.outdated = mem.outdated
    <3>1. CASE Behind # {}
        BY <1>3, <2>0, <3>1 DEF ensureTargetMachinesWithTargetVersion, ScopeRecord
    <3>2. CASE Behind = {}
        BY <1>3, <3>2 DEF ensureTargetMachinesWithTargetVersion, Done
    <3> QED BY <3>1, <3>2
  <2> QED BY <2>0, <2>1, DecidersFrame
<1>4. CASE DeletePlan
  <2>0. call' = call /\ pc = "delete" /\ pc' = "run" /\ mem.outdated # {}
        /\ history' = history \cup Overtakes(Deciders \ {0})
      BY <1>0, <1>4 DEF DeletePlan, ScopeOK
  <2>1. plan.exists
      BY <1>0, <2>0, NobodyDecides DEF PlanOK
  <2>2. Deciders \ {0} = {}
      BY <2>0, <2>1 DEF Overtakes
  <2>3. \A k \in Machine : call[k].at # "delete"
      BY <2>2, ZeroIsNone DEF Deciders
  <2> QED BY <2>0, <2>3, NobodyDecidesNext
<1>5. CASE runStandaloneAutopilotPlan
  <2>0. call' = call /\ pc' = "idle"
      BY <1>5 DEF runStandaloneAutopilotPlan, Done
  <2>1. CASE plan.exists
    <3>1. plan' = plan
        BY <1>5, <2>1 DEF runStandaloneAutopilotPlan
    <3> QED BY <2>0, <3>1, DecidersFrame
  <2>2. CASE ~plan.exists
    <3>1. \A k \in Machine : call[k].at # "delete"
        BY <1>0, <2>2, NobodyDecides DEF PlanOK
    <3> QED BY <2>0, <3>1, NobodyDecidesNext
  <2> QED BY <2>1, <2>2
<1> QED BY <1>1, <1>2, <1>3, <1>4, <1>5 DEF Reconcile

LEMMA MachineControllerIsOver ==
    ASSUME NEW m \in Machine, Typed, PlanIsOver, MachineController(m),
           history \subseteq history', "overtaken" \notin history'
    PROVE  PlanIsOver'
<1> USE DEF machines, capiVars, reconciler
<1>0. MachinesOK /\ PlanOK(plan) /\ CallsOK /\ "overtaken" \notin history
    BY DEF Typed
<1>1. UNCHANGED <<pc, mem>>
    BY MachineControllerUndisturbed
<1>2. CASE SetUpdating(m) \/ CompleteUpdate(m)
  <2>1. plan' = plan /\ \E label \in {"idle", "unmark", "unhook", "report"} : At(m, label, 0)
      BY <1>2 DEF SetUpdating, CompleteUpdate
  <2>2. \A k \in Machine : call'[k].at = "delete" => call[k].at = "delete"
      BY <1>0, <2>1, AtLabel
  <2> QED BY <1>1, <2>1, <2>2, DecidersFrame
<1>3. CASE DoUpdateMachine(m)
  <2>0. plan' = plan
      BY <1>3 DEF DoUpdateMachine
  <2>1. CASE IsPlanCompleted(plan)
      BY <2>0, <2>1 DEF PlanIsOver, IsPlanCompleted
  <2>2. CASE ~IsPlanCompleted(plan)
    <3>1. PICK label \in {"create", "report"} : At(m, label, version[m])
      <4>1. CASE ~plan.exists
          BY <1>3, <2>2, <4>1 DEF DoUpdateMachine
      <4>2. CASE plan.exists
          BY <1>3, <2>2, <4>2 DEF DoUpdateMachine
      <4> QED BY <4>1, <4>2
    <3>2. \A k \in Machine : call'[k].at = "delete" => call[k].at = "delete"
        BY <1>0, <3>1, AtLabel
    <3> QED BY <1>1, <2>0, <3>2, DecidersFrame
  <2> QED BY <2>1, <2>2
<1>4. CASE DeleteOldPlan(m)
  <2>0. call[m].at = "delete" /\ history' = history \cup Overtakes(Deciders \ {m})
      BY <1>4 DEF DeleteOldPlan
  <2>1. plan.exists
      BY <1>0, <2>0, NobodyDecides DEF PlanOK
  <2>2. Deciders \ {m} = {}
      BY <2>0, <2>1 DEF Overtakes
  <2>3. At(m, "create", call[m].version)
      BY <1>4, <2>1 DEF DeleteOldPlan
  <2>4. \A k \in Machine : call'[k].at = IF k = m THEN "create" ELSE call[k].at
      BY <1>0, <2>3, AtLabel
  <2>5. \A k \in Machine : call'[k].at # "delete"
      BY <2>2, <2>4 DEF Deciders
  <2>6. ~(pc \in {"ensure", "delete"} /\ mem.outdated # {})
    <3>1. 0 \notin Deciders
        BY <2>2, ZeroIsNone
    <3> QED BY <3>1 DEF Deciders
  <2> QED BY <1>1, <2>5, <2>6, NobodyDecidesNext
<1>5. CASE createAutopilotPlanForMachine(m)
  <2>1. At(m, "report", call[m].version)
      BY <1>5 DEF createAutopilotPlanForMachine
  <2>2. \A k \in Machine : call'[k].at = "delete" => call[k].at = "delete"
    <3>1. \A k \in Machine : call'[k].at = IF k = m THEN "report" ELSE call[k].at
        BY <1>0, <2>1, AtLabel
    <3> QED BY <3>1
  <2>3. CASE plan.exists
    <3>1. plan' = plan
        BY <1>5, <2>3 DEF createAutopilotPlanForMachine
    <3> QED BY <1>1, <2>2, <3>1, DecidersFrame
  <2>4. CASE ~plan.exists
    <3>1. /\ \A k \in Machine : call[k].at # "delete"
          /\ ~(pc \in {"ensure", "delete"} /\ mem.outdated # {})
        BY <1>0, <2>4, NobodyDecides DEF PlanOK
    <3> QED BY <1>1, <2>2, <3>1, NobodyDecidesNext
  <2> QED BY <2>3, <2>4
<1> QED BY <1>2, <1>3, <1>4, <1>5 DEF MachineController

LEMMA NextIsOver == Typed /\ PlanIsOver /\ [Next]_vars => PlanIsOver'
<1> SUFFICES ASSUME Typed, PlanIsOver, [Next]_vars, "overtaken" \notin history' PROVE PlanIsOver'
    BY DEF PlanIsOver
<1> USE DEF machines, capiVars, reconciler
<1>0. PlanOK(plan) /\ history \subseteq history' /\ "overtaken" \notin history
    BY NextHistory DEF Typed
<1>1. CASE Reconcile
    BY <1>0, <1>1, ReconcileIsOver
<1>2. ASSUME NEW m \in Machine, MachineController(m) PROVE PlanIsOver'
    BY <1>0, <1>2, MachineControllerIsOver
<1>3. CASE updateMachineVersions \/ Recover \/ Edit \/ BecomeUnavailable \/ Fail \/ Crash \/ UNCHANGED vars
           \/ \E w \in Workers : UpdateWorker(w)
  <2>1. UNCHANGED <<call, plan>> /\ (UNCHANGED <<pc, mem>> \/ pc' = "idle")
      BY <1>3 DEF updateMachineVersions, PollPlan, updateMachineVersion, Recover, Edit, BecomeUnavailable,
                  Fail, Crash, Done, UpdateWorker, vars
  <2> QED BY <1>0, <2>1, DecidersFrame
<1>4. CASE Autopilot \/ PlanFails \/ CreateWorkerPlan
  <2>1. UNCHANGED <<call, pc, mem>> /\ plan.state # "completed"
      BY <1>0, <1>4 DEF Autopilot, PlanFails, CreateWorkerPlan, PlanOK
  <2> QED BY <1>0, <2>1, NobodyDecides, NobodyDecidesNext
<1>5. CASE DeletePlanByHand
  <2>1. UNCHANGED <<call, pc, mem>> /\ plan.exists /\ history' = history \cup {"byHand"} \cup Overtakes(Deciders)
      BY <1>5 DEF DeletePlanByHand
  <2>2. Deciders = {}
      BY <2>1 DEF Overtakes
  <2> QED BY <2>1, <2>2, NobodyDecidesNext DEF Deciders
<1> QED BY <1>1, <1>2, <1>3, <1>4, <1>5 DEF Next, System

(* One is overtaken only where a plan is deleted.                            *)
LEMMA OvertakenOnly ==
    ASSUME [Next]_vars, "overtaken" \in history', "overtaken" \notin history
    PROVE  \/ DeletePlan /\ Deciders \ {0} # {}
           \/ \E m \in Machine : DeleteOldPlan(m) /\ Deciders \ {m} # {}
           \/ DeletePlanByHand
<1>1. CASE DeletePlan
    BY <1>1 DEF DeletePlan, Overtakes
<1>2. ASSUME NEW m \in Machine, DeleteOldPlan(m) PROVE Deciders \ {m} # {}
    BY <1>2 DEF DeleteOldPlan, Overtakes
<1>3. CASE ~DeletePlan /\ ~DeletePlanByHand /\ ~(\E m \in Machine : DeleteOldPlan(m))
  <2>1. history' \subseteq history \cup {"unseen", "fallback", "worker"}
    <3>1. CASE Reconcile
        BY <1>3, <3>1 DEF Reconcile, Start, GetPlan, ensureTargetMachinesWithTargetVersion, RunCapi,
                          runStandaloneAutopilotPlan, Latch, Mark, MarkHookPending
    <3>2. CASE \E k \in Machine : MachineController(k)
        BY <1>3, <3>2 DEF MachineController, SetUpdating, DoUpdateMachine, createAutopilotPlanForMachine,
                          CompleteUpdate
    <3>3. CASE ~Reconcile /\ ~(\E k \in Machine : MachineController(k))
        BY <1>3, <3>3 DEF Next, System, updateMachineVersions, PollPlan, updateMachineVersion, Autopilot,
                          Recover, Edit, UpdateWorker, PlanFails, CreateWorkerPlan, BecomeUnavailable, Fail,
                          Crash, vars
    <3> QED BY <3>1, <3>2, <3>3
  <2> QED BY <2>1, SMTT(30)
<1> QED BY <1>1, <1>2, <1>3

LEMMA NextOvertaken == Inv /\ Overtaken /\ [Next]_vars => Overtaken'
<1> SUFFICES ASSUME Inv, Overtaken, [Next]_vars, "overtaken" \in history',
                    history' \cap {"unseen", "byHand", "worker"} = {}
             PROVE  FALSE
    BY DEF Overtaken
<1>0. history \cap {"unseen", "byHand", "worker"} = {} /\ "overtaken" \notin history
  <2>1. history \subseteq history'
      BY NextHistory
  <2> QED BY <2>1 DEF Overtaken
<1>1. /\ "unseen" \notin history /\ "worker" \notin history /\ "byHand" \notin history'
    BY <1>0
<1>2. OneAtATime /\ Order /\ \A w \in Workers : ~Touched(w)
    BY <1>1 DEF Inv, Undisturbed, MeetsHook
<1>3. ASSUME NEW k \in Machine, call[k].at = "delete" PROVE k \in Controllers /\ Touched(k)
  <2>1. CallOK(k)
      BY <1>2 DEF Order
  <2>2. Touched(k)
      BY <1>3, <2>1 DEF CallOK, Touched
  <2> QED BY <1>2, <2>2 DEF Machine
<1>4. CASE DeletePlan /\ Deciders \ {0} # {}
  <2>1. PICK k \in Machine : call[k].at = "delete"
      BY <1>4 DEF Deciders
  <2>2. pc = "delete"
      BY <1>4 DEF DeletePlan
  <2> QED BY <1>2, <1>3, <2>1, <2>2 DEF OneAtATime
<1>5. ASSUME NEW m \in Machine, DeleteOldPlan(m), Deciders \ {m} # {} PROVE FALSE
  <2>1. call[m].at = "delete"
      BY <1>5 DEF DeleteOldPlan
  <2>2. m \in Controllers /\ Touched(m)
      BY <1>3, <2>1
  <2>3. pc \notin {"ensure", "delete"}
      BY <1>2, <2>2 DEF OneAtATime
  <2>4. PICK k \in Machine : k # m /\ call[k].at = "delete"
      BY <1>5, <2>3 DEF Deciders
  <2> QED BY <1>2, <1>3, <2>2, <2>4 DEF OneAtATime
<1>6. CASE DeletePlanByHand
    BY <1>1, <1>6 DEF DeletePlanByHand
<1> QED BY <1>0, <1>4, <1>5, <1>6, OvertakenOnly

LEMMA RunningKept ==
    ASSUME Typed, PlanIsOver, [Next]_vars, plan.state = "running", ~DeletePlanByHand, ~plan'.exists
    PROVE  "overtaken" \in history
<1> USE DEF machines, capiVars, reconciler
<1>0. PlanOK(plan) /\ plan.exists /\ ScopeOK
    BY DEF Typed, PlanOK
<1>1. CASE Reconcile
  <2>1. CASE DeletePlan
    <3>1. pc = "delete" /\ mem.outdated # {}
        BY <1>0, <2>1 DEF DeletePlan, ScopeOK
    <3> QED BY <3>1, NobodyDecides
  <2>2. CASE ~DeletePlan
      BY <1>0, <1>1, <2>2 DEF Reconcile, Start, GetPlan, ensureTargetMachinesWithTargetVersion,
                              runStandaloneAutopilotPlan, RunCapi, Latch, Mark, MarkHookPending
  <2> QED BY <2>1, <2>2
<1>2. ASSUME NEW m \in Machine, MachineController(m) PROVE "overtaken" \in history
  <2>1. CASE DeleteOldPlan(m)
      BY <2>1, NobodyDecides DEF DeleteOldPlan
  <2>2. CASE ~DeleteOldPlan(m)
      BY <1>0, <1>2, <2>2 DEF MachineController, SetUpdating, DoUpdateMachine,
                              createAutopilotPlanForMachine, CompleteUpdate
  <2> QED BY <2>1, <2>2
<1>3. CASE Autopilot \/ PlanFails
    BY <1>0, <1>3 DEF Autopilot, PlanFails, PlanOK, PlanRecord
<1>4. CASE updateMachineVersions \/ Recover \/ Edit \/ CreateWorkerPlan \/ BecomeUnavailable \/ Fail \/ Crash
           \/ UNCHANGED vars \/ \E w \in Workers : UpdateWorker(w)
    BY <1>0, <1>4 DEF updateMachineVersions, PollPlan, updateMachineVersion, Recover, Edit, UpdateWorker,
                      CreateWorkerPlan, BecomeUnavailable, Fail, Crash, vars
<1> QED BY <1>1, <1>2, <1>3, <1>4 DEF Next, System

(* Neither the controller (reconcileInplaceK0sVersionUpdate) nor the         *)
(* extension (doUpdateMachine, for controllers and for workers) takes away a *)
(* plan that autopilot is working on, for any number of Machines, calls and  *)
(* interruptions, unless the completed plan that it decided on was deleted   *)
(* by someone else meanwhile: and that takes a worker that is updated at the *)
(* same time, a plan deleted by hand, or a controller that was woken between *)
(* the hook of a Machine and its Updating condition.                         *)
THEOREM RunningPlanKeptHolds == Spec => RunningPlanKept
<1> DEFINE IInv == Inv /\ PlanIsOver /\ Overtaken
<1>1. Init => IInv
  <2>1. Init => PlanIsOver /\ Overtaken
      BY SMTT(30) DEF Init, PlanIsOver, Overtaken, Deciders, Idle
  <2> QED BY <2>1, InitInv
<1>2. IInv /\ [Next]_vars => IInv'
    BY NextInv, NextIsOver, NextOvertaken DEF Inv
<1>3. IInv /\ [Next]_vars =>
        [plan.state = "running" /\ ~DeletePlanByHand =>
            \/ plan'.exists
            \/ "overtaken" \in history /\ history \cap {"unseen", "byHand", "worker"} # {}]_vars
  <2> SUFFICES ASSUME IInv, [Next]_vars, plan.state = "running", ~DeletePlanByHand, ~plan'.exists
               PROVE  "overtaken" \in history /\ history \cap {"unseen", "byHand", "worker"} # {}
      OBVIOUS
  <2>1. "overtaken" \in history
      BY RunningKept DEF Inv
  <2> QED BY <2>1 DEF Overtaken
<1> HIDE DEF IInv
<1> QED BY <1>1, <1>2, <1>3, PTL DEF Spec, RunningPlanKept
=============================================================================
