------------------------- MODULE AvailabilityProofs -------------------------
(***************************************************************************)
(* Proof that the bookkeeping of Availability, for any grace period, any   *)
(* threshold and any number of restarts, failed patches and recreated      *)
(* objects, implements the debounced condition of DebouncedHealth.         *)
(***************************************************************************)
EXTENDS Availability, TLAPS

(* What no prover is named for goes to Zenon.                               *)
USE ZenonT(30)

USE GraceAssumption, ThresholdAssumption, UidAssumption, DisturbancesAssumption

LEMMA CappedType ==
    ASSUME NEW n \in Nat, NEW max \in Nat
    PROVE  Capped(n, max) \in 0..max
BY SMTT(30) DEF Capped

LEMMA NewObjectType ==
    ASSUME NEW f
    PROVE  NewObject(f) \in Object
BY SMTT(30) DEF NewObject, Object, Condition

LEMMA ConditionType ==
    ASSUME NEW o \in Object, NEW c \in Condition, NEW a \in 0..Grace, NEW b \in BOOLEAN
    PROVE  /\ [o EXCEPT !.cond = c] \in Object
           /\ [o EXCEPT !.cond = c, !.age = a, !.own = b] \in Object
BY DEF Object

LEMMA SetConditionType ==
    ASSUME NEW o \in Object, NEW c \in Condition
    PROVE  SetCondition(o, c) \in Object
<1>1. 0 \in 0..Grace /\ TRUE \in BOOLEAN
    BY SMTT(30)
<1> QED BY <1>1, ConditionType DEF SetCondition

LEMMA AssumedType ==
    ASSUME NEW o \in Object
    PROVE  Assumed(o) \in Object
BY SetConditionType DEF Assumed, Condition

LEMMA OlderType ==
    ASSUME NEW o \in Object
    PROVE  Older(o) \in Object
<1>1. o.age + 1 \in Nat /\ Grace \in Nat
    BY SMTT(30) DEF Object
<1>2. Capped(o.age + 1, Grace) \in 0..Grace
    BY <1>1, CappedType
<1> QED BY <1>2 DEF Older, Object

LEMMA NextFailuresType ==
    ASSUME NEW f \in Failures, NEW o \in Object
    PROVE  NextFailures(f, o) \in Failures
<1>1. f.seen + 1 \in Nat /\ Threshold \in Nat
    BY SMTT(30) DEF Failures
<1>2. Capped(f.seen + 1, Threshold) \in 0..Threshold
    BY <1>1, CappedType
<1> QED BY <1>2, SMTT(30) DEF NextFailures, Failures, Object

LEMMA NothingType == NoScope \in Scope /\ NoFailures \in Failures
BY NewObjectType, SMTT(30) DEF NoScope, Scope, NoFailures, Failures

LEMMA InitType == Init => TypeOK
<1> SUFFICES ASSUME Init PROVE TypeOK
    OBVIOUS
<1>1. failures \in [Uid -> Failures] /\ scope \in Scope
    BY NothingType DEF Init
<1>2. quiet \in 0..Grace /\ budget \in 0..MaxDisturbances
    BY SMTT(30) DEF Init
<1> QED BY <1>1, <1>2, NewObjectType DEF Init, TypeOK

LEMMA ReconcileType ==
    ASSUME TypeOK, Reconcile
    PROVE  TypeOK'
<1> USE DEF TypeOK
<1>1. CASE StartReconcile
  <2>1. PICK o \in Object : scope' = [NoScope EXCEPT !.read = o]
      BY <1>1 DEF StartReconcile, Load
  <2>2. scope' \in Scope
      BY <2>1, NewObjectType DEF NoScope, Scope
  <2>3. budget' \in 0..MaxDisturbances
      BY <1>1, SMTT(30) DEF StartReconcile, Disturb
  <2>4. lagged' \in BOOLEAN /\ wake' \in BOOLEAN
      BY <1>1 DEF StartReconcile
  <2> QED BY <1>1, <2>2, <2>3, <2>4 DEF StartReconcile
<1>2. CASE LookSucceeds
  <2>1. SetCondition(Assumed(scope.read), "True") \in Object
      BY AssumedType, SetConditionType DEF Scope, Condition
  <2>2. [SetCondition(Assumed(scope.read), "True") EXCEPT !.latch = TRUE] \in Object
      BY <2>1 DEF Object
  <2>3. NoFailures \in Failures
      BY SMTT(30) DEF NoFailures, Failures
  <2>4. scope' \in Scope
      BY <1>2, <2>2 DEF LookSucceeds, Scope
  <2> QED BY <1>2, <2>3, <2>4 DEF LookSucceeds
<1>3. CASE LookKeeps
  <2>1. scope' \in Scope
      BY <1>3, AssumedType DEF LookKeeps, Scope
  <2> QED BY <1>3, <2>1 DEF LookKeeps
<1>4. CASE LookFails
  <2> DEFINE f == NextFailures(failures[scope.read.uid], scope.read)
             c == availabilityCondition(scope.read.cond, f)
  <2>1. scope.read \in Object /\ scope.read.uid \in Uid
      BY DEF Scope, Object
  <2>2. f \in Failures
      BY <2>1, NextFailuresType
  <2>3. c \in Condition
      BY DEF availabilityCondition, Condition
  <2>4. SetCondition(scope.read, c) \in Object
      BY <2>1, <2>3, SetConditionType
  <2>5. /\ failures' = [failures EXCEPT ![scope.read.uid] = f]
        /\ scope' = [scope EXCEPT !.new = SetCondition(scope.read, c)]
      BY <1>4 DEF LookFails
  <2>6. failures' \in [Uid -> Failures] /\ scope' \in Scope
      BY <2>2, <2>4, <2>5 DEF Scope
  <2> QED BY <1>4, <2>6 DEF LookFails
<1>5. CASE PatchConditions
  <2>1. kcp' \in Object
      BY <1>5 DEF PatchConditions, PatchedConditions, Scope, Object
  <2>2. old' \in Object
      BY <1>5 DEF PatchConditions, Remember
  <2>3. scope' \in Scope
      BY <1>5 DEF PatchConditions, Scope, Conflict
  <2>4. wake' \in BOOLEAN
      BY <1>5 DEF PatchConditions
  <2> QED BY <1>5, <2>1, <2>2, <2>3, <2>4, SMTT(30) DEF PatchConditions
<1>6. CASE PatchStatus
  <2>1. kcp' \in Object
      BY <1>6 DEF PatchStatus, Scope, Object
  <2>2. old' \in Object
      BY <1>6 DEF PatchStatus, Remember
  <2>3. wake' \in BOOLEAN
      BY <1>6 DEF PatchStatus, Finish, Requeue
  <2> QED BY <1>6, <2>1, <2>2, <2>3, NewObjectType DEF PatchStatus, Finish, NoScope, Scope
<1> QED BY <1>1, <1>2, <1>3, <1>4, <1>5, <1>6 DEF Reconcile

LEMMA EnvironmentType ==
    ASSUME TypeOK, Environment
    PROVE  TypeOK'
<1> USE DEF TypeOK
<1>1. NoScope \in Scope /\ NoFailures \in Failures
    BY NothingType
<1>2. CASE PatchFails
  <2>1. scope' \in Scope
      BY <1>1, <1>2 DEF PatchFails, Finish, Scope
  <2>2. wake' \in BOOLEAN
      BY <1>2 DEF PatchFails, Finish, Requeue
  <2>3. budget' \in 0..MaxDisturbances
      BY <1>2, SMTT(30) DEF PatchFails, Disturb
  <2> QED BY <1>2, <2>1, <2>2, <2>3 DEF PatchFails, Finish
<1>3. CASE Crash
  <2>1. budget' \in 0..MaxDisturbances
      BY <1>3, SMTT(30) DEF Crash, Disturb
  <2> QED BY <1>1, <1>3, <2>1 DEF Crash
<1>4. CASE Restore
  <2>1. budget' \in 0..MaxDisturbances
      BY <1>4, SMTT(30) DEF Restore, Disturb
  <2>4. PICK u \in Uid : kcp' = [kcp EXCEPT !.uid = u, !.own = FALSE] /\ old' = kcp'
      BY <1>4 DEF Restore
  <2>2. kcp' \in Object /\ old' \in Object
      BY <2>4 DEF Object
  <2>3. quiet' \in 0..Grace
      BY <1>4, SMTT(30) DEF Restore
  <2> QED BY <1>4, <2>1, <2>2, <2>3 DEF Restore
<1>5. CASE ApiUp \/ ApiDown
    BY <1>5 DEF ApiUp, ApiDown, ApiGoes
<1>6. CASE Connect \/ Disconnect \/ GiveUp
  <2>1. budget' = budget \/ (budget > 0 /\ budget' = budget - 1)
      BY <1>6 DEF Connect, Disconnect, GiveUp, Disturb
  <2>3. budget' \in 0..MaxDisturbances
      BY <2>1, SMTT(30)
  <2>2. wake' \in BOOLEAN
      BY <1>6 DEF Connect, Disconnect, GiveUp, LinkGoes
  <2> QED BY <1>6, <2>3, <2>2 DEF Connect, Disconnect, GiveUp, LinkGoes
<1>7. CASE Tick
  <2>1. kcp' \in Object /\ old' \in Object
      BY <1>7, OlderType DEF Tick
  <2>2. scope' \in Scope
      BY <1>7, OlderType DEF Tick, Scope
  <2>3. quiet' \in 0..Grace
    <3>1. quiet + 1 \in Nat /\ Grace \in Nat
        BY SMTT(30)
    <3> QED BY <1>7, <3>1, CappedType DEF Tick
  <2>4. ASSUME NEW u \in Uid
        PROVE  [failures[u] EXCEPT
                   !.since = IF failures[u].seen = 0 THEN 0 ELSE Capped(@ + 1, Grace)]
                   \in Failures
    <3>1. failures[u] \in Failures
        OBVIOUS
    <3>2. failures[u].since + 1 \in Nat /\ Grace \in Nat
        BY <3>1, SMTT(30) DEF Failures
    <3>3. Capped(failures[u].since + 1, Grace) \in 0..Grace
        BY <3>2, CappedType
    <3> QED BY <3>1, <3>3, SMTT(30) DEF Failures
  <2>5. failures' \in [Uid -> Failures]
      BY <1>7, <2>4 DEF Tick
  <2> QED BY <1>7, <2>1, <2>2, <2>3, <2>5 DEF Tick
<1> QED BY <1>2, <1>3, <1>4, <1>5, <1>6, <1>7 DEF Environment

(* Every variable keeps its type: ages never exceed the grace period, the    *)
(* count of failures never the threshold (setUnavailableAfterGracePeriod).   *)
THEOREM AvailabilityType == Spec => []TypeOK
<1>1. TypeOK /\ [Next]_vars => TypeOK'
  <2> SUFFICES ASSUME TypeOK, [Next]_vars PROVE TypeOK'
      OBVIOUS
  <2>1. CASE UNCHANGED vars
      BY <2>1 DEF vars, TypeOK
  <2> QED BY <2>1, ReconcileType, EnvironmentType DEF Next
<1> QED BY <1>1, InitType, PTL DEF Spec

----------------------------------------------------------------------------
(* The inductive invariant.                                                  *)

(* The anchors, in memory and in the object, are no older than the last      *)
(* recorded contact: a contact leaves none of them behind.                   *)
AnchorsAreRecent ==
    /\ StatusOf(kcp.cond) = "Unknown" /\ kcp.own => kcp.age <= quiet
    /\ failures[kcp.uid].seen > 0 => failures[kcp.uid].since <= quiet

(* Only an initialized control plane is reported as unreachable.             *)
OutagesAreOfInitialized == kcp.cond \in {"ConnectionDown", "False"} => kcp.latch

ReadIsCurrent == pc \in {"look", "patch"} => scope.read = kcp

(* What the patch of the conditions is about to write.                       *)
ContactInFlight ==
    pc = "patch" /\ scope.contact =>
        failures[kcp.uid].seen = 0 /\ scope.new.cond = "True"

ChangeInFlight ==
    pc = "patch" /\ ~scope.contact /\ scope.new.cond # kcp.cond =>
        /\ kcp.cond # "False"
        /\ scope.new.cond \in {"NotReached", "ConnectionDown", "False"}
        /\ scope.new.cond \in {"ConnectionDown", "False"} => kcp.latch
        /\ scope.new.cond = "False" => quiet = Grace /\ failures[kcp.uid].seen = Threshold
        /\ StatusOf(scope.new.cond) = "Unknown" /\ scope.new.own => scope.new.age <= quiet

NoContactBeforeLook == pc = "look" => ~scope.contact

HealthInv ==
    /\ AnchorsAreRecent
    /\ OutagesAreOfInitialized
    /\ ReadIsCurrent
    /\ ContactInFlight
    /\ ChangeInFlight
    /\ NoContactBeforeLook

USE DEF HealthInv

LEMMA SetConditionFields ==
    ASSUME NEW o \in Object, NEW c \in Condition
    PROVE  /\ SetCondition(o, c).cond = c
           /\ SetCondition(o, c).uid = o.uid
           /\ StatusOf(o.cond) = StatusOf(c) =>
                  SetCondition(o, c).age = o.age /\ SetCondition(o, c).own = o.own
           /\ StatusOf(o.cond) # StatusOf(c) => SetCondition(o, c).age = 0
BY DEF SetCondition, Object

LEMMA InitHealth == Init => HealthInv
BY SMTT(30) DEF Init, NewObject, NoFailures, NoScope, StatusOf, AnchorsAreRecent,
       OutagesAreOfInitialized, ReadIsCurrent, ContactInFlight, ChangeInFlight,
       NoContactBeforeLook

LEMMA StartReconcileHealth ==
    ASSUME TypeOK, HealthInv, StartReconcile, ~lagged'
    PROVE  HealthInv'
<1>1. /\ UNCHANGED <<kcp, failures, quiet>>
      /\ pc' = "look"
      /\ scope' = [NoScope EXCEPT !.read = kcp]
    BY DEF StartReconcile, Load, Disturb
<1>2. scope'.read = kcp /\ ~scope'.contact
    BY <1>1 DEF NoScope
<1> QED BY <1>1, <1>2 DEF AnchorsAreRecent, OutagesAreOfInitialized, ReadIsCurrent,
               ContactInFlight, ChangeInFlight, NoContactBeforeLook

LEMMA LookSucceedsHealth ==
    ASSUME TypeOK, HealthInv, LookSucceeds
    PROVE  HealthInv'
<1>1. /\ scope.read = kcp /\ kcp \in Object /\ kcp.uid \in Uid
    BY DEF LookSucceeds, ReadIsCurrent, TypeOK, Object
<1>2. SetCondition(Assumed(kcp), "True").cond = "True"
    BY <1>1, AssumedType, SetConditionFields DEF Condition
<1>3. SetCondition(Assumed(kcp), "True") \in Object
    BY <1>1, AssumedType, SetConditionType DEF Condition
<1>4. [SetCondition(Assumed(kcp), "True") EXCEPT !.latch = TRUE].cond = "True"
    BY <1>2, <1>3 DEF Object
<1>5. scope'.new.cond = "True" /\ scope'.contact /\ scope'.read = kcp
    BY <1>1, <1>4 DEF LookSucceeds, TypeOK, Scope
<1>6. failures'[kcp.uid].seen = 0
    BY <1>1 DEF LookSucceeds, TypeOK, NoFailures
<1>7. UNCHANGED <<kcp, quiet>> /\ pc' = "patch"
    BY DEF LookSucceeds
<1> QED BY <1>5, <1>6, <1>7, SMTT(30) DEF AnchorsAreRecent, OutagesAreOfInitialized, ReadIsCurrent,
               ContactInFlight, ChangeInFlight, NoContactBeforeLook

LEMMA LookKeepsHealth ==
    ASSUME TypeOK, HealthInv, LookKeeps
    PROVE  HealthInv'
<1>1. /\ scope.read = kcp /\ kcp \in Object /\ kcp.age \in Nat /\ quiet \in Nat
    BY SMTT(30) DEF LookKeeps, ReadIsCurrent, TypeOK, Object
<1>2. /\ scope'.new = Assumed(kcp) /\ ~scope'.contact /\ scope'.read = kcp
      /\ UNCHANGED <<kcp, failures, quiet>> /\ pc' = "patch"
    BY <1>1 DEF LookKeeps, TypeOK, Scope, NoContactBeforeLook
<1>3. CASE kcp.latch
  <2>1. scope'.new = kcp
      BY <1>2, <1>3 DEF Assumed
  <2> QED BY <1>2, <2>1 DEF AnchorsAreRecent, OutagesAreOfInitialized, ReadIsCurrent,
                 ContactInFlight, ChangeInFlight, NoContactBeforeLook
<1>4. CASE ~kcp.latch
  <2>1. kcp.cond \notin {"ConnectionDown", "False"}
      BY <1>4 DEF OutagesAreOfInitialized
  <2>2. scope'.new = SetCondition(kcp, "NotReached")
      BY <1>2, <1>4 DEF Assumed
  <2>3. /\ scope'.new.cond = "NotReached"
        /\ scope'.new.own => scope'.new.age <= quiet
      BY <1>1, <2>2, SetConditionFields, SMTT(30) DEF Condition, StatusOf, AnchorsAreRecent
  <2> QED BY <1>2, <2>1, <2>3 DEF AnchorsAreRecent, OutagesAreOfInitialized, ReadIsCurrent,
                 ContactInFlight, ChangeInFlight, NoContactBeforeLook
<1> QED BY <1>3, <1>4

LEMMA LookFailsHealth ==
    ASSUME TypeOK, HealthInv, LookFails
    PROVE  HealthInv'
<1> DEFINE f == NextFailures(failures[kcp.uid], kcp)
           c == availabilityCondition(kcp.cond, f)
<1>1. /\ scope.read = kcp /\ kcp \in Object /\ kcp.uid \in Uid /\ kcp.latch
      /\ kcp.age \in Nat /\ quiet \in 0..Grace
    BY SMTT(30) DEF LookFails, ReadIsCurrent, TypeOK, Object
<1>2. failures[kcp.uid] \in Failures
    BY <1>1 DEF TypeOK
<1>3. /\ failures' = [failures EXCEPT ![kcp.uid] = f]
      /\ scope' = [scope EXCEPT !.new = SetCondition(kcp, c)]
      /\ UNCHANGED <<kcp, quiet>> /\ pc' = "patch"
    BY <1>1 DEF LookFails
<1>4. f \in Failures
    BY <1>1, <1>2, NextFailuresType
<1>5. f.since <= quiet
    BY <1>1, <1>2, SMTT(30) DEF NextFailures, Failures, AnchorsAreRecent, StatusOf
<1>6. c \in Condition /\ c \in {"ConnectionDown", "False"}
    BY DEF availabilityCondition, Condition
<1>7. c = "False" /\ kcp.cond # "False" => f.seen = Threshold /\ quiet = Grace
    BY <1>1, <1>4, <1>5, SMTT(30) DEF availabilityCondition, Failures
<1>8. kcp.cond = "False" => c = "False"
    BY DEF availabilityCondition
<1>9. failures'[kcp.uid] = f
    BY <1>1, <1>3 DEF TypeOK
<1>10. scope'.new = SetCondition(kcp, c) /\ ~scope'.contact /\ scope'.read = kcp
    BY <1>1, <1>3 DEF LookFails, TypeOK, Scope, NoContactBeforeLook
<1>11. /\ scope'.new.cond = c
       /\ c = "ConnectionDown" /\ scope'.new.own => scope'.new.age <= quiet
    BY <1>1, <1>6, <1>10, SetConditionFields, SMTT(30) DEF StatusOf, AnchorsAreRecent
<1> HIDE DEF f, c
<1>12. AnchorsAreRecent'
    BY <1>3, <1>5, <1>9 DEF AnchorsAreRecent
<1>13. ChangeInFlight'
    BY <1>1, <1>3, <1>6, <1>7, <1>8, <1>9, <1>11 DEF ChangeInFlight, StatusOf
<1> QED BY <1>3, <1>10, <1>12, <1>13 DEF OutagesAreOfInitialized, ReadIsCurrent,
               ContactInFlight, NoContactBeforeLook

LEMMA PatchConditionsHealth ==
    ASSUME TypeOK, HealthInv, PatchConditions
    PROVE  HealthInv'
<1>1. /\ scope.read = kcp /\ kcp \in Object /\ scope.new \in Object /\ quiet \in Nat
    BY SMTT(30) DEF PatchConditions, ReadIsCurrent, TypeOK, Scope
<1>2. ~Conflict
    BY <1>1 DEF Conflict
<1>3. /\ kcp' = IF scope.new.cond = kcp.cond THEN kcp
                ELSE [kcp EXCEPT !.cond = scope.new.cond, !.age = scope.new.age,
                                 !.own = scope.new.own]
      /\ quiet' = IF scope.contact THEN 0 ELSE quiet
      /\ UNCHANGED failures /\ pc' = "patchStatus"
    BY <1>1, <1>2 DEF PatchConditions, PatchedConditions
<1>4. /\ kcp'.uid = kcp.uid /\ kcp'.latch = kcp.latch /\ kcp'.cond = scope.new.cond
      /\ scope.new.cond # kcp.cond => kcp'.age = scope.new.age /\ kcp'.own = scope.new.own
    BY <1>1, <1>3 DEF Object
<1>5. CASE scope.contact
  <2>1. kcp'.cond = "True" /\ failures'[kcp'.uid].seen = 0
      BY <1>3, <1>4, <1>5 DEF PatchConditions, ContactInFlight
  <2> QED BY <1>3, <2>1, SMTT(30) DEF AnchorsAreRecent, OutagesAreOfInitialized, ReadIsCurrent,
                 ContactInFlight, ChangeInFlight, NoContactBeforeLook, StatusOf
<1>6. CASE ~scope.contact /\ scope.new.cond = kcp.cond
    BY <1>3, <1>6 DEF AnchorsAreRecent, OutagesAreOfInitialized, ReadIsCurrent,
           ContactInFlight, ChangeInFlight, NoContactBeforeLook
<1>7. CASE ~scope.contact /\ scope.new.cond # kcp.cond
  <2>1. /\ StatusOf(scope.new.cond) = "Unknown" /\ scope.new.own => scope.new.age <= quiet
        /\ scope.new.cond \in {"ConnectionDown", "False"} => kcp.latch
      BY <1>7 DEF PatchConditions, ChangeInFlight
  <2>2. AnchorsAreRecent'
      BY <1>3, <1>4, <1>7, <2>1 DEF AnchorsAreRecent
  <2>3. OutagesAreOfInitialized'
      BY <1>4, <2>1 DEF OutagesAreOfInitialized
  <2> QED BY <1>3, <2>2, <2>3 DEF ReadIsCurrent, ContactInFlight, ChangeInFlight,
                 NoContactBeforeLook
<1> QED BY <1>5, <1>6, <1>7

LEMMA PatchStatusHealth ==
    ASSUME TypeOK, HealthInv, PatchStatus
    PROVE  HealthInv'
<1>1. UNCHANGED <<failures, quiet>> /\ pc' = "idle"
    BY DEF PatchStatus, Finish
<1>2. /\ kcp'.uid = kcp.uid /\ kcp'.cond = kcp.cond /\ kcp'.age = kcp.age
      /\ kcp'.own = kcp.own /\ (kcp.latch => kcp'.latch)
    BY DEF PatchStatus, TypeOK, Object
<1> QED BY <1>1, <1>2 DEF AnchorsAreRecent, OutagesAreOfInitialized, ReadIsCurrent,
               ContactInFlight, ChangeInFlight, NoContactBeforeLook

LEMMA RestoreHealth ==
    ASSUME TypeOK, HealthInv, Restore
    PROVE  HealthInv'
<1>1. PICK u \in Uid : failures[u].seen = 0 /\ kcp' = [kcp EXCEPT !.uid = u, !.own = FALSE]
    BY DEF Restore
<1>2. UNCHANGED <<failures, pc>> /\ pc = "idle"
    BY DEF Restore
<1>3. kcp'.uid = u /\ kcp'.cond = kcp.cond /\ ~kcp'.own /\ kcp'.latch = kcp.latch
    BY <1>1 DEF TypeOK, Object
<1> QED BY <1>1, <1>2, <1>3, SMTT(30) DEF AnchorsAreRecent, OutagesAreOfInitialized, ReadIsCurrent,
               ContactInFlight, ChangeInFlight, NoContactBeforeLook

LEMMA CappedMonotone ==
    ASSUME NEW m \in Nat, NEW n \in Nat, m <= n
    PROVE  Capped(m + 1, Grace) <= Capped(n + 1, Grace)
BY SMTT(30) DEF Capped

LEMMA OlderFields ==
    ASSUME NEW o \in Object
    PROVE  /\ Older(o).cond = o.cond /\ Older(o).uid = o.uid /\ Older(o).own = o.own
           /\ Older(o).latch = o.latch /\ Older(o).age = Capped(o.age + 1, Grace)
BY DEF Older, Object

LEMMA TickHealth ==
    ASSUME TypeOK, HealthInv, Tick
    PROVE  HealthInv'
<1>1. /\ kcp \in Object /\ kcp.uid \in Uid /\ kcp.age \in Nat /\ quiet \in Nat
      /\ scope.new \in Object /\ scope.read \in Object /\ scope.new.age \in Nat
    BY SMTT(30) DEF TypeOK, Scope, Object
<1>2. kcp' = Older(kcp) /\ quiet' = Capped(quiet + 1, Grace) /\ pc' = pc
    BY DEF Tick
<1>3. /\ kcp'.cond = kcp.cond /\ kcp'.uid = kcp.uid /\ kcp'.own = kcp.own
      /\ kcp'.latch = kcp.latch /\ kcp'.age = Capped(kcp.age + 1, Grace)
    BY <1>1, <1>2, OlderFields
<1>4. /\ failures'[kcp.uid].seen = failures[kcp.uid].seen
      /\ failures[kcp.uid].seen > 0 =>
             failures'[kcp.uid].since = Capped(failures[kcp.uid].since + 1, Grace)
    BY <1>1, SMTT(30) DEF Tick, TypeOK, Failures
<1>5. failures[kcp.uid].since \in Nat
    BY <1>1, SMTT(30) DEF TypeOK, Failures
<1>6. AnchorsAreRecent'
    BY <1>1, <1>2, <1>3, <1>4, <1>5, CappedMonotone DEF AnchorsAreRecent
<1>7. OutagesAreOfInitialized'
    BY <1>3 DEF OutagesAreOfInitialized
<1>8. CASE pc = "idle"
    BY <1>2, <1>6, <1>7, <1>8 DEF ReadIsCurrent, ContactInFlight, ChangeInFlight,
           NoContactBeforeLook
<1>9. CASE pc # "idle"
  <2>1. /\ scope'.read = Older(scope.read) /\ scope'.new = Older(scope.new)
        /\ scope'.contact = scope.contact
      BY <1>9 DEF Tick, TypeOK, Scope
  <2>2. /\ scope'.new.cond = scope.new.cond /\ scope'.new.own = scope.new.own
        /\ scope'.new.age = Capped(scope.new.age + 1, Grace)
      BY <1>1, <2>1, OlderFields
  <2>3. ReadIsCurrent'
      BY <1>2, <2>1 DEF ReadIsCurrent
  <2>4. ContactInFlight'
      BY <1>2, <1>3, <1>4, <2>1, <2>2 DEF ContactInFlight
  <2>5. quiet = Grace => quiet' = Grace
      BY <1>2, SMTT(30) DEF Capped
  <2>6. scope.new.age <= quiet => scope'.new.age <= quiet'
      BY <1>1, <1>2, <2>2, CappedMonotone
  <2>7. ChangeInFlight'
      BY <1>2, <1>3, <1>4, <2>1, <2>2, <2>5, <2>6 DEF ChangeInFlight
  <2> QED BY <1>2, <1>6, <1>7, <2>1, <2>3, <2>4, <2>7 DEF NoContactBeforeLook
<1> QED BY <1>8, <1>9

LEMMA EnvironmentHealth ==
    ASSUME TypeOK, HealthInv, Environment
    PROVE  HealthInv'
<1>1. CASE PatchFails
  <2>1. UNCHANGED <<kcp, failures, quiet>> /\ pc' \in {"patchStatus", "idle"}
      BY <1>1 DEF PatchFails, Finish
  <2> QED BY <2>1 DEF AnchorsAreRecent, OutagesAreOfInitialized, ReadIsCurrent,
                 ContactInFlight, ChangeInFlight, NoContactBeforeLook
<1>2. CASE Crash
  <2>1. UNCHANGED <<kcp, quiet>> /\ pc' = "idle"
      BY <1>2 DEF Crash
  <2>2. failures'[kcp.uid].seen = 0
      BY <1>2 DEF Crash, NoFailures, TypeOK, Object
  <2> QED BY <2>1, <2>2, SMTT(30) DEF AnchorsAreRecent, OutagesAreOfInitialized, ReadIsCurrent,
                 ContactInFlight, ChangeInFlight, NoContactBeforeLook
<1>3. CASE ApiUp \/ ApiDown \/ Connect \/ Disconnect \/ GiveUp
  <2>1. UNCHANGED <<kcp, failures, quiet, pc, scope>>
      BY <1>3 DEF ApiUp, ApiDown, ApiGoes, Connect, Disconnect, GiveUp, LinkGoes
  <2> QED BY <2>1 DEF AnchorsAreRecent, OutagesAreOfInitialized, ReadIsCurrent,
                 ContactInFlight, ChangeInFlight, NoContactBeforeLook
<1> QED BY <1>1, <1>2, <1>3, RestoreHealth, TickHealth DEF Environment

LEMMA LaggedForGood ==
    ASSUME [Next]_vars
    PROVE  lagged' = TRUE \/ UNCHANGED lagged
<1>1. CASE UNCHANGED vars
    BY <1>1 DEF vars
<1>2. CASE Reconcile
    BY <1>2 DEF Reconcile, StartReconcile, LookSucceeds, LookKeeps, LookFails, PatchConditions,
           PatchStatus
<1>3. CASE Environment
    BY <1>3 DEF Environment, PatchFails, Crash, Restore, ApiUp, ApiDown, ApiGoes, Connect,
           Disconnect, GiveUp, LinkGoes, Tick
<1> QED BY <1>1, <1>2, <1>3 DEF Next

LEMMA StepHealth ==
    ASSUME TypeOK, HealthInv, [Next]_vars, ~lagged'
    PROVE  HealthInv'
<1>1. CASE UNCHANGED vars
    BY <1>1 DEF vars, AnchorsAreRecent, OutagesAreOfInitialized, ReadIsCurrent,
           ContactInFlight, ChangeInFlight, NoContactBeforeLook
<1> QED BY <1>1, StartReconcileHealth, LookSucceedsHealth, LookKeepsHealth, LookFailsHealth,
           PatchConditionsHealth, PatchStatusHealth, EnvironmentHealth
        DEF Next, Reconcile

----------------------------------------------------------------------------
(* Every step is one of DebouncedHealth or leaves its variables alone.       *)

Mapped == <<Verdict, quiet, failures[kcp.uid].seen>>

Promised ==
    \/ Health!Confirm \/ Health!Miss \/ Health!Forget \/ Health!Doubt
    \/ Health!ReportOutage \/ Health!Renew \/ Health!Tick

LEMMA ReconcileImplements ==
    ASSUME TypeOK, HealthInv, Reconcile
    PROVE  Promised \/ UNCHANGED Mapped
<1>1. kcp \in Object /\ kcp.uid \in Uid /\ failures[kcp.uid] \in Failures
    BY DEF TypeOK, Object
<1>2. CASE StartReconcile
    BY <1>2 DEF StartReconcile, Mapped, Verdict
<1>3. CASE LookSucceeds
  <2>1. failures'[kcp.uid].seen = 0
      BY <1>1, <1>3 DEF LookSucceeds, ReadIsCurrent, TypeOK, NoFailures
  <2>2. Health!Forget
      BY <1>3, <2>1 DEF LookSucceeds, Health!Forget, Verdict
  <2> QED BY <2>2 DEF Promised
<1>4. CASE LookKeeps
    BY <1>4 DEF LookKeeps, Mapped, Verdict
<1>5. CASE LookFails
  <2>1. failures' = [failures EXCEPT ![kcp.uid] = NextFailures(failures[kcp.uid], kcp)]
      BY <1>5 DEF LookFails, ReadIsCurrent
  <2>2. failures'[kcp.uid] = NextFailures(failures[kcp.uid], kcp)
      BY <1>1, <2>1 DEF TypeOK
  <2>3. failures'[kcp.uid].seen = Health!Capped(failures[kcp.uid].seen + 1, Threshold)
      BY <1>1, <2>2, SMTT(30) DEF NextFailures, Failures, Capped, Health!Capped
  <2>4. Health!Miss
      BY <1>5, <2>3 DEF LookFails, Health!Miss, Verdict
  <2> QED BY <2>4 DEF Promised
<1>6. CASE PatchConditions
  <2>1. scope.read = kcp /\ scope.new \in Object
      BY <1>6 DEF PatchConditions, ReadIsCurrent, TypeOK, Scope
  <2>2. ~Conflict
      BY <2>1 DEF Conflict
  <2>3. /\ kcp' = IF scope.new.cond = kcp.cond THEN kcp
                  ELSE [kcp EXCEPT !.cond = scope.new.cond, !.age = scope.new.age,
                                   !.own = scope.new.own]
        /\ quiet' = IF scope.contact THEN 0 ELSE quiet
        /\ UNCHANGED failures
      BY <1>6, <2>1, <2>2 DEF PatchConditions, PatchedConditions
  <2>4. kcp'.uid = kcp.uid /\ kcp'.cond = scope.new.cond
      BY <1>1, <2>1, <2>3 DEF Object
  <2>5. UNCHANGED failures[kcp.uid].seen
      BY <2>3, <2>4
  <2>6. CASE scope.contact
    <3>1. Health!Confirm
        BY <1>6, <2>3, <2>4, <2>5, <2>6
           DEF PatchConditions, ContactInFlight, Health!Confirm, Verdict
    <3> QED BY <3>1 DEF Promised
  <2>7. CASE ~scope.contact /\ scope.new.cond = kcp.cond
      BY <2>3, <2>7 DEF Mapped, Verdict
  <2>8. CASE ~scope.contact /\ scope.new.cond # kcp.cond
    <3>1. /\ kcp.cond # "False"
          /\ scope.new.cond \in {"NotReached", "ConnectionDown", "False"}
          /\ scope.new.cond = "False" => quiet = Grace /\ failures[kcp.uid].seen = Threshold
        BY <1>6, <2>8 DEF PatchConditions, ChangeInFlight
    <3>2. CASE scope.new.cond = "False"
      <4>1. Health!ReportOutage
          BY <2>3, <2>4, <2>5, <2>8, <3>1, <3>2 DEF Health!ReportOutage, Verdict
      <4> QED BY <4>1 DEF Promised
    <3>3. CASE scope.new.cond # "False"
      <4>1. Health!Doubt
          BY <2>3, <2>4, <2>5, <2>8, <3>1, <3>3 DEF Health!Doubt, Verdict
      <4> QED BY <4>1 DEF Promised
    <3> QED BY <3>2, <3>3
  <2> QED BY <2>6, <2>7, <2>8
<1>7. CASE PatchStatus
  <2>1. kcp'.uid = kcp.uid /\ kcp'.cond = kcp.cond
      BY <1>1, <1>7 DEF PatchStatus, Object
  <2> QED BY <1>7, <2>1 DEF PatchStatus, Mapped, Verdict
<1> QED BY <1>2, <1>3, <1>4, <1>5, <1>6, <1>7 DEF Reconcile

LEMMA EnvironmentImplements ==
    ASSUME TypeOK, HealthInv, Environment
    PROVE  Promised \/ UNCHANGED Mapped
<1>1. kcp \in Object /\ kcp.uid \in Uid /\ failures[kcp.uid] \in Failures
    BY DEF TypeOK, Object
<1>2. CASE PatchFails
    BY <1>2 DEF PatchFails, Mapped, Verdict
<1>3. CASE Crash
  <2>1. failures'[kcp.uid].seen = 0
      BY <1>1, <1>3 DEF Crash, NoFailures
  <2>2. Health!Forget
      BY <1>3, <2>1 DEF Crash, Health!Forget, Verdict
  <2> QED BY <2>2 DEF Promised
<1>4. CASE Restore
  <2>1. PICK u \in Uid : failures[u].seen = 0
                         /\ kcp' = [kcp EXCEPT !.uid = u, !.own = FALSE]
      BY <1>4 DEF Restore
  <2>2. kcp'.uid = u /\ kcp'.cond = kcp.cond
      BY <1>1, <2>1 DEF Object
  <2>3. Health!Renew
      BY <1>4, <2>1, <2>2 DEF Restore, Health!Renew, Verdict
  <2> QED BY <2>3 DEF Promised
<1>5. CASE ApiUp \/ ApiDown \/ Connect \/ Disconnect \/ GiveUp
    BY <1>5 DEF ApiUp, ApiDown, ApiGoes, Connect, Disconnect, GiveUp, LinkGoes, Mapped, Verdict
<1>6. CASE Tick
  <2>1. kcp'.uid = kcp.uid /\ kcp'.cond = kcp.cond
      BY <1>1, <1>6, OlderFields DEF Tick
  <2>2. failures'[kcp.uid].seen = failures[kcp.uid].seen
      BY <1>1, <1>6 DEF Tick, TypeOK, Failures
  <2>3. quiet' = Health!Capped(quiet + 1, Grace)
      BY <1>6 DEF Tick, Capped, Health!Capped
  <2>4. Health!Tick
      BY <2>1, <2>2, <2>3 DEF Health!Tick, Verdict
  <2> QED BY <2>4 DEF Promised
<1> QED BY <1>2, <1>3, <1>4, <1>5, <1>6 DEF Environment

(* Until a Reconcile starts from an outdated object, the condition the       *)
(* controllers compute is debounced, for every grace period and threshold:   *)
(* an outage is reported only after a grace period without a recorded        *)
(* contact and enough failures in a row, and it is taken back only by a      *)
(* contact (setUnavailableAfterGracePeriod, computeAvailability).            *)
THEOREM ConditionIsDebounced == Spec => Debounced
<1> DEFINE Inv == lagged = FALSE => HealthInv
<1>1. Init => Health!Init
    BY SMTT(30) DEF Init, NewObject, NoFailures, Health!Init, Verdict
<1>2. Init => Inv
    BY InitHealth
<1>3. TypeOK /\ Inv /\ [Next]_vars => Inv'
  <2> SUFFICES ASSUME TypeOK, Inv, [Next]_vars, lagged' = FALSE PROVE HealthInv'
      OBVIOUS
  <2>1. lagged = FALSE
      BY LaggedForGood
  <2> QED BY <2>1, StepHealth
<1>4. TypeOK /\ Inv /\ [Next]_vars => [Health!Next]_(Health!vars)
  <2> SUFFICES ASSUME TypeOK, Inv, [Next]_vars
               PROVE  Health!Next \/ UNCHANGED Health!vars
      OBVIOUS
  <2>1. CASE UNCHANGED vars
      BY <2>1 DEF vars, Health!vars, Verdict
  <2>2. CASE lagged' = TRUE
      BY <2>2 DEF Health!Next
  <2>3. CASE Next /\ lagged' # TRUE
    <3>1. UNCHANGED lagged /\ lagged = FALSE
        BY <2>3, LaggedForGood DEF TypeOK
    <3>2. Promised \/ UNCHANGED Mapped
        BY <2>3, <3>1, ReconcileImplements, EnvironmentImplements DEF Next
    <3> QED BY <3>1, <3>2 DEF Promised, Mapped, Health!Next, Health!vars
  <2> QED BY <2>1, <2>2, <2>3
<1> QED BY <1>1, <1>2, <1>3, <1>4, AvailabilityType, PTL DEF Spec, Debounced, Health!Spec
=============================================================================
