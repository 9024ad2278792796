------------------------ MODULE RemoteMachineProofs ------------------------
(***************************************************************************)
(* Proofs about RemoteMachine, for every number of RemoteMachines and of   *)
(* pooled machines.  The types and the reservations hold under every       *)
(* disturbance: stale caches, crashes and failed calls included.  The      *)
(* results on deletion say which disturbances they exclude.                *)
(***************************************************************************)
EXTENDS RemoteMachine, WellFoundedInduction, TLAPS

(* What no prover is named for goes to Zenon.                               *)
USE ZenonT(30)

USE NoRMAssumption, PoolAssumption, RMDisturbanceAssumption

(* The first machine of a list that is not empty is one of the list.         *)
LEMMA FirstOfMember ==
    ASSUME NEW S \in SUBSET Pooled, S # {}
    PROVE  FirstOf(S) \in S
<1> DEFINE R == OpToRel(<, Nat)
<1>1. S \subseteq Nat
    BY SMTT(30) DEF Pooled
<1>2. IsWellFoundedOn(R, Nat)
    BY NatLessThanWellFounded
<1> HIDE DEF R
<1>3. PICK p \in S : \A q \in S : <<q, p>> \notin R
    BY <1>1, <1>2, WFMin
<1>4. \A q \in Nat : q < p => <<q, p>> \in R
    BY <1>1 DEF R, OpToRel
<1>5. \A q \in S : ~(q < p)
    BY <1>1, <1>3, <1>4
<1>6. \A q \in S : p <= q
    BY <1>1, <1>5, SMTT(30)
<1> QED BY <1>6 DEF FirstOf

----------------------------------------------------------------------------
(* Type correctness.                                                         *)

(* The object a Reconcile starts from gives a well-typed memory.             *)
LEMMA LoadedType ==
    /\ NewObject \in Object
    /\ \A o \in Object : Loaded(o) \in Memory
  BY SMTT(30) DEF NewObject, Object, Loaded, Memory, None

(* Assigning a field of a memory or of an object keeps its type.             *)
LEMMA FieldTypes ==
    ASSUME NEW b \in BOOLEAN, NEW c \in BOOLEAN, NEW p \in Pooled \cup {None}
    PROVE  /\ \A m \in Memory : /\ [m EXCEPT !.dropFin = b] \in Memory
                                /\ [m EXCEPT !.cond = b] \in Memory
                                /\ [m EXCEPT !.cond = b, !.pid = c] \in Memory
                                /\ [m EXCEPT !.want = p, !.valid = b] \in Memory
           /\ \A o \in Object : /\ [o EXCEPT !.fin = b] \in Object
                                /\ [o EXCEPT !.provisioned = b] \in Object
<1>1. ASSUME NEW m \in Memory
      PROVE  /\ [m EXCEPT !.dropFin = b] \in Memory
             /\ [m EXCEPT !.cond = b] \in Memory
             /\ [m EXCEPT !.cond = b, !.pid = c] \in Memory
             /\ [m EXCEPT !.want = p, !.valid = b] \in Memory
    BY DEF Memory
<1>2. ASSUME NEW o \in Object
      PROVE  [o EXCEPT !.fin = b] \in Object /\ [o EXCEPT !.provisioned = b] \in Object
    BY DEF Object
<1> QED BY <1>1, <1>2

(* Assigning the address and the condition keeps the type of a memory.       *)
LEMMA AddressTypes ==
    ASSUME NEW m \in Memory, NEW p \in Pooled \cup {None}, NEW b \in BOOLEAN
    PROVE  [m EXCEPT !.addr = p, !.cond = b] \in Memory
  BY DEF Memory

(* A reservation found or made gives a well-typed memory.                    *)
LEMMA PopulatedType ==
    ASSUME NEW m \in Memory, NEW p \in Pooled \cup {None}
    PROVE  Populated(m, p) \in Memory
<1> DEFINE b == m.cond \/ m.read.provisioned
<1>1. Populated(m, p) = [m EXCEPT !.addr = p, !.cond = b]
    BY DEF Populated
<1>2. b \in BOOLEAN
    OBVIOUS
<1> HIDE DEF b
<1>3. [m EXCEPT !.addr = p, !.cond = b] \in Memory
    BY <1>2, AddressTypes
<1> QED BY <1>1, <1>3

(* A disturbance keeps the budget within its bound.                          *)
LEMMA DisturbType ==
    ASSUME TypeOK, NEW kind, Disturb(kind)
    PROVE  budget' \in 0..MaxDisturbances
  BY SMTT(30) DEF TypeOK, Disturb

(* Writing the status of a pooled machine keeps the memories well typed.     *)
LEMMA OutdatedType ==
    ASSUME NEW m \in [RM -> Memory], NEW p
    PROVE  Outdated(p, m) \in [RM -> Memory]
  BY DEF Outdated, Memory

(* What the deferred patch writes is a well-typed object.                    *)
LEMMA PatchedType ==
    ASSUME NEW o \in Object, NEW m \in Memory
    PROVE  /\ PatchedConditions(o, m) \in Object
           /\ PatchedSpec(o, m) \in Object
           /\ PatchedStatus(o, m) \in Object
<1>1. PatchedConditions(o, m) \in Object
    BY DEF PatchedConditions, Changed, Object, Memory
<1>2. PatchedSpec(o, m) \in Object
  <2> DEFINE b == o.fin /\ ~m.dropFin
             ph == IF m.dropFin /\ o.phase = "deleting" THEN "gone" ELSE o.phase
             a == Changed(m.read.addr, m.addr, o.addr)
             i == Changed(m.read.pid, m.pid, o.pid)
  <2>1. PatchedSpec(o, m) = [o EXCEPT !.addr = a, !.pid = i, !.fin = b, !.phase = ph]
      BY DEF PatchedSpec
  <2>2. b \in BOOLEAN
      OBVIOUS
  <2>3. ph \in {"none", "live", "deleting", "gone"}
      BY DEF Object
  <2>4. a \in Pooled \cup {None} /\ i \in BOOLEAN
      BY DEF Changed, Object, Memory
  <2> HIDE DEF a, b, i, ph
  <2> QED BY <2>1, <2>2, <2>3, <2>4 DEF Object
<1>3. PatchedStatus(o, m) \in Object
  <2> DEFINE b == o.provisioned \/ m.cond
  <2>1. PatchedStatus(o, m) = [o EXCEPT !.provisioned = b]
      BY DEF PatchedStatus
  <2>2. b \in BOOLEAN
      OBVIOUS
  <2> HIDE DEF b
  <2> QED BY <2>1, <2>2, FieldTypes
<1> QED BY <1>1, <1>2, <1>3

(* The initial state is well typed.                                          *)
LEMMA InitType == Init => TypeOK
  BY LoadedType, SMTT(30) DEF Init, TypeOK

(* A copy of a pooled machine that an Update would accept was read.          *)
WantInv == \A r \in RM : mem[r].valid => mem[r].want \in Pooled

(* A step of Reconcile keeps the types.                                      *)
LEMMA ReconcileType ==
    ASSUME TypeOK, WantInv, NEW r \in RM, Reconcile(r)
    PROVE  TypeOK'
<1> USE DEF TypeOK, Goto, objects, pools
<1>1. CASE EnsureFinalizer(r)
  <2>1. [rm[r] EXCEPT !.fin = TRUE] \in Object
      BY FieldTypes
  <2>2. rm' = [rm EXCEPT ![r] = [rm[r] EXCEPT !.fin = TRUE]]
      BY <1>1 DEF EnsureFinalizer
  <2> HIDE DEF Object
  <2> QED BY <1>1, <2>1, <2>2, SMTT(30) DEF EnsureFinalizer
<1>2. CASE StartReconcile(r)
  <2>1. budget' \in 0..MaxDisturbances
      BY <1>2, DisturbType DEF StartReconcile
  <2>2. AfterStart(rmCache[r]) \in {"reserve", "cleanup", "patch"}
      BY DEF AfterStart
  <2> QED BY <1>2, <2>1, <2>2, LoadedType DEF StartReconcile
<1>3. CASE FindReserved(r)
  <2>1. FirstOf(Mine(r, poolCache)) \in Pooled
    <3>1. Mine(r, poolCache) # {} /\ Mine(r, poolCache) \in SUBSET Pooled
        BY <1>3 DEF FindReserved, Mine
    <3> QED BY <3>1, FirstOfMember
  <2>2. Populated(mem[r], FirstOf(Mine(r, poolCache))) \in Memory
      BY <2>1, PopulatedType
  <2> QED BY <1>3, <2>2 DEF FindReserved, AfterReserve
<1>4. CASE PickFree(r)
  <2>1. FirstOf(Free(poolCache)) \in Pooled
    <3>1. Free(poolCache) # {} /\ Free(poolCache) \in SUBSET Pooled
        BY <1>4 DEF PickFree, Free
    <3> QED BY <3>1, FirstOfMember
  <2>2. budget' \in 0..MaxDisturbances
      BY <1>4, DisturbType DEF PickFree
  <2>3. \A p \in Pooled, b \in BOOLEAN :
            [mem[r] EXCEPT !.want = p, !.valid = b] \in Memory
      BY FieldTypes
  <2>4. mem' \in [RM -> Memory]
      BY <1>4, <2>1, <2>3 DEF PickFree
  <2> QED BY <1>4, <2>2, <2>4 DEF PickFree
<1>5. CASE NoFreeMachine(r)
    BY <1>5 DEF NoFreeMachine
<1>6. CASE Reserve(r)
  <2>1. Populated(mem[r], mem[r].want) \in Memory
      BY PopulatedType DEF Memory
  <2>2. mem' \in [RM -> Memory]
      BY <1>6, <2>1, OutdatedType DEF Reserve
  <2>3. pool' \in [Pooled -> RM \cup {NoRM}] /\ behind' \subseteq Pooled
      BY <1>6 DEF Reserve, CanUpdate, WritePool, WantInv, Memory
  <2> QED BY <1>6, <2>2, <2>3 DEF Reserve, WritePool, AfterReserve
<1>7. CASE Conflict(r)
    BY <1>7 DEF Conflict
<1>8. CASE Provision(r)
  <2>1. [mem[r] EXCEPT !.cond = TRUE, !.pid = TRUE] \in Memory
      BY FieldTypes DEF None
  <2> QED BY <1>8, <2>1 DEF Provision
<1>9. CASE Cleanup(r)
    BY <1>9 DEF Cleanup
<1>10. CASE ReturnMachineToPool(r)
  <2>1. PICK p \in Mine(r, poolCache) \ behind :
            /\ ReturnTo(p, r)
            /\ mem' = Outdated(p, [mem EXCEPT ![r].dropFin = TRUE])
      BY <1>10 DEF ReturnMachineToPool
  <2>2. [mem EXCEPT ![r] = [mem[r] EXCEPT !.dropFin = TRUE]] \in [RM -> Memory]
      BY FieldTypes
  <2>3. mem' \in [RM -> Memory]
      BY <2>1, <2>2, OutdatedType
  <2> QED BY <1>10, <2>1, <2>3 DEF ReturnMachineToPool, ReturnTo, WritePool, Mine
<1>11. CASE ReturnConflict(r)
    BY <1>11 DEF ReturnConflict
<1>12. CASE NothingToReturn(r)
  <2>1. budget' \in 0..MaxDisturbances
      BY <1>12, DisturbType DEF NothingToReturn
  <2>2. [mem EXCEPT ![r] = [mem[r] EXCEPT !.dropFin = TRUE]] \in [RM -> Memory]
      BY FieldTypes
  <2> QED BY <1>12, <2>1, <2>2 DEF NothingToReturn
<1>13. CASE PatchConditions(r)
    BY <1>13, PatchedType DEF PatchConditions, PatchCall
<1>14. CASE PatchSpec(r)
    BY <1>14, PatchedType DEF PatchSpec, PatchCall
<1>15. CASE PatchStatus(r)
    BY <1>15, PatchedType, LoadedType DEF PatchStatus, PatchCall
<1> QED BY <1>1, <1>2, <1>3, <1>4, <1>5, <1>6, <1>7, <1>8, <1>9, <1>10, <1>11, <1>12, <1>13,
           <1>14, <1>15 DEF Reconcile

(* A failure, a crash and a step of the environment keep the types.          *)
LEMMA FailureType ==
    ASSUME TypeOK, (\E r \in RM : Failure(r)) \/ Environment
    PROVE  TypeOK'
<1> USE DEF TypeOK, Goto, objects, pools
<1>1. ASSUME NEW r \in RM, CallFails(r) PROVE TypeOK'
    BY <1>1, DisturbType DEF CallFails, ReturnError
<1>2. ASSUME NEW r \in RM, ProvisionFails(r) PROVE TypeOK'
  <2>1. [mem EXCEPT ![r] = [mem[r] EXCEPT !.cond = FALSE]] \in [RM -> Memory]
      BY FieldTypes
  <2>2. host' \in [Pooled -> RM \cup {NoRM}]
    <3>1. PICK h \in {host[mem[r].addr], r} : host' = [host EXCEPT ![mem[r].addr] = h]
        BY <1>2 DEF ProvisionFails
    <3>2. mem[r].addr \in Pooled => h \in RM \cup {NoRM}
        BY <1>2, <3>1, SMTT(30)
    <3> QED BY <1>2, <3>1, <3>2
  <2> QED BY <1>2, <2>1, <2>2, DisturbType DEF ProvisionFails
<1>3. ASSUME NEW r \in RM, Hang(r) \/ CleanupFails(r) PROVE TypeOK'
    BY <1>3, DisturbType DEF Hang, CleanupFails
<1>4. ASSUME NEW r \in RM, PatchFails(r) PROVE TypeOK'
    BY <1>4, DisturbType, LoadedType, SMTT(30) DEF PatchFails
<1>5. CASE Crash
    BY <1>5, DisturbType, LoadedType DEF Crash
<1>6. CASE SyncPool
    BY <1>6 DEF SyncPool
<1>7. ASSUME NEW r \in RM, SyncRM(r) PROVE TypeOK'
    BY <1>7 DEF SyncRM
<1>8. ASSUME NEW r \in RM, Create(r) PROVE TypeOK'
  <2>1. rm' = [rm EXCEPT ![r] = [rm[r] EXCEPT !.phase = "live"]]
      BY <1>8 DEF Create
  <2>2. [rm[r] EXCEPT !.phase = "live"] \in Object
    <3>1. rm[r] \in Object
        BY <1>8
    <3> QED BY <3>1 DEF Object
  <2> QED BY <1>8, <2>1, <2>2 DEF Create
<1>9. ASSUME NEW r \in RM, Delete(r) PROVE TypeOK'
  <2> DEFINE ph == IF rm[r].fin THEN "deleting" ELSE "gone"
  <2>1. rm' = [rm EXCEPT ![r] = [rm[r] EXCEPT !.phase = ph]]
      BY <1>9 DEF Delete
  <2>2. ph \in {"none", "live", "deleting", "gone"}
      OBVIOUS
  <2> HIDE DEF ph
  <2>3. [rm[r] EXCEPT !.phase = ph] \in Object
    <3>1. rm[r] \in Object
        BY <1>9
    <3> QED BY <2>2, <3>1 DEF Object
  <2> QED BY <1>9, <2>1, <2>3, DisturbType, SMTT(30) DEF Delete
<1> QED BY <1>1, <1>2, <1>3, <1>4, <1>5, <1>6, <1>7, <1>8, <1>9 DEF Failure, Environment

----------------------------------------------------------------------------
(* Reservations.                                                             *)

(* A RemoteMachine that was not deleted.                                     *)
Alive(r) == rm[r].phase \in {"none", "live"}

(* A machine named in a copy of the object belongs to the RemoteMachine.     *)
Owns(r, a) == a # None => pool[a] = r

(* An Update that would be accepted was decided on a machine that is free;   *)
(* the cache is right about the machines it is not behind on; everything     *)
(* that is known of a RemoteMachine that was not deleted, in the object, in  *)
(* either cache and in a running Reconcile, names machines reserved for it;  *)
(* and only a RemoteMachine that was deleted is cleaned up.                  *)
ReservationInv ==
    /\ WantInv
    /\ \A r \in RM : mem[r].valid => pool[mem[r].want] = NoRM
    /\ \A p \in Pooled : p \notin behind => poolCache[p] = pool[p]
    /\ \A r \in RM : Alive(r) =>
          /\ Owns(r, rm[r].addr) /\ Owns(r, rmCache[r].addr) /\ Owns(r, mem[r].addr)
          /\ \A p \in Pooled : poolCache[p] = r => pool[p] = r
          /\ rmCache[r].phase \in {"none", "live"}
          /\ pc[r] \notin {"cleanup", "return"}

(* The invariant holds initially.                                            *)
LEMMA InitReserved == Init => ReservationInv
<1> SUFFICES ASSUME Init PROVE ReservationInv
    OBVIOUS
<1>1. \A r \in RM : /\ rm[r] = NewObject /\ rmCache[r] = NewObject
                    /\ mem[r] = Loaded(NewObject) /\ pc[r] = "idle"
    BY DEF Init
<1>2. /\ NewObject.phase = "none" /\ NewObject.addr = None
      /\ Loaded(NewObject).addr = None /\ ~Loaded(NewObject).valid
    BY DEF NewObject, Loaded
<1> QED BY <1>1, <1>2 DEF Init, ReservationInv, WantInv, Alive, Owns

(* A step that leaves the pool and the objects alone, and keeps in memory    *)
(* only addresses and decisions that were there before, keeps the invariant. *)
LEMMA QuietStep ==
    ASSUME TypeOK, ReservationInv, UNCHANGED <<objects, pools>>,
           \A q \in RM : /\ mem'[q].addr \in {mem[q].addr, rmCache[q].addr, None}
                         /\ mem'[q].valid => mem[q].valid /\ mem'[q].want = mem[q].want
                         /\ Alive(q) => pc'[q] \notin {"cleanup", "return"}
    PROVE  ReservationInv'
<1> USE DEF objects, pools
<1>1. WantInv' /\ \A q \in RM : mem'[q].valid => pool'[mem'[q].want] = NoRM
  <2> SUFFICES ASSUME NEW q \in RM, mem'[q].valid
               PROVE  mem'[q].want \in Pooled /\ pool'[mem'[q].want] = NoRM
      BY DEF WantInv
  <2>1. mem[q].valid /\ mem'[q].want = mem[q].want
      OBVIOUS
  <2>3. pool' = pool
      OBVIOUS
  <2>2. mem[q].want \in Pooled /\ pool[mem[q].want] = NoRM
      BY <2>1 DEF ReservationInv, WantInv
  <2> QED BY <2>1, <2>2, <2>3
<1>2. \A p \in Pooled : p \notin behind' => poolCache'[p] = pool'[p]
    BY DEF ReservationInv
<1>3. ASSUME NEW q \in RM, Alive(q)'
      PROVE  /\ Owns(q, rm[q].addr)' /\ Owns(q, rmCache[q].addr)' /\ Owns(q, mem[q].addr)'
             /\ \A p \in Pooled : poolCache'[p] = q => pool'[p] = q
             /\ rmCache'[q].phase \in {"none", "live"}
             /\ pc'[q] \notin {"cleanup", "return"}
  <2>1. Alive(q)
      BY <1>3 DEF Alive
  <2>2. /\ Owns(q, rm[q].addr) /\ Owns(q, rmCache[q].addr) /\ Owns(q, mem[q].addr)
        /\ \A p \in Pooled : poolCache[p] = q => pool[p] = q
        /\ rmCache[q].phase \in {"none", "live"}
      BY <1>3, <2>1 DEF ReservationInv
  <2>3. pc'[q] \notin {"cleanup", "return"}
      BY <2>1
  <2>4. mem'[q].addr \in {mem[q].addr, rmCache[q].addr, None}
      BY <1>3
  <2>5. Owns(q, mem[q].addr)'
      BY <2>2, <2>4 DEF Owns
  <2> QED BY <2>2, <2>3, <2>5 DEF Owns
<1> QED BY <1>1, <1>2, <1>3 DEF ReservationInv

(* The same for a step that changes, in one memory, only fields the          *)
(* invariant is not about, and does not lead to the deletion of a live one.  *)
LEMMA QuietFields ==
    ASSUME TypeOK, ReservationInv, UNCHANGED <<objects, pools>>, NEW r \in RM,
           NEW label \in {"patch", "update", "provision", "hung", "return"}, Goto(r, label),
           label = "return" => pc[r] = "cleanup",
           \/ mem' = mem
           \/ mem' = [mem EXCEPT ![r] = [mem[r] EXCEPT !.cond = TRUE, !.pid = TRUE]]
           \/ mem' = [mem EXCEPT ![r] = [mem[r] EXCEPT !.cond = FALSE]]
           \/ mem' = [mem EXCEPT ![r] = [mem[r] EXCEPT !.dropFin = TRUE]]
    PROVE  ReservationInv'
<1>1. \A q \in RM : Alive(q) => pc'[q] \notin {"cleanup", "return"}
    BY SMTT(30) DEF Goto, TypeOK, ReservationInv
<1> DEFINE Same(m, n) == n.addr = m.addr /\ n.want = m.want /\ n.valid = m.valid
<1>6. ASSUME NEW m \in Memory, NEW b \in BOOLEAN, NEW c \in BOOLEAN
      PROVE  /\ Same(m, [m EXCEPT !.cond = b, !.pid = c])
             /\ Same(m, [m EXCEPT !.cond = b])
             /\ Same(m, [m EXCEPT !.dropFin = b])
    BY DEF Memory
<1>7. mem[r] \in Memory
    BY DEF TypeOK
<1>8. Same(mem[r], mem'[r])
  <2> HIDE DEF Same
  <2>1. Same(mem[r], [mem[r] EXCEPT !.cond = TRUE, !.pid = TRUE])
      BY <1>6, <1>7
  <2>2. Same(mem[r], [mem[r] EXCEPT !.cond = FALSE])
      BY <1>6, <1>7
  <2>3. Same(mem[r], [mem[r] EXCEPT !.dropFin = TRUE])
      BY <1>6, <1>7
  <2>4. Same(mem[r], mem[r])
      BY DEF Same
  <2>5. \A m : [mem EXCEPT ![r] = m][r] = m
      BY DEF TypeOK
  <2> QED BY <2>1, <2>2, <2>3, <2>4, <2>5
<1>9. \A q \in RM : q # r => mem'[q] = mem[q]
    BY DEF TypeOK
<1>2. \A q \in RM : mem'[q].addr = mem[q].addr /\ mem'[q].want = mem[q].want
    BY <1>8, <1>9
<1>3. \A q \in RM : mem'[q].valid = mem[q].valid
    BY <1>8, <1>9
<1>4. \A q \in RM : mem'[q].valid => mem[q].valid
    BY <1>3
<1>5. \A q \in RM : mem'[q].addr \in {mem[q].addr, rmCache[q].addr, None}
    BY <1>2
<1> QED BY <1>1, <1>2, <1>4, <1>5, QuietStep

(* A step that leaves the pool alone keeps the invariant when what it writes *)
(* about a RemoteMachine that is not deleted names machines reserved for it. *)
LEMMA SamePool ==
    ASSUME ReservationInv, UNCHANGED pools,
           \A q \in RM : mem'[q].valid => mem'[q].want \in Pooled /\ pool[mem'[q].want] = NoRM,
           \A q \in RM : Alive(q)' =>
              /\ Alive(q)
              /\ Owns(q, rm'[q].addr) /\ Owns(q, rmCache'[q].addr) /\ Owns(q, mem'[q].addr)
              /\ rmCache'[q].phase \in {"none", "live"}
              /\ pc'[q] \notin {"cleanup", "return"}
    PROVE  ReservationInv'
<1>1. pool' = pool /\ poolCache' = poolCache /\ behind' = behind
    BY DEF pools
<1>2. \A q \in RM : mem'[q].valid => pool'[mem'[q].want] = NoRM
    BY <1>1
<1>3. WantInv'
    BY DEF WantInv
<1>4. ASSUME NEW q \in RM, Alive(q)'
      PROVE  /\ Owns(q, rm[q].addr)' /\ Owns(q, rmCache[q].addr)' /\ Owns(q, mem[q].addr)'
             /\ \A p \in Pooled : poolCache'[p] = q => pool'[p] = q
             /\ rmCache'[q].phase \in {"none", "live"}
             /\ pc'[q] \notin {"cleanup", "return"}
    BY <1>1, <1>4 DEF ReservationInv, Owns
<1>5. \A p \in Pooled : p \notin behind' => poolCache'[p] = pool'[p]
    BY <1>1 DEF ReservationInv
<1> QED BY <1>2, <1>3, <1>4, <1>5 DEF ReservationInv

(* What a Reconcile starts with is what the cache has.                       *)
LEMMA LoadedFields ==
    /\ \A o \in Object : Loaded(o).addr = o.addr /\ ~Loaded(o).valid
    /\ Loaded(NewObject).addr = None /\ ~Loaded(NewObject).valid
  BY LoadedType DEF Loaded, NewObject

(* A step of Reconcile that only reads, or works on the machine itself.      *)
LEMMA WorkStep ==
    ASSUME TypeOK, ReservationInv, NEW r \in RM,
           \/ StartReconcile(r) \/ NoFreeMachine(r) \/ Conflict(r) \/ Provision(r) \/ Cleanup(r)
           \/ ReturnConflict(r) \/ NothingToReturn(r)
    PROVE  ReservationInv'
<1>1. CASE StartReconcile(r)
  <2>1. rmCache[r] \in Object
      BY DEF TypeOK
  <2>2. mem'[r] = Loaded(rmCache[r]) /\ \A q \in RM : q # r => mem'[q] = mem[q]
      BY <1>1 DEF StartReconcile, TypeOK
  <2>3. \A q \in RM : mem'[q].addr \in {mem[q].addr, rmCache[q].addr, None}
      BY <2>1, <2>2, LoadedFields
  <2>4. \A q \in RM : mem'[q].valid => mem[q].valid /\ mem'[q].want = mem[q].want
      BY <2>1, <2>2, LoadedFields
  <2>5. \A q \in RM : Alive(q) => pc'[q] \notin {"cleanup", "return"}
    <3>1. pc'[r] = AfterStart(rmCache[r]) /\ \A q \in RM : q # r => pc'[q] = pc[q]
        BY <1>1 DEF StartReconcile, Goto, TypeOK
    <3>2. Alive(r) => AfterStart(rmCache[r]) \notin {"cleanup", "return"}
        BY DEF AfterStart, ReservationInv
    <3> QED BY <3>1, <3>2 DEF ReservationInv
  <2>6. UNCHANGED <<objects, pools>>
      BY <1>1 DEF StartReconcile, objects, pools
  <2> QED BY <2>3, <2>4, <2>5, <2>6, QuietStep
<1>2. CASE NoFreeMachine(r)
    BY <1>2, QuietFields DEF NoFreeMachine
<1>3. CASE Conflict(r)
    BY <1>3, QuietFields DEF Conflict
<1>4. CASE Provision(r)
    BY <1>4, QuietFields DEF Provision
<1>5. CASE Cleanup(r)
    BY <1>5, QuietFields DEF Cleanup
<1>6. CASE ReturnConflict(r)
    BY <1>6, QuietFields DEF ReturnConflict
<1>7. CASE NothingToReturn(r)
    BY <1>7, QuietFields DEF NothingToReturn
<1> QED BY <1>1, <1>2, <1>3, <1>4, <1>5, <1>6, <1>7

(* The reservation that FindReserved finds in the cache, and the machine     *)
(* that PickFree finds free, are what they seem when the Update accepts it.  *)
LEMMA ListStep ==
    ASSUME TypeOK, ReservationInv, NEW r \in RM, FindReserved(r) \/ PickFree(r)
    PROVE  ReservationInv'
<1> DEFINE Kept(q) == /\ Alive(q) => Owns(q, mem'[q].addr)
                      /\ mem'[q].valid => mem'[q].want \in Pooled /\ pool[mem'[q].want] = NoRM
<1>1. mem[r] \in Memory
    BY DEF TypeOK
<1>2. \A q \in RM : q # r => mem'[q] = mem[q]
    BY DEF FindReserved, PickFree, TypeOK
<1>3. \A q \in RM : q # r => Kept(q)
    BY <1>2 DEF ReservationInv, WantInv
<1>4. Kept(r)
  <2>1. CASE FindReserved(r)
    <3> DEFINE p == FirstOf(Mine(r, poolCache))
    <3>1. Mine(r, poolCache) # {} /\ Mine(r, poolCache) \in SUBSET Pooled
        BY <2>1 DEF FindReserved, Mine
    <3>2. p \in Pooled /\ poolCache[p] = r
        BY <3>1, FirstOfMember DEF Mine
    <3>3. mem'[r] = Populated(mem[r], p)
        BY <2>1 DEF FindReserved, TypeOK
    <3> HIDE DEF p
    <3>4. mem'[r].addr = p /\ mem'[r].want = mem[r].want
        BY <1>1, <3>3 DEF Populated, Memory
    <3>5. mem'[r].valid = mem[r].valid
        BY <1>1, <3>3 DEF Populated, Memory
    <3>6. Alive(r) => pool[p] = r
        BY <3>2 DEF ReservationInv
    <3>7. mem[r].valid => mem[r].want \in Pooled /\ pool[mem[r].want] = NoRM
        BY DEF ReservationInv, WantInv
    <3>8. mem'[r].valid => mem'[r].want \in Pooled /\ pool[mem'[r].want] = NoRM
        BY <3>4, <3>5, <3>7
    <3> QED BY <3>4, <3>6, <3>8 DEF Owns
  <2>2. CASE PickFree(r)
    <3> DEFINE p == FirstOf(Free(poolCache))
               b == p \notin behind
    <3>1. Free(poolCache) # {} /\ Free(poolCache) \in SUBSET Pooled
        BY <2>2 DEF PickFree, Free
    <3>2. p \in Pooled /\ poolCache[p] = NoRM
        BY <3>1, FirstOfMember DEF Free
    <3>3. mem'[r] = [mem[r] EXCEPT !.want = p, !.valid = b]
        BY <2>2 DEF PickFree, TypeOK
    <3>4. b => pool[p] = NoRM
        BY <3>2 DEF ReservationInv
    <3>5. b \in BOOLEAN
        OBVIOUS
    <3> HIDE DEF p, b
    <3>6. mem'[r].want = p /\ mem'[r].valid = b /\ mem'[r].addr = mem[r].addr
        BY <1>1, <3>3, <3>5 DEF Memory
    <3>7. mem'[r].valid => mem'[r].want \in Pooled /\ pool[mem'[r].want] = NoRM
        BY <3>2, <3>4, <3>6
    <3>8. Alive(r) => Owns(r, mem'[r].addr)
        BY <3>6 DEF ReservationInv
    <3> QED BY <3>7, <3>8
  <2> QED BY <2>1, <2>2
<1>5. \A q \in RM : Alive(q) => pc'[q] \notin {"cleanup", "return"}
    BY SMTT(30) DEF FindReserved, PickFree, AfterReserve, Goto, TypeOK, ReservationInv
<1>6. UNCHANGED pools /\ rm' = rm /\ rmCache' = rmCache
    BY DEF FindReserved, PickFree, objects, pools
<1>7. \A q \in RM : Alive(q)' =>
          /\ Alive(q)
          /\ Owns(q, rm'[q].addr) /\ Owns(q, rmCache'[q].addr) /\ Owns(q, mem'[q].addr)
          /\ rmCache'[q].phase \in {"none", "live"}
          /\ pc'[q] \notin {"cleanup", "return"}
    BY <1>3, <1>4, <1>5, <1>6 DEF ReservationInv, Alive
<1> QED BY <1>3, <1>4, <1>6, <1>7, SamePool

(* Writing the status of p: no copy of p that was read before is accepted.   *)
LEMMA OutdatedFields ==
    ASSUME NEW m \in [RM -> Memory], NEW p, NEW q \in RM
    PROVE  /\ Outdated(p, m)[q].addr = m[q].addr
           /\ Outdated(p, m)[q].want = m[q].want
           /\ Outdated(p, m)[q].valid => m[q].valid /\ m[q].want # p
<1>1. m[q] \in Memory
    OBVIOUS
<1>2. Outdated(p, m)[q] = IF m[q].want = p THEN [m[q] EXCEPT !.valid = FALSE] ELSE m[q]
    BY DEF Outdated
<1>3. /\ [m[q] EXCEPT !.valid = FALSE].addr = m[q].addr
      /\ [m[q] EXCEPT !.valid = FALSE].want = m[q].want
    BY <1>1 DEF Memory
<1>4. [m[q] EXCEPT !.valid = FALSE].valid = FALSE
    BY <1>1 DEF Memory
<1>5. CASE m[q].want = p
    BY <1>2, <1>3, <1>4, <1>5
<1>6. CASE m[q].want # p
    BY <1>2, <1>6
<1> QED BY <1>5, <1>6

(* A write to p keeps the invariant when p was not reserved for a            *)
(* RemoteMachine that is not deleted.                                        *)
LEMMA PoolStep ==
    ASSUME TypeOK, ReservationInv, NEW p \in Pooled, NEW v,
           WritePool(p, v), rm' = rm, rmCache' = rmCache,
           \A q \in RM : Alive(q) => pool[p] # q,
           \A q \in RM : mem'[q].valid =>
              mem[q].valid /\ mem'[q].want = mem[q].want /\ mem[q].want # p,
           \A q \in RM : Alive(q) =>
              mem'[q].addr = mem[q].addr \/ (mem'[q].addr = p /\ v = q),
           \A q \in RM : Alive(q) => pc'[q] \notin {"cleanup", "return"}
    PROVE  ReservationInv'
<1>1. pool'[p] = v /\ \A x \in Pooled : x # p => pool'[x] = pool[x]
    BY DEF WritePool, TypeOK
<1>2. poolCache' = poolCache /\ behind' = behind \cup {p}
    BY DEF WritePool
<1>3. ASSUME NEW q \in RM, mem'[q].valid
      PROVE  mem'[q].want \in Pooled /\ pool'[mem'[q].want] = NoRM
  <2>1. mem[q].valid /\ mem'[q].want = mem[q].want /\ mem[q].want # p
      BY <1>3
  <2>2. mem[q].want \in Pooled /\ pool[mem[q].want] = NoRM
      BY <2>1 DEF ReservationInv, WantInv
  <2> QED BY <1>1, <2>1, <2>2
<1>4. \A x \in Pooled : x \notin behind' => poolCache'[x] = pool'[x]
    BY <1>1, <1>2 DEF ReservationInv
<1>5. ASSUME NEW q \in RM, Alive(q)'
      PROVE  /\ Owns(q, rm[q].addr)' /\ Owns(q, rmCache[q].addr)' /\ Owns(q, mem[q].addr)'
             /\ \A x \in Pooled : poolCache'[x] = q => pool'[x] = q
             /\ rmCache'[q].phase \in {"none", "live"}
             /\ pc'[q] \notin {"cleanup", "return"}
  <2>1. Alive(q) /\ pool[p] # q
      BY <1>5 DEF Alive
  <2>2. /\ Owns(q, rm[q].addr) /\ Owns(q, rmCache[q].addr) /\ Owns(q, mem[q].addr)
        /\ \A x \in Pooled : poolCache[x] = q => pool[x] = q
        /\ rmCache[q].phase \in {"none", "live"}
      BY <1>5, <2>1 DEF ReservationInv
  <2>3. /\ rm[q].addr \in Pooled \cup {None} /\ rmCache[q].addr \in Pooled \cup {None}
        /\ mem[q].addr \in Pooled \cup {None}
      BY <1>5 DEF TypeOK, Object, Memory
  <2>4. Owns(q, rm[q].addr)' /\ Owns(q, rmCache[q].addr)'
      BY <1>1, <2>1, <2>2, <2>3 DEF Owns
  <2>5. mem'[q].addr = mem[q].addr \/ (mem'[q].addr = p /\ v = q)
      BY <1>5, <2>1
  <2>6. Owns(q, mem[q].addr)'
      BY <1>1, <2>1, <2>2, <2>3, <2>5, SMTT(30) DEF Owns
  <2>7. \A x \in Pooled : poolCache'[x] = q => pool'[x] = q
      BY <1>1, <1>2, <2>1, <2>2
  <2>8. pc'[q] \notin {"cleanup", "return"}
      BY <1>5, <2>1
  <2> QED BY <2>2, <2>4, <2>6, <2>7, <2>8
<1>6. WantInv'
    BY <1>3 DEF WantInv
<1> QED BY <1>3, <1>4, <1>5, <1>6 DEF ReservationInv

(* A reservation, and the return of a machine to the pool.                   *)
LEMMA WriteStep ==
    ASSUME TypeOK, ReservationInv, NEW r \in RM, Reserve(r) \/ ReturnMachineToPool(r)
    PROVE  ReservationInv'
<1>1. mem[r] \in Memory
    BY DEF TypeOK
<1>2. CASE Reserve(r)
  <2>1. mem[r].valid
      BY <1>2 DEF Reserve, CanUpdate
  <2>a. mem[r].want \in Pooled /\ pool[mem[r].want] = NoRM
      BY <2>1 DEF ReservationInv, WantInv
  <2>2. PICK p \in Pooled : p = mem[r].want /\ pool[p] = NoRM
      BY <2>a
  <2> DEFINE n == Populated(mem[r], p)
             m == [mem EXCEPT ![r] = n]
  <2>3. n \in Memory
      BY <1>1, <2>2, PopulatedType
  <2>4. n.addr = p /\ n.want = mem[r].want
      BY <1>1, <2>2 DEF Populated, Memory
  <2>5. n.valid = mem[r].valid
      BY <1>1, <2>2 DEF Populated, Memory
  <2>6. mem' = Outdated(p, m) /\ WritePool(p, r) /\ rm' = rm /\ rmCache' = rmCache
      BY <1>2, <2>2 DEF Reserve, objects
  <2>7. /\ Goto(r, "patch") \/ Goto(r, "provision")
      BY <1>2 DEF Reserve, AfterReserve
  <2> HIDE DEF n
  <2>8. /\ m \in [RM -> Memory] /\ m[r] = n
        /\ \A q \in RM : q # r => m[q] = mem[q]
      BY <2>3 DEF TypeOK
  <2> HIDE DEF m
  <2>14. \A q \in RM : /\ mem'[q].addr = m[q].addr
                       /\ mem'[q].want = m[q].want
                       /\ mem'[q].valid => m[q].valid /\ m[q].want # p
    <3> SUFFICES ASSUME NEW q \in RM
                 PROVE  /\ Outdated(p, m)[q].addr = m[q].addr
                        /\ Outdated(p, m)[q].want = m[q].want
                        /\ Outdated(p, m)[q].valid => m[q].valid /\ m[q].want # p
        BY <2>6
    <3> QED BY <2>8, OutdatedFields, SMTT(30)
  <2>9. \A q \in RM : mem'[q].valid =>
            mem[q].valid /\ mem'[q].want = mem[q].want /\ mem[q].want # p
    <3> SUFFICES ASSUME NEW q \in RM, mem'[q].valid
                 PROVE  mem[q].valid /\ mem'[q].want = mem[q].want /\ mem[q].want # p
        OBVIOUS
    <3>1. m[q].valid /\ m[q].want # p /\ mem'[q].want = m[q].want
        BY <2>14
    <3>2. m[q].valid = mem[q].valid /\ m[q].want = mem[q].want
        BY <2>4, <2>5, <2>8
    <3> QED BY <3>1, <3>2
  <2>10. \A q \in RM : Alive(q) => mem'[q].addr = mem[q].addr \/ (mem'[q].addr = p /\ r = q)
    <3> SUFFICES ASSUME NEW q \in RM
                 PROVE  mem'[q].addr = mem[q].addr \/ (mem'[q].addr = p /\ r = q)
        OBVIOUS
    <3>1. mem'[q].addr = m[q].addr
        BY <2>14
    <3> QED BY <2>4, <2>8, <3>1
  <2>11. \A q \in RM : Alive(q) => pc'[q] \notin {"cleanup", "return"}
      BY <2>7, SMTT(30) DEF Goto, TypeOK, ReservationInv
  <2>12. \A q \in RM : Alive(q) => pool[p] # q
      BY <2>2
  <2> QED BY <2>2, <2>6, <2>9, <2>10, <2>11, <2>12, PoolStep, SMTT(30)
<1>3. CASE ReturnMachineToPool(r)
  <2>1. PICK p \in Mine(r, poolCache) \ behind :
            /\ ReturnTo(p, r)
            /\ mem' = Outdated(p, [mem EXCEPT ![r].dropFin = TRUE])
      BY <1>3 DEF ReturnMachineToPool
  <2> DEFINE m == [mem EXCEPT ![r] = [mem[r] EXCEPT !.dropFin = TRUE]]
  <2>2. p \in Pooled /\ pool[p] = r
      BY <2>1 DEF Mine, ReservationInv
  <2>3. ~Alive(r)
      BY <1>3 DEF ReturnMachineToPool, ReservationInv
  <2>4. [mem[r] EXCEPT !.dropFin = TRUE] \in Memory
      BY <1>1, FieldTypes DEF None
  <2>5. mem' = Outdated(p, m)
      BY <2>1
  <2>6. /\ m \in [RM -> Memory]
        /\ m[r] = [mem[r] EXCEPT !.dropFin = TRUE]
        /\ \A q \in RM : q # r => m[q] = mem[q]
      BY <2>4 DEF TypeOK
  <2> HIDE DEF m
  <2>7. m[r].addr = mem[r].addr /\ m[r].want = mem[r].want
      BY <1>1, <2>6 DEF Memory
  <2>8. m[r].valid = mem[r].valid
      BY <1>1, <2>6 DEF Memory
  <2>14. \A q \in RM : /\ mem'[q].addr = m[q].addr
                       /\ mem'[q].want = m[q].want
                       /\ mem'[q].valid => m[q].valid /\ m[q].want # p
    <3> SUFFICES ASSUME NEW q \in RM
                 PROVE  /\ Outdated(p, m)[q].addr = m[q].addr
                        /\ Outdated(p, m)[q].want = m[q].want
                        /\ Outdated(p, m)[q].valid => m[q].valid /\ m[q].want # p
        BY <2>5
    <3> QED BY <2>6, OutdatedFields, SMTT(30)
  <2>9. \A q \in RM : mem'[q].valid =>
            mem[q].valid /\ mem'[q].want = mem[q].want /\ mem[q].want # p
    <3> SUFFICES ASSUME NEW q \in RM, mem'[q].valid
                 PROVE  mem[q].valid /\ mem'[q].want = mem[q].want /\ mem[q].want # p
        OBVIOUS
    <3>1. m[q].valid /\ m[q].want # p /\ mem'[q].want = m[q].want
        BY <2>14
    <3>2. m[q].valid = mem[q].valid /\ m[q].want = mem[q].want
        BY <2>6, <2>7, <2>8
    <3> QED BY <3>1, <3>2
  <2>10. \A q \in RM : mem'[q].addr = mem[q].addr
      BY <2>6, <2>7, <2>14
  <2>11. \A q \in RM : Alive(q) => pc'[q] \notin {"cleanup", "return"}
      BY <1>3 DEF ReturnMachineToPool, Goto, TypeOK, ReservationInv
  <2>12. \A q \in RM : Alive(q) => pool[p] # q
      BY <2>2, <2>3
  <2>13. WritePool(p, NoRM) /\ rm' = rm /\ rmCache' = rmCache
      BY <1>3, <2>1 DEF ReturnMachineToPool, ReturnTo, objects
  <2> QED BY <2>2, <2>9, <2>10, <2>11, <2>12, <2>13, PoolStep
<1> QED BY <1>2, <1>3

(* A step that changes objects and cached objects only, or ends a Reconcile, *)
(* keeps the invariant when the addresses in them were known before.         *)
LEMMA ObjectStep ==
    ASSUME TypeOK, ReservationInv, UNCHANGED pools,
           \A q \in RM : mem'[q] \in {mem[q], Loaded(NewObject)},
           \A q \in RM : Alive(q) => pc'[q] \notin {"cleanup", "return"},
           \A q \in RM : Alive(q)' =>
              /\ Alive(q)
              /\ rm'[q].addr \in {rm[q].addr, mem[q].addr}
              /\ rmCache'[q].addr \in {rmCache[q].addr, rm[q].addr}
              /\ rmCache'[q].phase \in {rmCache[q].phase, rm[q].phase}
    PROVE  ReservationInv'
<1>1. \A q \in RM : mem'[q].valid => mem'[q].want \in Pooled /\ pool[mem'[q].want] = NoRM
  <2> SUFFICES ASSUME NEW q \in RM, mem'[q].valid
               PROVE  mem'[q].want \in Pooled /\ pool[mem'[q].want] = NoRM
      OBVIOUS
  <2>1. mem'[q] = mem[q]
      BY LoadedFields
  <2>2. mem[q].valid => mem[q].want \in Pooled /\ pool[mem[q].want] = NoRM
      BY DEF ReservationInv, WantInv
  <2> QED BY <2>1, <2>2
<1>2. ASSUME NEW q \in RM, Alive(q)'
      PROVE  /\ Alive(q)
             /\ Owns(q, rm'[q].addr) /\ Owns(q, rmCache'[q].addr) /\ Owns(q, mem'[q].addr)
             /\ rmCache'[q].phase \in {"none", "live"}
             /\ pc'[q] \notin {"cleanup", "return"}
  <2>1. Alive(q)
      BY <1>2
  <2>2. /\ Owns(q, rm[q].addr) /\ Owns(q, rmCache[q].addr) /\ Owns(q, mem[q].addr)
        /\ rmCache[q].phase \in {"none", "live"}
      BY <1>2, <2>1 DEF ReservationInv
  <2>3. Owns(q, rm'[q].addr) /\ Owns(q, rmCache'[q].addr)
      BY <1>2, <2>2
  <2>4. Owns(q, mem'[q].addr)
    <3>1. Owns(q, None)
        BY DEF Owns
    <3> QED BY <1>2, <2>2, <3>1, LoadedFields
  <2>5. rmCache'[q].phase \in {"none", "live"}
      BY <1>2, <2>1, <2>2 DEF Alive
  <2>6. pc'[q] \notin {"cleanup", "return"}
      BY <1>2, <2>1
  <2> QED BY <2>1, <2>3, <2>4, <2>5, <2>6
<1> QED BY <1>1, <1>2, SamePool

(* A call of the deferred patch.                                             *)
LEMMA PatchStep ==
    ASSUME TypeOK, ReservationInv, NEW r \in RM,
           PatchConditions(r) \/ PatchSpec(r) \/ PatchStatus(r)
    PROVE  ReservationInv'
<1>1. rm[r] \in Object /\ mem[r] \in Memory
    BY DEF TypeOK
<1>2. PICK after \in {PatchedConditions(rm[r], mem[r]), PatchedSpec(rm[r], mem[r]),
                     PatchedStatus(rm[r], mem[r])},
           label \in {"patchSpec", "patchStatus", "idle"} :
          /\ rm' = [rm EXCEPT ![r] = IF rm[r].phase = "gone" THEN rm[r] ELSE after]
          /\ Goto(r, label)
          /\ mem' \in {mem, [mem EXCEPT ![r] = Loaded(NewObject)]}
          /\ UNCHANGED <<rmCache, pools>>
    BY DEF PatchConditions, PatchSpec, PatchStatus, PatchCall
<1>3. /\ PatchedConditions(rm[r], mem[r]).addr = rm[r].addr
      /\ PatchedConditions(rm[r], mem[r]).phase = rm[r].phase
    BY <1>1 DEF PatchedConditions, Object
<1>4. /\ PatchedStatus(rm[r], mem[r]).addr = rm[r].addr
      /\ PatchedStatus(rm[r], mem[r]).phase = rm[r].phase
    BY <1>1 DEF PatchedStatus, Object
<1>5. /\ PatchedSpec(rm[r], mem[r]).addr \in {rm[r].addr, mem[r].addr}
      /\ PatchedSpec(rm[r], mem[r]).phase \in {rm[r].phase, "gone"}
    BY <1>1 DEF PatchedSpec, Changed, Object
<1>6. after.addr \in {rm[r].addr, mem[r].addr} /\ after.phase \in {rm[r].phase, "gone"}
    BY <1>2, <1>3, <1>4, <1>5
<1>7. /\ rm'[r] = rm[r] \/ rm'[r] = after
      /\ \A q \in RM : q # r => rm'[q] = rm[q]
    BY <1>2 DEF TypeOK
<1>8. \A q \in RM : rm'[q].addr \in {rm[q].addr, mem[q].addr}
    BY <1>6, <1>7
<1>9. \A q \in RM : Alive(q)' => Alive(q)
    BY <1>6, <1>7 DEF Alive
<1>10. \A q \in RM : mem'[q] \in {mem[q], Loaded(NewObject)}
    BY <1>2 DEF TypeOK
<1>11. \A q \in RM : Alive(q) => pc'[q] \notin {"cleanup", "return"}
    BY <1>2, SMTT(30) DEF Goto, TypeOK, ReservationInv
<1>12. UNCHANGED pools /\ rmCache' = rmCache
    BY <1>2 DEF pools
<1>13. \A q \in RM : Alive(q)' =>
          /\ Alive(q)
          /\ rm'[q].addr \in {rm[q].addr, mem[q].addr}
          /\ rmCache'[q].addr \in {rmCache[q].addr, rm[q].addr}
          /\ rmCache'[q].phase \in {rmCache[q].phase, rm[q].phase}
    BY <1>8, <1>9, <1>12
<1> QED BY <1>10, <1>11, <1>12, <1>13, ObjectStep

(* The finalizer, the cache of the objects, creation, deletion, a crash and  *)
(* a failed patch.                                                           *)
LEMMA OtherObjectStep ==
    ASSUME TypeOK, ReservationInv, NEW r \in RM,
           \/ EnsureFinalizer(r) \/ SyncRM(r) \/ Create(r) \/ Delete(r) \/ PatchFails(r) \/ Crash
    PROVE  ReservationInv'
<1>1. rm[r] \in Object
    BY DEF TypeOK
<1>2. /\ rm'[r].addr = rm[r].addr
      /\ rm'[r].phase = rm[r].phase \/ rm'[r].phase \in {"deleting", "gone"} \/ Alive(r)
  <2>1. CASE EnsureFinalizer(r)
    <3>1. rm'[r] = [rm[r] EXCEPT !.fin = TRUE]
        BY <2>1 DEF EnsureFinalizer, TypeOK
    <3> QED BY <1>1, <3>1 DEF Object
  <2>2. CASE SyncRM(r) \/ PatchFails(r) \/ Crash
      BY <2>2 DEF SyncRM, PatchFails, Crash, objects
  <2>3. CASE Create(r)
    <3>1. rm'[r] = [rm[r] EXCEPT !.phase = "live"] /\ rm[r].phase = "none"
        BY <2>3 DEF Create, TypeOK
    <3> QED BY <1>1, <3>1 DEF Object, Alive
  <2>4. CASE Delete(r)
    <3> DEFINE ph == IF rm[r].fin THEN "deleting" ELSE "gone"
    <3>1. rm'[r] = [rm[r] EXCEPT !.phase = ph]
        BY <2>4 DEF Delete, TypeOK
    <3>2. ph \in {"deleting", "gone"}
        OBVIOUS
    <3> HIDE DEF ph
    <3> QED BY <1>1, <3>1, <3>2 DEF Object
  <2> QED BY <2>1, <2>2, <2>3, <2>4
<1>3. \A q \in RM : q # r => rm'[q] = rm[q]
    BY DEF EnsureFinalizer, SyncRM, Create, Delete, PatchFails, Crash, objects, TypeOK
<1>4. \A q \in RM : rmCache'[q] \in {rmCache[q], rm[q]}
    BY SMTT(30) DEF EnsureFinalizer, SyncRM, Create, Delete, PatchFails, Crash, objects, TypeOK
<1>5. \A q \in RM : mem'[q] \in {mem[q], Loaded(NewObject)}
    BY DEF EnsureFinalizer, SyncRM, Create, Delete, PatchFails, Crash, TypeOK
<1>6. \A q \in RM : Alive(q) => pc'[q] \notin {"cleanup", "return"}
    BY SMTT(30) DEF EnsureFinalizer, SyncRM, Create, Delete, PatchFails, Crash, Goto, TypeOK, ReservationInv
<1>7. UNCHANGED pools
    BY DEF EnsureFinalizer, SyncRM, Create, Delete, PatchFails, Crash, pools
<1>8. \A q \in RM : Alive(q)' => Alive(q)
    BY <1>2, <1>3 DEF Alive
<1>9. \A q \in RM : Alive(q)' =>
          /\ Alive(q)
          /\ rm'[q].addr \in {rm[q].addr, mem[q].addr}
          /\ rmCache'[q].addr \in {rmCache[q].addr, rm[q].addr}
          /\ rmCache'[q].phase \in {rmCache[q].phase, rm[q].phase}
    BY <1>2, <1>3, <1>4, <1>8
<1> QED BY <1>5, <1>6, <1>7, <1>9, ObjectStep

(* The cache of the pool catches up.                                         *)
LEMMA SyncPoolStep == TypeOK /\ ReservationInv /\ SyncPool => ReservationInv'
  BY SMTT(30) DEF SyncPool, objects, TypeOK, ReservationInv, WantInv, Alive, Owns

(* A failed call, a failed or a hanging provisioning, a failed cleanup.      *)
LEMMA FailureStep ==
    ASSUME TypeOK, ReservationInv, NEW r \in RM,
           CallFails(r) \/ ProvisionFails(r) \/ Hang(r) \/ CleanupFails(r)
    PROVE  ReservationInv'
<1>1. CASE CallFails(r)
    BY <1>1, QuietFields DEF CallFails, ReturnError
<1>2. CASE ProvisionFails(r)
    BY <1>2, QuietFields DEF ProvisionFails
<1>3. CASE Hang(r)
    BY <1>3, QuietFields DEF Hang
<1>4. CASE CleanupFails(r)
    BY <1>4, QuietFields DEF CleanupFails
<1> QED BY <1>1, <1>2, <1>3, <1>4

(* Types and reservations are preserved by every step.                       *)
LEMMA NextReserved == TypeOK /\ ReservationInv /\ [Next]_vars => TypeOK' /\ ReservationInv'
<1> SUFFICES ASSUME TypeOK, ReservationInv, [Next]_vars PROVE TypeOK' /\ ReservationInv'
    OBVIOUS
<1>1. WantInv
    BY DEF ReservationInv
<1>2. ASSUME NEW r \in RM, Reconcile(r) PROVE TypeOK' /\ ReservationInv'
  <2>1. TypeOK'
      BY <1>1, <1>2, ReconcileType
  <2>2. ReservationInv'
      BY <1>2, WorkStep, ListStep, WriteStep, PatchStep, OtherObjectStep DEF Reconcile
  <2> QED BY <2>1, <2>2
<1>3. ASSUME NEW r \in RM, Failure(r) PROVE TypeOK' /\ ReservationInv'
    BY <1>3, FailureType, FailureStep, OtherObjectStep DEF Failure
<1>4. CASE Environment
  <2>1. TypeOK'
      BY <1>4, FailureType
  <2>2. CASE SyncPool
      BY <2>1, <2>2, SyncPoolStep
  <2>3. CASE Crash
      BY <2>1, <2>3, OtherObjectStep DEF Crash
  <2>4. ASSUME NEW r \in RM, SyncRM(r) \/ Create(r) \/ Delete(r) PROVE ReservationInv'
      BY <2>4, OtherObjectStep
  <2> QED BY <1>4, <2>1, <2>2, <2>3, <2>4 DEF Environment
<1>5. CASE UNCHANGED vars
    BY <1>5, SMTT(30) DEF vars, TypeOK, ReservationInv, WantInv, Alive, Owns
<1> QED BY <1>2, <1>3, <1>4, <1>5 DEF Next

(* Every reachable state of the RemoteMachine controller is well typed: a    *)
(* reservation never goes to a machine outside the pool.                     *)
THEOREM RemoteMachineType == Spec => []TypeOK
<1>1. Init => TypeOK /\ ReservationInv
    BY InitType, InitReserved
<1> QED BY <1>1, NextReserved, PTL DEF Spec

(* The address in a RemoteMachine that was not deleted is that of a machine  *)
(* reserved for it, however stale the caches, wherever the controller        *)
(* crashes and whichever calls fail: the resourceVersion of the Update in    *)
(* reservePooledMachineAndPopulateRemoteMachine is enough.                   *)
THEOREM AddressesReserved == Spec => []AddressIsReserved
<1>1. Init => TypeOK /\ ReservationInv
    BY InitType, InitReserved
<1>2. ReservationInv => AddressIsReserved
    BY DEF ReservationInv, AddressIsReserved, Alive, Owns
<1> QED BY <1>1, <1>2, NextReserved, PTL DEF Spec

----------------------------------------------------------------------------
(* Deletion, as long as no cache is read before it has caught up.            *)

HasFinalizer(r) == rm[r].fin
Dropping(r) == mem[r].dropFin

NoneReserved(r) == \A p \in Pooled : pool[p] # r

PatchLabels == {"patch", "patchSpec", "patchStatus"}

(* Who has no finalizer has neither a machine nor a running Reconcile; who   *)
(* is gone has given its machine back.                                       *)
LifeInv(r) ==
    /\ Alive(r) /\ ~HasFinalizer(r) => pc[r] = "idle" /\ NoneReserved(r)
    /\ rm[r].phase = "deleting" => HasFinalizer(r)
    /\ rm[r].phase = "gone" => pc[r] \in {"idle", "patchStatus"} /\ NoneReserved(r)

(* A Reconcile knows whether it deletes, and gives the finalizer up only     *)
(* after the machine; one that reserves still has what is known of it.       *)
TaskInv(r) ==
    /\ pc[r] # "idle" /\ mem[r].read.phase = "deleting" => rm[r].phase \in {"deleting", "gone"}
    /\ pc[r] \in {"cleanup", "return"} => mem[r].read.phase = "deleting"
    /\ pc[r] = "cleanup" => mem[r].addr # None
    /\ pc[r] = "update" => NoneReserved(r)
    /\ pc[r] = "provision" => mem[r].addr # None
    /\ Dropping(r) =>
          NoneReserved(r) /\ mem[r].read.phase = "deleting" /\ pc[r] \in PatchLabels
    /\ pc[r] \in {"reserve", "update", "provision"} =>
          /\ Owns(r, rm[r].addr) /\ Owns(r, mem[r].addr)
          /\ \A p \in Pooled : poolCache[p] = r => pool[p] = r

(* A RemoteMachine has one machine, and no other is known of it.             *)
OneMachineInv(r) ==
    /\ \A p, q \in Pooled : pool[p] = r /\ pool[q] = r => p = q
    /\ \A p \in Pooled : pool[p] = r =>
          rm[r].addr \in {None, p} /\ mem[r].addr \in {None, p}

SteadyInv(r) == LifeInv(r) /\ TaskInv(r) /\ OneMachineInv(r)

NoStaleReads == Disturbance \cap {"staleRead", "staleList"} = {}

LEMMA LoadedMore ==
    /\ \A o \in Object : Loaded(o).read = o /\ Loaded(o).addr = o.addr /\ ~Loaded(o).dropFin
    /\ Loaded(NewObject).read.phase = "none" /\ Loaded(NewObject).addr = None
    /\ ~Loaded(NewObject).dropFin
  BY LoadedType DEF Loaded, NewObject

LEMMA InitSteady == Init => \A r \in RM : SteadyInv(r)
<1> SUFFICES ASSUME Init, NEW r \in RM PROVE SteadyInv(r)
    OBVIOUS
<1>1. rm[r] = NewObject /\ mem[r] = Loaded(NewObject) /\ pc[r] = "idle" /\ NoneReserved(r)
    BY DEF Init, NoneReserved
<1>2. NewObject.phase = "none" /\ NewObject.addr = None
    BY DEF NewObject
<1>6. ~Dropping(r)
    BY <1>1, LoadedMore DEF Dropping
<1>3. LifeInv(r)
    BY <1>1, <1>2 DEF LifeInv, Alive
<1>4. TaskInv(r)
    BY <1>1, <1>2, <1>6, LoadedMore DEF TaskInv
<1>5. OneMachineInv(r)
    BY <1>1 DEF OneMachineInv, NoneReserved
<1> QED BY <1>3, <1>4, <1>5 DEF SteadyInv

(* What a step leaves alone of a RemoteMachine: the object, but for what the *)
(* invariant is not about; the memory; the reservations.                     *)
SameObject(r) ==
    /\ rm'[r].phase = rm[r].phase /\ rm'[r].addr = rm[r].addr
    /\ HasFinalizer(r)' <=> HasFinalizer(r)

SameMemory(r) ==
    /\ mem'[r].read = mem[r].read /\ mem'[r].addr = mem[r].addr
    /\ Dropping(r)' <=> Dropping(r)

SameReservations(r) ==
    /\ \A p \in Pooled : pool'[p] = r <=> pool[p] = r
    /\ \A p \in Pooled : poolCache'[p] = r => poolCache[p] = r \/ pool[p] = r

(* A step of others.                                                         *)
LEMMA OthersSteady ==
    ASSUME TypeOK, NEW q \in RM, SteadyInv(q), pc'[q] = pc[q],
           SameObject(q), SameMemory(q), SameReservations(q)
    PROVE  SteadyInv(q)'
<1>1. NoneReserved(q)' <=> NoneReserved(q)
    BY DEF NoneReserved, SameReservations
<1>2. rm[q].addr \in Pooled \cup {None} /\ mem[q].addr \in Pooled \cup {None}
    BY DEF TypeOK, Object, Memory
<1>3. LifeInv(q)'
    BY <1>1 DEF SteadyInv, LifeInv, Alive, SameObject
<1>4. TaskInv(q)'
  <2>1. (Owns(q, rm[q].addr) => Owns(q, rm[q].addr)') /\ (Owns(q, mem[q].addr) => Owns(q, mem[q].addr)')
      BY <1>2 DEF Owns, SameReservations, SameObject, SameMemory
  <2> QED BY <1>1, <2>1 DEF SteadyInv, TaskInv, SameObject, SameMemory, SameReservations
<1>5. OneMachineInv(q)'
    BY DEF SteadyInv, OneMachineInv, SameObject, SameMemory, SameReservations
<1> QED BY <1>3, <1>4, <1>5 DEF SteadyInv

(* A Reconcile that goes on to its deferred patch, or from the cleanup to    *)
(* the return of the machine.                                                *)
LEMMA MovesSteady ==
    ASSUME TypeOK, NEW r \in RM, SteadyInv(r),
           SameObject(r), SameMemory(r), SameReservations(r),
           \/ pc'[r] \in {"patch", "hung"} /\ pc[r] \notin PatchLabels \cup {"idle"}
           \/ pc'[r] = "patchSpec" /\ pc[r] = "patch"
           \/ pc'[r] = "patchStatus" /\ pc[r] = "patchSpec"
           \/ pc'[r] = "return" /\ pc[r] = "cleanup"
    PROVE  SteadyInv(r)'
<1>1. NoneReserved(r)' <=> NoneReserved(r)
    BY DEF NoneReserved, SameReservations
<1>2. LifeInv(r)'
  <2>1. pc[r] \notin {"idle", "patchStatus"}
      BY DEF PatchLabels
  <2> QED BY <1>1, <2>1 DEF SteadyInv, LifeInv, Alive, SameObject
<1>3. TaskInv(r)'
  <2>1. pc[r] # "idle" /\ pc'[r] \notin {"cleanup", "update", "provision", "reserve"}
      BY DEF PatchLabels
  <2>2. pc'[r] = "return" => pc[r] = "cleanup"
      BY DEF PatchLabels
  <2>3. pc[r] \in PatchLabels => pc'[r] \in PatchLabels
      BY DEF PatchLabels
  <2> QED BY <1>1, <2>1, <2>2, <2>3 DEF SteadyInv, TaskInv, SameObject, SameMemory
<1>4. OneMachineInv(r)'
    BY DEF SteadyInv, OneMachineInv, SameObject, SameMemory, SameReservations
<1> QED BY <1>2, <1>3, <1>4 DEF SteadyInv

(* The end of a Reconcile.                                                   *)
LEMMA EndsSteady ==
    ASSUME TypeOK, NEW r \in RM, SteadyInv(r), SameObject(r), SameReservations(r),
           pc'[r] = "idle", mem'[r] = Loaded(NewObject)
    PROVE  SteadyInv(r)'
<1>1. NoneReserved(r)' <=> NoneReserved(r)
    BY DEF NoneReserved, SameReservations
<1>2. LifeInv(r)'
    BY <1>1 DEF SteadyInv, LifeInv, Alive, SameObject
<1>5. ~Dropping(r)'
    BY LoadedMore DEF Dropping
<1>3. TaskInv(r)'
    BY <1>5, LoadedMore DEF TaskInv
<1>4. OneMachineInv(r)'
    BY LoadedMore, SMTT(30) DEF SteadyInv, OneMachineInv, SameObject, SameReservations
<1> QED BY <1>2, <1>3, <1>4 DEF SteadyInv

(* The object as Reconcile starts: what it reads is not stale.               *)
LEMMA StartSteady ==
    ASSUME TypeOK, ReservationInv, NoStaleReads, NEW r \in RM, SteadyInv(r), StartReconcile(r)
    PROVE  SteadyInv(r)'
<1>1. rmCache[r] = rm[r] /\ rm[r] \in Object
    BY DEF StartReconcile, Disturb, NoStaleReads, TypeOK
<1>2. mem'[r] = Loaded(rm[r]) /\ pc'[r] = AfterStart(rm[r]) /\ rm' = rm /\ UNCHANGED pools
    BY <1>1 DEF StartReconcile, Goto, TypeOK, objects
<1>3. mem'[r].read = rm[r] /\ mem'[r].addr = rm[r].addr
    BY <1>1, <1>2, LoadedMore
<1>9. ~Dropping(r)' /\ (HasFinalizer(r)' <=> HasFinalizer(r))
    BY <1>1, <1>2, LoadedMore DEF Dropping, HasFinalizer
<1>4. rm[r].phase = "deleting" \/ (rm[r].phase = "live" /\ HasFinalizer(r))
    BY <1>1 DEF StartReconcile, HasFinalizer
<1>5. /\ pc'[r] = "cleanup" => rm[r].phase = "deleting" /\ rm[r].addr # None
      /\ pc'[r] = "reserve" => rm[r].phase = "live"
      /\ pc'[r] \in {"cleanup", "reserve", "patch"}
    BY <1>2 DEF AfterStart
<1>6. LifeInv(r)'
    BY <1>2, <1>4, <1>9 DEF SteadyInv, LifeInv, Alive
<1>7. TaskInv(r)'
  <2>1. rm[r].phase = "live" => /\ Owns(r, rm[r].addr)
                                /\ \A p \in Pooled : poolCache[p] = r => pool[p] = r
      BY DEF ReservationInv, Alive
  <2>2. pc'[r] = "reserve" => /\ Owns(r, rm[r].addr)' /\ Owns(r, mem[r].addr)'
                              /\ \A p \in Pooled : poolCache'[p] = r => pool'[p] = r
      BY <1>2, <1>3, <1>5, <2>1 DEF Owns, pools
  <2> QED BY <1>2, <1>3, <1>5, <1>9, <2>2 DEF TaskInv
<1>8. OneMachineInv(r)'
    BY <1>2, <1>3 DEF SteadyInv, OneMachineInv, pools
<1> QED BY <1>6, <1>7, <1>8 DEF SteadyInv

(* The reservation that is found, or the machine that is chosen.             *)
LEMMA ListSteady ==
    ASSUME TypeOK, NoStaleReads, NEW r \in RM, SteadyInv(r), FindReserved(r) \/ PickFree(r)
    PROVE  SteadyInv(r)'
<1>1. mem[r] \in Memory /\ rm' = rm /\ UNCHANGED pools
    BY DEF TypeOK, FindReserved, PickFree, objects
<1>2. pc[r] = "reserve" /\ rm[r].phase # "gone"
    BY DEF SteadyInv, LifeInv, FindReserved, PickFree
<1>7. HasFinalizer(r)' <=> HasFinalizer(r)
    BY <1>1 DEF HasFinalizer
<1>3. LifeInv(r)'
    BY <1>1, <1>2, <1>7 DEF SteadyInv, LifeInv, Alive, pools
<1>4. ~Dropping(r)
    BY <1>2 DEF SteadyInv, TaskInv, PatchLabels
<1>5. CASE FindReserved(r)
  <2> DEFINE p == FirstOf(Mine(r, poolCache))
  <2>1. Mine(r, poolCache) # {} /\ Mine(r, poolCache) \in SUBSET Pooled
      BY <1>5 DEF FindReserved, Mine
  <2>2. p \in Pooled /\ poolCache[p] = r
      BY <2>1, FirstOfMember DEF Mine
  <2>3. mem'[r] = Populated(mem[r], p) /\ pc'[r] \in {"patch", "provision"}
      BY <1>5 DEF FindReserved, AfterReserve, Goto, TypeOK
  <2> HIDE DEF p
  <2>4. mem'[r].addr = p /\ mem'[r].read = mem[r].read
      BY <1>1, <2>3 DEF Populated, Memory
  <2>9. mem'[r].dropFin = mem[r].dropFin
      BY <1>1, <2>3 DEF Populated, Memory
  <2>10. ~Dropping(r)'
      BY <1>4, <2>9 DEF Dropping
  <2>5. pool[p] = r
      BY <1>2, <2>2 DEF SteadyInv, TaskInv
  <2>6. p # None
      BY <2>2, SMTT(30) DEF Pooled, None
  <2>7. TaskInv(r)'
      BY <1>1, <1>2, <2>3, <2>4, <2>5, <2>6, <2>10 DEF SteadyInv, TaskInv, Owns, pools
  <2>8. OneMachineInv(r)'
      BY <1>1, <2>2, <2>4, <2>5 DEF SteadyInv, OneMachineInv, pools
  <2> QED BY <1>3, <2>7, <2>8 DEF SteadyInv
<1>6. CASE PickFree(r)
  <2> DEFINE p == FirstOf(Free(poolCache))
             b == p \notin behind
  <2>1. poolCache = pool /\ Mine(r, poolCache) = {}
      BY <1>6 DEF PickFree, Disturb, NoStaleReads
  <2>2. NoneReserved(r)
      BY <2>1 DEF NoneReserved, Mine
  <2>3. mem'[r] = [mem[r] EXCEPT !.want = p, !.valid = b] /\ pc'[r] = "update"
      BY <1>6 DEF PickFree, Goto, TypeOK
  <2> HIDE DEF p, b
  <2>4. mem'[r].addr = mem[r].addr /\ mem'[r].read = mem[r].read
      BY <1>1, <2>3 DEF Memory
  <2>7. mem'[r].dropFin = mem[r].dropFin
      BY <1>1, <2>3 DEF Memory
  <2>8. ~Dropping(r)'
      BY <1>4, <2>7 DEF Dropping
  <2>5. TaskInv(r)'
      BY <1>1, <1>2, <2>2, <2>3, <2>4, <2>8 DEF SteadyInv, TaskInv, NoneReserved, Owns, pools
  <2>6. OneMachineInv(r)'
      BY <1>1, <2>4 DEF SteadyInv, OneMachineInv, pools
  <2> QED BY <1>3, <2>5, <2>6 DEF SteadyInv
<1> QED BY <1>5, <1>6

(* A write to a pooled machine leaves the rest of every memory alone.        *)
LEMMA OutdatedRest ==
    ASSUME NEW m \in [RM -> Memory], NEW p, NEW q \in RM
    PROVE  /\ Outdated(p, m)[q].read = m[q].read
           /\ Outdated(p, m)[q].dropFin = m[q].dropFin
<1>1. m[q] \in Memory
    OBVIOUS
<1>2. Outdated(p, m)[q] = IF m[q].want = p THEN [m[q] EXCEPT !.valid = FALSE] ELSE m[q]
    BY DEF Outdated
<1>3. [m[q] EXCEPT !.valid = FALSE].read = m[q].read
    BY <1>1 DEF Memory
<1>4. [m[q] EXCEPT !.valid = FALSE].dropFin = m[q].dropFin
    BY <1>1 DEF Memory
<1> QED BY <1>2, <1>3, <1>4

(* What a reservation writes.                                                *)
LEMMA ReserveEffect ==
    ASSUME TypeOK, ReservationInv, NEW r \in RM, Reserve(r)
    PROVE  \E p \in Pooled :
              /\ pool[p] = NoRM /\ WritePool(p, r)
              /\ mem'[r].addr = p /\ mem'[r].read = mem[r].read /\ (Dropping(r)' <=> Dropping(r))
              /\ \A q \in RM : q # r => SameMemory(q)
<1>1. mem[r] \in Memory
    BY DEF TypeOK
<1>2. mem[r].valid
    BY DEF Reserve, CanUpdate
<1>3. mem[r].want \in Pooled /\ pool[mem[r].want] = NoRM
    BY <1>2 DEF ReservationInv, WantInv
<1>4. PICK p \in Pooled : p = mem[r].want /\ pool[p] = NoRM
    BY <1>3
<1> DEFINE n == Populated(mem[r], p)
           m == [mem EXCEPT ![r] = n]
<1>5. n \in Memory
    BY <1>1, <1>4, PopulatedType
<1>6. n.addr = p /\ n.read = mem[r].read
    BY <1>1, <1>4 DEF Populated, Memory
<1>7. n.dropFin = mem[r].dropFin
    BY <1>1, <1>4 DEF Populated, Memory
<1>8. mem' = Outdated(p, m) /\ WritePool(p, r)
    BY <1>4 DEF Reserve
<1> HIDE DEF n
<1>9. /\ m \in [RM -> Memory] /\ m[r] = n
      /\ \A q \in RM : q # r => m[q] = mem[q]
    BY <1>5 DEF TypeOK
<1> HIDE DEF m
<1>10. \A q \in RM : /\ mem'[q].addr = m[q].addr /\ mem'[q].read = m[q].read
                      /\ mem'[q].dropFin = m[q].dropFin
  <2> SUFFICES ASSUME NEW q \in RM
               PROVE  /\ Outdated(p, m)[q].addr = m[q].addr /\ Outdated(p, m)[q].read = m[q].read
                      /\ Outdated(p, m)[q].dropFin = m[q].dropFin
      BY <1>8
  <2>1. Outdated(p, m)[q].addr = m[q].addr
      BY <1>9, OutdatedFields, SMTT(30)
  <2>2. Outdated(p, m)[q].read = m[q].read /\ Outdated(p, m)[q].dropFin = m[q].dropFin
      BY <1>9, OutdatedRest, SMTT(30)
  <2> QED BY <2>1, <2>2
<1>11. \A q \in RM : q # r => SameMemory(q)
    BY <1>9, <1>10 DEF SameMemory, Dropping
<1>12. mem'[r].addr = p /\ mem'[r].read = mem[r].read
    BY <1>6, <1>9, <1>10
<1>13. Dropping(r)' <=> Dropping(r)
    BY <1>7, <1>9, <1>10 DEF Dropping
<1> QED BY <1>4, <1>8, <1>11, <1>12, <1>13

(* What the return of a machine to the pool writes.                          *)
LEMMA ReturnEffect ==
    ASSUME TypeOK, ReservationInv, NEW r \in RM, ReturnMachineToPool(r)
    PROVE  \E p \in Pooled :
              /\ pool[p] = r /\ WritePool(p, NoRM)
              /\ mem'[r].addr = mem[r].addr /\ mem'[r].read = mem[r].read
              /\ \A q \in RM : q # r => SameMemory(q)
<1>1. mem[r] \in Memory
    BY DEF TypeOK
<1>2. PICK p \in Mine(r, poolCache) \ behind :
          /\ ReturnTo(p, r)
          /\ mem' = Outdated(p, [mem EXCEPT ![r].dropFin = TRUE])
    BY DEF ReturnMachineToPool
<1> DEFINE n == [mem[r] EXCEPT !.dropFin = TRUE]
           m == [mem EXCEPT ![r] = n]
<1>3. p \in Pooled /\ pool[p] = r
    BY <1>2 DEF Mine, ReservationInv
<1>4. n \in Memory
    BY <1>1, FieldTypes DEF None
<1>5. mem' = Outdated(p, m)
    BY <1>2
<1>6. n.addr = mem[r].addr /\ n.read = mem[r].read
    BY <1>1 DEF Memory
<1> HIDE DEF n
<1>7. /\ m \in [RM -> Memory] /\ m[r] = n
      /\ \A q \in RM : q # r => m[q] = mem[q]
    BY <1>4 DEF TypeOK
<1> HIDE DEF m
<1>8. \A q \in RM : /\ mem'[q].addr = m[q].addr /\ mem'[q].read = m[q].read
                     /\ mem'[q].dropFin = m[q].dropFin
  <2> SUFFICES ASSUME NEW q \in RM
               PROVE  /\ Outdated(p, m)[q].addr = m[q].addr /\ Outdated(p, m)[q].read = m[q].read
                      /\ Outdated(p, m)[q].dropFin = m[q].dropFin
      BY <1>5
  <2>1. Outdated(p, m)[q].addr = m[q].addr
      BY <1>7, OutdatedFields, SMTT(30)
  <2>2. Outdated(p, m)[q].read = m[q].read /\ Outdated(p, m)[q].dropFin = m[q].dropFin
      BY <1>7, OutdatedRest, SMTT(30)
  <2> QED BY <2>1, <2>2
<1>9. \A q \in RM : q # r => SameMemory(q)
    BY <1>7, <1>8 DEF SameMemory, Dropping
<1>10. mem'[r].addr = mem[r].addr /\ mem'[r].read = mem[r].read
    BY <1>6, <1>7, <1>8
<1>11. WritePool(p, NoRM)
    BY <1>2 DEF ReturnTo
<1> QED BY <1>3, <1>9, <1>10, <1>11

(* The reservation, for the RemoteMachine it is made for.                    *)
LEMMA ReserveSteady ==
    ASSUME TypeOK, ReservationInv, NEW r \in RM, SteadyInv(r), Reserve(r)
    PROVE  SteadyInv(r)'
<1>1. PICK p \in Pooled :
          /\ pool[p] = NoRM /\ WritePool(p, r)
          /\ mem'[r].addr = p /\ mem'[r].read = mem[r].read /\ (Dropping(r)' <=> Dropping(r))
    BY ReserveEffect
<1>2. pool'[p] = r /\ (\A x \in Pooled : x # p => pool'[x] = pool[x]) /\ poolCache' = poolCache
    BY <1>1 DEF WritePool, TypeOK
<1>3. pc[r] = "update" /\ rm' = rm /\ pc'[r] \in {"patch", "provision"}
    BY DEF Reserve, AfterReserve, Goto, TypeOK, objects
<1>4. NoneReserved(r) /\ ~Dropping(r) /\ rm[r].phase # "gone"
    BY <1>3 DEF SteadyInv, TaskInv, LifeInv, PatchLabels
<1>5. rm[r].addr = None
  <2>1. rm[r].addr \in Pooled \cup {None}
      BY DEF TypeOK, Object
  <2> QED BY <1>3, <1>4, <2>1 DEF SteadyInv, TaskInv, Owns, NoneReserved
<1>6. HasFinalizer(r)' <=> HasFinalizer(r)
    BY <1>3 DEF HasFinalizer
<1>7. p # None
    BY SMTT(30) DEF Pooled, None
<1>8. LifeInv(r)'
    BY <1>3, <1>4, <1>6 DEF SteadyInv, LifeInv, Alive
<1>9. TaskInv(r)'
    BY <1>1, <1>2, <1>3, <1>4, <1>5, <1>7 DEF SteadyInv, TaskInv, Owns, NoneReserved
<1>10. OneMachineInv(r)'
    BY <1>1, <1>2, <1>3, <1>4, <1>5 DEF OneMachineInv, NoneReserved
<1> QED BY <1>8, <1>9, <1>10 DEF SteadyInv

(* The end of a deletion: the machine is back in the pool.                   *)
LEMMA ReturnSteady ==
    ASSUME TypeOK, ReservationInv, NoStaleReads, NEW r \in RM, SteadyInv(r),
           ReturnMachineToPool(r) \/ NothingToReturn(r)
    PROVE  SteadyInv(r)'
<1>1. pc[r] = "return" /\ rm' = rm /\ pc'[r] = "patch"
    BY DEF ReturnMachineToPool, NothingToReturn, Goto, TypeOK, objects
<1>2. mem[r].read.phase = "deleting" /\ rm[r].phase = "deleting" /\ HasFinalizer(r)
    BY <1>1 DEF SteadyInv, TaskInv, LifeInv
<1>3. HasFinalizer(r)' <=> HasFinalizer(r)
    BY <1>1 DEF HasFinalizer
<1>4. mem'[r].addr = mem[r].addr /\ mem'[r].read = mem[r].read
  <2>1. CASE ReturnMachineToPool(r)
      BY <2>1, ReturnEffect
  <2>2. CASE NothingToReturn(r)
    <3>1. mem'[r] = [mem[r] EXCEPT !.dropFin = TRUE] /\ mem[r] \in Memory
        BY <2>2 DEF NothingToReturn, TypeOK
    <3> QED BY <3>1 DEF Memory
  <2> QED BY <2>1, <2>2
<1>5. NoneReserved(r)'
  <2>1. CASE ReturnMachineToPool(r)
    <3>1. PICK p \in Pooled : pool[p] = r /\ WritePool(p, NoRM)
        BY <2>1, ReturnEffect
    <3>2. pool'[p] = NoRM /\ (\A x \in Pooled : x # p => pool'[x] = pool[x])
        BY <3>1 DEF WritePool, TypeOK
    <3> QED BY <3>1, <3>2 DEF SteadyInv, OneMachineInv, NoneReserved
  <2>2. CASE NothingToReturn(r)
    <3>1. poolCache = pool /\ Mine(r, poolCache) = {} /\ pool' = pool
        BY <2>2 DEF NothingToReturn, Disturb, NoStaleReads, pools
    <3> QED BY <3>1 DEF NoneReserved, Mine
  <2> QED BY <2>1, <2>2
<1>6. LifeInv(r)'
    BY <1>1, <1>2, <1>3 DEF LifeInv, Alive
<1>7. TaskInv(r)'
    BY <1>1, <1>2, <1>4, <1>5 DEF TaskInv, PatchLabels
<1>8. OneMachineInv(r)'
    BY <1>5 DEF OneMachineInv, NoneReserved
<1> QED BY <1>6, <1>7, <1>8 DEF SteadyInv

(* The patch of the spec and the metadata: the address, and the finalizer    *)
(* once the machine is back.                                                 *)
LEMMA SpecSteady ==
    ASSUME TypeOK, NEW r \in RM, SteadyInv(r), PatchSpec(r)
    PROVE  SteadyInv(r)'
<1>1. rm[r] \in Object /\ mem[r] \in Memory
    BY DEF TypeOK
<1>2. /\ pc[r] = "patchSpec" /\ pc'[r] = "patchStatus" /\ mem' = mem /\ UNCHANGED pools
      /\ rm'[r] = IF rm[r].phase = "gone" THEN rm[r] ELSE PatchedSpec(rm[r], mem[r])
    BY DEF PatchSpec, PatchCall, Goto, TypeOK
<1>3. rm[r].phase # "gone"
    BY <1>2 DEF SteadyInv, LifeInv
<1>4. Dropping(r)' <=> Dropping(r)
    BY <1>2 DEF Dropping
<1>5. rm'[r].addr \in {rm[r].addr, mem[r].addr}
    BY <1>1, <1>2, <1>3, SMTT(30) DEF PatchedSpec, Changed, Object
<1>6. rm'[r].phase = IF Dropping(r) /\ rm[r].phase = "deleting" THEN "gone" ELSE rm[r].phase
    BY <1>1, <1>2, <1>3 DEF PatchedSpec, Object, Dropping
<1>7. HasFinalizer(r)' <=> HasFinalizer(r) /\ ~Dropping(r)
  <2> DEFINE b == rm[r].fin /\ ~mem[r].dropFin
             ph == IF mem[r].dropFin /\ rm[r].phase = "deleting" THEN "gone" ELSE rm[r].phase
             a == Changed(mem[r].read.addr, mem[r].addr, rm[r].addr)
             i == Changed(mem[r].read.pid, mem[r].pid, rm[r].pid)
  <2>1. PatchedSpec(rm[r], mem[r]) = [rm[r] EXCEPT !.addr = a, !.pid = i, !.fin = b, !.phase = ph]
      BY DEF PatchedSpec
  <2>2. b <=> HasFinalizer(r) /\ ~Dropping(r)
      BY DEF HasFinalizer, Dropping
  <2> HIDE DEF b, ph, a, i
  <2>3. [rm[r] EXCEPT !.addr = a, !.pid = i, !.fin = b, !.phase = ph].fin = b
      BY <1>1 DEF Object
  <2>4. rm'[r].fin = b
      BY <1>2, <1>3, <2>1, <2>3
  <2> QED BY <2>2, <2>4 DEF HasFinalizer
<1>8. NoneReserved(r)' <=> NoneReserved(r)
    BY <1>2 DEF NoneReserved, pools
<1>9. Dropping(r) => NoneReserved(r) /\ mem[r].read.phase = "deleting" /\ rm[r].phase = "deleting"
    BY <1>2, <1>3 DEF SteadyInv, TaskInv
<1>10. LifeInv(r)'
    BY <1>2, <1>3, <1>6, <1>7, <1>8, <1>9 DEF SteadyInv, LifeInv, Alive
<1>11. TaskInv(r)'
    BY <1>2, <1>4, <1>6, <1>8, <1>9 DEF SteadyInv, TaskInv, PatchLabels
<1>12. OneMachineInv(r)'
    BY <1>2, <1>5 DEF SteadyInv, OneMachineInv, pools
<1> QED BY <1>10, <1>11, <1>12 DEF SteadyInv

(* What a step that leaves the pool and the objects alone does to the        *)
(* memory of its Reconcile.                                                  *)
LEMMA QuietMemory ==
    ASSUME TypeOK, NEW r \in RM,
           \/ mem' = mem
           \/ mem' = [mem EXCEPT ![r] = [mem[r] EXCEPT !.cond = TRUE, !.pid = TRUE]]
           \/ mem' = [mem EXCEPT ![r] = [mem[r] EXCEPT !.cond = FALSE]]
    PROVE  \A q \in RM : SameMemory(q)
<1>1. mem[r] \in Memory
    BY DEF TypeOK
<1> DEFINE Same(m, n) == n.addr = m.addr /\ n.read = m.read /\ n.dropFin = m.dropFin
<1>2. ASSUME NEW m \in Memory, NEW b \in BOOLEAN, NEW c \in BOOLEAN
      PROVE  Same(m, [m EXCEPT !.cond = b, !.pid = c]) /\ Same(m, [m EXCEPT !.cond = b])
    BY DEF Memory
<1>3. Same(mem[r], mem'[r])
  <2> HIDE DEF Same
  <2>1. Same(mem[r], [mem[r] EXCEPT !.cond = TRUE, !.pid = TRUE])
      BY <1>1, <1>2
  <2>2. Same(mem[r], [mem[r] EXCEPT !.cond = FALSE])
      BY <1>1, <1>2
  <2>3. Same(mem[r], mem[r])
      BY DEF Same
  <2>4. \A m : [mem EXCEPT ![r] = m][r] = m
      BY DEF TypeOK
  <2> QED BY <2>1, <2>2, <2>3, <2>4
<1>4. \A q \in RM : q # r => mem'[q] = mem[q]
    BY DEF TypeOK
<1> QED BY <1>3, <1>4 DEF SameMemory, Dropping

(* A step of Reconcile that leaves the pool and the objects alone.           *)
LEMMA QuietSteady ==
    ASSUME TypeOK, NEW r \in RM, \A q \in RM : SteadyInv(q), UNCHANGED <<objects, pools>>,
           NEW label \in {"patch", "hung", "return"}, Goto(r, label),
           label = "return" => pc[r] = "cleanup",
           pc[r] \in {"reserve", "update", "provision", "cleanup", "return"},
           \/ mem' = mem
           \/ mem' = [mem EXCEPT ![r] = [mem[r] EXCEPT !.cond = TRUE, !.pid = TRUE]]
           \/ mem' = [mem EXCEPT ![r] = [mem[r] EXCEPT !.cond = FALSE]]
    PROVE  \A q \in RM : SteadyInv(q)'
<1>1. \A q \in RM : SameMemory(q)
    BY QuietMemory
<1>2. \A q \in RM : SameObject(q)
    BY DEF objects, SameObject, HasFinalizer
<1>3. \A q \in RM : SameReservations(q)
    BY DEF pools, SameReservations
<1>4. pc'[r] = label /\ \A q \in RM : q # r => pc'[q] = pc[q]
    BY DEF Goto, TypeOK
<1>5. SteadyInv(r)'
  <2>1. \/ pc'[r] \in {"patch", "hung"} /\ pc[r] \notin PatchLabels \cup {"idle"}
        \/ pc'[r] = "return" /\ pc[r] = "cleanup"
      BY <1>4 DEF PatchLabels
  <2> QED BY <1>1, <1>2, <1>3, <2>1, MovesSteady
<1>6. \A q \in RM : q # r => SteadyInv(q)'
    BY <1>1, <1>2, <1>3, <1>4, OthersSteady
<1> QED BY <1>5, <1>6

(* A step of Reconcile.                                                      *)
LEMMA ReconcileSteady ==
    ASSUME TypeOK, ReservationInv, NoStaleReads, NEW r \in RM, \A q \in RM : SteadyInv(q),
           Reconcile(r)
    PROVE  \A q \in RM : SteadyInv(q)'
<1>1. CASE NoFreeMachine(r) \/ Conflict(r) \/ Provision(r) \/ Cleanup(r) \/ ReturnConflict(r)
  <2>1. CASE NoFreeMachine(r)
      BY <2>1, QuietSteady DEF NoFreeMachine
  <2>2. CASE Conflict(r)
      BY <2>2, QuietSteady DEF Conflict
  <2>3. CASE Provision(r)
      BY <2>3, QuietSteady DEF Provision
  <2>4. CASE Cleanup(r)
      BY <2>4, QuietSteady DEF Cleanup
  <2>5. CASE ReturnConflict(r)
      BY <2>5, QuietSteady DEF ReturnConflict
  <2> QED BY <1>1, <2>1, <2>2, <2>3, <2>4, <2>5
<1>2. CASE StartReconcile(r) \/ FindReserved(r) \/ PickFree(r) \/ NothingToReturn(r)
  <2>1. SteadyInv(r)'
      BY <1>2, StartSteady, ListSteady, ReturnSteady
  <2>2. /\ \A q \in RM : q # r => mem'[q] = mem[q] /\ pc'[q] = pc[q]
        /\ rm' = rm /\ UNCHANGED pools
      BY <1>2, SMTT(30) DEF StartReconcile, FindReserved, PickFree, NothingToReturn, Goto, TypeOK, objects
  <2>3. \A q \in RM : q # r => SameMemory(q) /\ SameObject(q)
      BY <2>2 DEF SameMemory, SameObject, Dropping, HasFinalizer
  <2>4. \A q \in RM : SameReservations(q)
      BY <2>2 DEF pools, SameReservations
  <2> QED BY <2>1, <2>2, <2>3, <2>4, OthersSteady
<1>3. CASE Reserve(r) \/ ReturnMachineToPool(r)
  <2>1. SteadyInv(r)'
      BY <1>3, ReserveSteady, ReturnSteady
  <2>2. rm' = rm /\ \A q \in RM : q # r => pc'[q] = pc[q]
      BY <1>3 DEF Reserve, ReturnMachineToPool, Goto, TypeOK, objects
  <2>3. \A q \in RM : SameObject(q)
      BY <2>2 DEF SameObject, HasFinalizer
  <2>4. \A q \in RM : q # r => SameMemory(q)
      BY <1>3, ReserveEffect, ReturnEffect
  <2>5. PICK p \in Pooled, v \in {r, NoRM} : pool[p] \in {r, NoRM} /\ WritePool(p, v)
      BY <1>3, ReserveEffect, ReturnEffect
  <2>6. \A q \in RM : q # r => SameReservations(q)
      BY <2>5, SMTT(30) DEF WritePool, SameReservations, TypeOK
  <2> QED BY <2>1, <2>2, <2>3, <2>4, <2>6, OthersSteady
<1>4. CASE PatchConditions(r) \/ PatchSpec(r) \/ PatchStatus(r)
  <2>1. /\ \A q \in RM : q # r => mem'[q] = mem[q] /\ pc'[q] = pc[q] /\ rm'[q] = rm[q]
        /\ UNCHANGED pools
      BY <1>4, SMTT(30) DEF PatchConditions, PatchSpec, PatchStatus, PatchCall, Goto, TypeOK
  <2>2. \A q \in RM : q # r => SameMemory(q) /\ SameObject(q)
      BY <2>1 DEF SameMemory, SameObject, Dropping, HasFinalizer
  <2>3. \A q \in RM : SameReservations(q)
      BY <2>1 DEF pools, SameReservations
  <2>4. rm[r] \in Object /\ mem[r] \in Memory
      BY DEF TypeOK
  <2>5. SteadyInv(r)'
    <3>1. CASE PatchConditions(r)
      <4>1. /\ pc[r] = "patch" /\ pc'[r] = "patchSpec" /\ mem' = mem
            /\ rm'[r] \in {rm[r], PatchedConditions(rm[r], mem[r])}
          BY <3>1 DEF PatchConditions, PatchCall, Goto, TypeOK
      <4> DEFINE c == Changed(mem[r].read.cond, mem[r].cond, rm[r].cond)
      <4>2. PatchedConditions(rm[r], mem[r]) = [rm[r] EXCEPT !.cond = c]
          BY DEF PatchedConditions
      <4> HIDE DEF c
      <4>3. /\ [rm[r] EXCEPT !.cond = c].phase = rm[r].phase
            /\ [rm[r] EXCEPT !.cond = c].addr = rm[r].addr
          BY <2>4 DEF Object
      <4>4. [rm[r] EXCEPT !.cond = c].fin = rm[r].fin
          BY <2>4 DEF Object
      <4>5. SameObject(r)
          BY <4>1, <4>2, <4>3, <4>4 DEF SameObject, HasFinalizer
      <4>6. SameMemory(r)
          BY <4>1 DEF SameMemory, Dropping
      <4> QED BY <2>3, <4>1, <4>5, <4>6, MovesSteady
    <3>2. CASE PatchSpec(r)
        BY <3>2, SpecSteady
    <3>3. CASE PatchStatus(r)
      <4>1. /\ pc'[r] = "idle" /\ mem'[r] = Loaded(NewObject)
            /\ rm'[r] \in {rm[r], PatchedStatus(rm[r], mem[r])}
          BY <3>3 DEF PatchStatus, PatchCall, Goto, TypeOK
      <4> DEFINE c == rm[r].provisioned \/ mem[r].cond
      <4>2. PatchedStatus(rm[r], mem[r]) = [rm[r] EXCEPT !.provisioned = c]
          BY DEF PatchedStatus
      <4> HIDE DEF c
      <4>3. /\ [rm[r] EXCEPT !.provisioned = c].phase = rm[r].phase
            /\ [rm[r] EXCEPT !.provisioned = c].addr = rm[r].addr
          BY <2>4 DEF Object
      <4>4. [rm[r] EXCEPT !.provisioned = c].fin = rm[r].fin
          BY <2>4 DEF Object
      <4>5. SameObject(r)
          BY <4>1, <4>2, <4>3, <4>4 DEF SameObject, HasFinalizer
      <4> QED BY <2>3, <4>1, <4>5, EndsSteady
    <3> QED BY <1>4, <3>1, <3>2, <3>3
  <2> QED BY <2>1, <2>2, <2>3, <2>5, OthersSteady
<1>5. CASE EnsureFinalizer(r)
  <2>1. /\ rm'[r] = [rm[r] EXCEPT !.fin = TRUE] /\ rm[r] \in Object /\ pc' = pc /\ mem' = mem
        /\ UNCHANGED pools /\ pc[r] = "idle" /\ rm[r].phase = "live"
        /\ \A q \in RM : q # r => rm'[q] = rm[q]
      BY <1>5 DEF EnsureFinalizer, TypeOK
  <2>2. rm'[r].phase = rm[r].phase /\ rm'[r].addr = rm[r].addr
      BY <2>1 DEF Object
  <2>3. HasFinalizer(r)'
      BY <2>1 DEF HasFinalizer, Object
  <2>4. \A q \in RM : SameMemory(q) /\ (q # r => SameObject(q))
      BY <2>1 DEF SameMemory, SameObject, Dropping, HasFinalizer
  <2>5. \A q \in RM : SameReservations(q)
      BY <2>1 DEF pools, SameReservations
  <2>6. LifeInv(r)' /\ OneMachineInv(r)'
      BY <2>1, <2>2, <2>3, SMTT(30) DEF SteadyInv, LifeInv, OneMachineInv, Alive, pools
  <2>7. TaskInv(r)'
    <3>1. ~Dropping(r)
        BY <2>1 DEF SteadyInv, TaskInv, PatchLabels
    <3>2. ~Dropping(r)'
        BY <2>4, <3>1 DEF SameMemory
    <3> QED BY <2>1, <3>2 DEF TaskInv
  <2> QED BY <2>1, <2>4, <2>5, <2>6, <2>7, OthersSteady DEF SteadyInv
<1> QED BY <1>1, <1>2, <1>3, <1>4, <1>5 DEF Reconcile

(* A failure, a crash and a step of the environment.                         *)
LEMMA OtherSteady ==
    ASSUME TypeOK, \A q \in RM : SteadyInv(q), (\E r \in RM : Failure(r)) \/ Environment
    PROVE  \A q \in RM : SteadyInv(q)'
<1>1. ASSUME NEW r \in RM, CallFails(r) \/ ProvisionFails(r) \/ Hang(r) \/ CleanupFails(r)
      PROVE  \A q \in RM : SteadyInv(q)'
  <2>1. CASE CallFails(r)
      BY <2>1, QuietSteady DEF CallFails, ReturnError
  <2>2. CASE ProvisionFails(r)
      BY <2>2, QuietSteady DEF ProvisionFails
  <2>3. CASE Hang(r)
      BY <2>3, QuietSteady DEF Hang
  <2>4. CASE CleanupFails(r)
      BY <2>4, QuietSteady DEF CleanupFails
  <2> QED BY <1>1, <2>1, <2>2, <2>3, <2>4
<1>2. ASSUME NEW r \in RM, PatchFails(r) PROVE \A q \in RM : SteadyInv(q)'
  <2>1. rm' = rm /\ UNCHANGED pools /\ \A q \in RM : q # r => pc'[q] = pc[q] /\ mem'[q] = mem[q]
      BY <1>2 DEF PatchFails, Goto, TypeOK, objects
  <2>2. \A q \in RM : SameObject(q) /\ (mem'[q] = mem[q] => SameMemory(q))
      BY <2>1 DEF SameObject, HasFinalizer, SameMemory, Dropping
  <2>3. \A q \in RM : SameReservations(q)
      BY <2>1 DEF pools, SameReservations
  <2>4. \/ pc[r] = "patch" /\ pc'[r] = "patchSpec" /\ mem'[r] = mem[r]
        \/ pc[r] = "patchSpec" /\ pc'[r] = "patchStatus" /\ mem'[r] = mem[r]
        \/ pc'[r] = "idle" /\ mem'[r] = Loaded(NewObject)
      BY <1>2 DEF PatchFails, Goto, TypeOK
  <2>5. SteadyInv(r)'
      BY <1>2, <2>2, <2>3, <2>4, MovesSteady, EndsSteady
  <2> QED BY <2>1, <2>2, <2>3, <2>5, OthersSteady
<1>3. CASE Crash
  <2>1. rm' = rm /\ UNCHANGED pools
        /\ \A q \in RM : pc'[q] = "idle" /\ mem'[q] = Loaded(NewObject)
      BY <1>3 DEF Crash, objects
  <2>2. \A q \in RM : SameObject(q)
      BY <2>1 DEF SameObject, HasFinalizer
  <2>3. \A q \in RM : SameReservations(q)
      BY <2>1 DEF pools, SameReservations
  <2> QED BY <2>1, <2>2, <2>3, EndsSteady
<1>4. ASSUME SyncPool \/ \E r \in RM : SyncRM(r) PROVE \A q \in RM : SteadyInv(q)'
  <2>1. rm' = rm /\ pool' = pool /\ pc' = pc /\ mem' = mem /\ poolCache' \in {poolCache, pool}
      BY <1>4 DEF SyncPool, SyncRM, objects, pools
  <2>2. \A q \in RM : SameObject(q) /\ SameMemory(q)
      BY <2>1 DEF SameObject, HasFinalizer, SameMemory, Dropping
  <2>3. \A q \in RM : SameReservations(q)
      BY <2>1 DEF SameReservations
  <2> QED BY <2>1, <2>2, <2>3, OthersSteady
<1>5. ASSUME NEW r \in RM, Create(r) \/ Delete(r) PROVE \A q \in RM : SteadyInv(q)'
  <2> DEFINE ph == IF rm[r].phase = "none" THEN "live"
                   ELSE IF HasFinalizer(r) THEN "deleting" ELSE "gone"
  <2>1. rm' = [rm EXCEPT ![r] = [rm[r] EXCEPT !.phase = ph]] /\ rm[r].phase \in {"none", "live"}
      BY <1>5 DEF Create, Delete, HasFinalizer
  <2>2. rm[r] \in Object /\ pc' = pc /\ mem' = mem /\ UNCHANGED pools
      BY <1>5 DEF Create, Delete, TypeOK
  <2>3. rm'[r] = [rm[r] EXCEPT !.phase = ph] /\ \A q \in RM : q # r => rm'[q] = rm[q]
      BY <1>5, <2>1 DEF TypeOK
  <2> HIDE DEF ph
  <2>4. rm'[r].phase = ph /\ rm'[r].addr = rm[r].addr
      BY <2>2, <2>3 DEF Object
  <2>5. rm'[r].fin = rm[r].fin
      BY <2>2, <2>3 DEF Object
  <2>6. HasFinalizer(r)' <=> HasFinalizer(r)
      BY <2>5 DEF HasFinalizer
  <2>7. \A q \in RM : SameMemory(q) /\ (q # r => SameObject(q))
      BY <2>2, <2>3 DEF SameMemory, SameObject, Dropping, HasFinalizer
  <2>8. \A q \in RM : SameReservations(q)
      BY <2>2 DEF pools, SameReservations
  <2>9. LifeInv(r)' /\ OneMachineInv(r)'
    <3>1. NoneReserved(r)' <=> NoneReserved(r)
        BY <2>2 DEF NoneReserved, pools
    <3>2. LifeInv(r)'
        BY <1>5, <2>1, <2>2, <2>4, <2>6, <3>1, SMTT(30) DEF SteadyInv, LifeInv, Alive, ph
    <3>3. OneMachineInv(r)'
        BY <1>5, <2>2, <2>4, SMTT(30) DEF SteadyInv, OneMachineInv, pools
    <3> QED BY <3>2, <3>3
  <2>10. TaskInv(r)'
    <3>1. Dropping(r)' <=> Dropping(r)
        BY <2>7, <1>5 DEF SameMemory
    <3>2. NoneReserved(r)' <=> NoneReserved(r)
        BY <2>2 DEF NoneReserved, pools
    <3>3. pc[r] = "idle" \/ mem[r].read.phase # "deleting"
        BY <1>5, <2>1 DEF SteadyInv, TaskInv
    <3>4. /\ Owns(r, rm[r].addr)' <=> Owns(r, rm[r].addr)
          /\ Owns(r, mem[r].addr)' <=> Owns(r, mem[r].addr)
          /\ pool' = pool /\ poolCache' = poolCache
        BY <2>2, <2>4 DEF Owns, pools
    <3>5. TaskInv(r)
        BY <1>5 DEF SteadyInv
    <3> QED BY <2>2, <3>1, <3>2, <3>3, <3>4, <3>5 DEF TaskInv
  <2> QED BY <2>2, <2>7, <2>8, <2>9, <2>10, OthersSteady DEF SteadyInv
<1> QED BY <1>1, <1>2, <1>3, <1>4, <1>5 DEF Failure, Environment

(* The invariant, preserved by every step.                                   *)
DeletionInv == TypeOK /\ ReservationInv /\ \A r \in RM : SteadyInv(r)

LEMMA NextSteady == NoStaleReads /\ DeletionInv /\ [Next]_vars => DeletionInv'
<1> SUFFICES ASSUME NoStaleReads, DeletionInv, [Next]_vars PROVE DeletionInv'
    OBVIOUS
<1>1. TypeOK /\ ReservationInv /\ \A r \in RM : SteadyInv(r)
    BY DEF DeletionInv
<1>2. TypeOK' /\ ReservationInv'
    BY <1>1, NextReserved
<1>3. \A r \in RM : SteadyInv(r)'
  <2>1. ASSUME NEW r \in RM, Reconcile(r) PROVE \A q \in RM : SteadyInv(q)'
      BY <1>1, <2>1, ReconcileSteady
  <2>2. ASSUME (\E r \in RM : Failure(r)) \/ Environment PROVE \A q \in RM : SteadyInv(q)'
      BY <1>1, <2>2, OtherSteady
  <2>3. CASE UNCHANGED vars
    <3>1. rm' = rm /\ pc' = pc /\ mem' = mem /\ pool' = pool /\ poolCache' = poolCache
        BY <2>3 DEF vars
    <3>2. \A q \in RM : SameObject(q) /\ SameMemory(q)
        BY <3>1 DEF SameObject, HasFinalizer, SameMemory, Dropping
    <3>3. \A q \in RM : SameReservations(q)
        BY <3>1 DEF SameReservations
    <3> QED BY <1>1, <3>1, <3>2, <3>3, OthersSteady
  <2> QED BY <2>1, <2>2, <2>3 DEF Next
<1> QED BY <1>2, <1>3 DEF DeletionInv

LEMMA InitDeletion == Init => DeletionInv
  BY InitType, InitReserved, InitSteady DEF DeletionInv

(* A machine whose RemoteMachine is gone is back in the pool, wherever the   *)
(* controller crashes and whichever calls fail, as long as no Reconcile acts *)
(* on a cache that lags behind: returnMachineToPool trusts the cached list   *)
(* when it finds no reservation in it.                                       *)
THEOREM NoLeakHolds ==
    ASSUME NoStaleReads
    PROVE  Spec => []NoLeak
<1>1. DeletionInv => NoLeak
    BY DEF DeletionInv, SteadyInv, LifeInv, NoneReserved, NoLeak
<1> QED BY <1>1, InitDeletion, NextSteady, PTL DEF Spec

----------------------------------------------------------------------------
(* The lease that the controller implements.                                 *)

(* A step that leaves objects and reservations alone, and in which nobody    *)
(* begins to ask.                                                            *)
LEMMA WithdrawStep ==
    ASSUME pool' = pool, \A q \in RM : rm'[q].phase = rm[q].phase,
           \A q \in RM : pc'[q] \in {"reserve", "update"} => pc[q] \in {"reserve", "update"}
    PROVE  Lease!Withdraw
<1>1. Lives' = Lives
    BY DEF Lives
<1>2. Asking' \in SUBSET Asking
    BY DEF Asking
<1> QED BY <1>1, <1>2 DEF Lease!Withdraw

(* A Reconcile that goes on to something else than a reservation.            *)
LEMMA LeavesReservation ==
    ASSUME TypeOK, NEW r \in RM, NEW label, Goto(r, label),
           label \in {"reserve", "update"} => pc[r] \in {"reserve", "update"}
    PROVE  \A q \in RM : pc'[q] \in {"reserve", "update"} => pc[q] \in {"reserve", "update"}
  BY DEF Goto, TypeOK

(* The start of a Reconcile: a live RemoteMachine asks for its machine.      *)
LEMMA StartLease ==
    ASSUME TypeOK, NoStaleReads, NEW r \in RM, StartReconcile(r)
    PROVE  Lease!Ask(r) \/ Lease!Withdraw
<1>1. rmCache[r] = rm[r]
    BY DEF StartReconcile, Disturb, NoStaleReads
<1>2. pool' = pool /\ rm' = rm /\ Goto(r, AfterStart(rm[r]))
    BY <1>1 DEF StartReconcile, objects, pools
<1>3. CASE rm[r].phase = "live"
  <2>1. pc' = [pc EXCEPT ![r] = "reserve"] /\ Lives' = Lives /\ Lives[r] = "live"
      BY <1>2, <1>3 DEF AfterStart, Goto, Lives
  <2>2. Asking' = Asking \cup {r}
      BY <2>1, SMTT(30) DEF Asking, TypeOK
  <2> QED BY <1>2, <2>1, <2>2 DEF Lease!Ask
<1>4. CASE rm[r].phase # "live"
  <2>1. AfterStart(rm[r]) \notin {"reserve", "update"}
      BY <1>4 DEF AfterStart
  <2>2. \A q \in RM : pc'[q] \in {"reserve", "update"} => pc[q] \in {"reserve", "update"}
      BY <1>2, <2>1, LeavesReservation
  <2> QED BY <1>2, <2>2, WithdrawStep
<1> QED BY <1>3, <1>4

(* A reservation: the RemoteMachine asked, and has no other machine.         *)
LEMMA ReserveLease ==
    ASSUME DeletionInv, NEW r \in RM, Reserve(r)
    PROVE  \E p \in Pooled : Lease!Take(r, p)
<1>1. TypeOK /\ ReservationInv /\ SteadyInv(r)
    BY DEF DeletionInv
<1>2. PICK p \in Pooled : pool[p] = NoRM /\ WritePool(p, r)
    BY <1>1, ReserveEffect
<1>3. pc[r] = "update" /\ rm' = rm /\ Goto(r, AfterReserve(mem[r]))
    BY DEF Reserve, objects
<1>4. r \in Asking /\ NoneReserved(r)
    BY <1>1, <1>3 DEF Asking, SteadyInv, TaskInv
<1>5. Asking' = Asking \ {r}
  <2>1. AfterReserve(mem[r]) \notin {"reserve", "update"}
      BY DEF AfterReserve
  <2> QED BY <1>1, <1>3, <2>1 DEF Goto, TypeOK, Asking
<1>6. Lives' = Lives
    BY <1>3 DEF Lives
<1>7. Lease!HasNone(r)
    BY <1>4 DEF Lease!HasNone, NoneReserved
<1> QED BY <1>2, <1>4, <1>5, <1>6, <1>7 DEF Lease!Take, WritePool

(* A return: the RemoteMachine is being deleted, and reserves nothing.       *)
LEMMA ReturnLease ==
    ASSUME DeletionInv, NEW r \in RM, ReturnMachineToPool(r)
    PROVE  \E p \in Pooled : Lease!Return(r, p)
<1>1. TypeOK /\ ReservationInv /\ SteadyInv(r)
    BY DEF DeletionInv
<1>2. PICK p \in Pooled : pool[p] = r /\ WritePool(p, NoRM)
    BY <1>1, ReturnEffect
<1>3. pc[r] = "return" /\ rm' = rm /\ Goto(r, "patch")
    BY DEF ReturnMachineToPool, objects
<1>4. rm[r].phase = "deleting"
    BY <1>1, <1>3 DEF SteadyInv, TaskInv, LifeInv
<1>5. Asking' = Asking /\ r \notin Asking
    BY <1>1, <1>3 DEF Goto, TypeOK, Asking
<1>6. Lives' = Lives /\ Lives[r] = "deleting"
    BY <1>3, <1>4 DEF Lives
<1> QED BY <1>2, <1>5, <1>6 DEF Lease!Return, WritePool

(* One RemoteMachine goes away.                                              *)
LEMMA VanishStep ==
    ASSUME TypeOK, NEW r \in RM, rm[r].phase \in {"live", "deleting"}, NoneReserved(r),
           pc[r] \notin {"reserve", "update"}, pool' = pool, Asking' = Asking,
           rm'[r].phase = "gone", \A q \in RM : q # r => rm'[q].phase = rm[q].phase
    PROVE  Lease!Vanish(r)
<1>1. Lives' = [Lives EXCEPT ![r] = "gone"] /\ Lives[r] \in {"live", "deleting"}
    BY DEF Lives
<1>2. r \notin Asking /\ Lease!HasNone(r)
    BY DEF Asking, Lease!HasNone, NoneReserved
<1> QED BY <1>1, <1>2 DEF Lease!Vanish

(* The deferred patch: the call that takes the finalizer off lets go of a    *)
(* RemoteMachine without a machine; the others do not change its life.       *)
LEMMA PatchLease ==
    ASSUME TypeOK, NEW r \in RM, SteadyInv(r),
           PatchConditions(r) \/ PatchSpec(r) \/ PatchStatus(r)
    PROVE  Lease!Vanish(r) \/ Lease!Withdraw
<1>1. rm[r] \in Object /\ mem[r] \in Memory
    BY DEF TypeOK
<1>2. /\ pc[r] \notin {"reserve", "update"} /\ pc'[r] \notin {"reserve", "update"}
      /\ \A q \in RM : q # r => pc'[q] = pc[q] /\ rm'[q] = rm[q]
      /\ pool' = pool
    BY SMTT(30) DEF PatchConditions, PatchSpec, PatchStatus, PatchCall, Goto, TypeOK, pools
<1>3. Asking' = Asking
    BY <1>2 DEF Asking
<1>4. CASE rm'[r].phase = rm[r].phase
    BY <1>2, <1>4, WithdrawStep
<1>5. CASE rm'[r].phase # rm[r].phase
  <2>1. PatchSpec(r) /\ rm[r].phase # "gone"
    <3>1. rm[r].phase = "gone" => rm'[r] = rm[r]
        BY DEF PatchConditions, PatchSpec, PatchStatus, PatchCall, TypeOK
    <3>2. /\ PatchedConditions(rm[r], mem[r]).phase = rm[r].phase
          /\ PatchedStatus(rm[r], mem[r]).phase = rm[r].phase
        BY <1>1 DEF PatchedConditions, PatchedStatus, Object
    <3>3. /\ PatchConditions(r) => rm'[r] \in {rm[r], PatchedConditions(rm[r], mem[r])}
          /\ PatchStatus(r) => rm'[r] \in {rm[r], PatchedStatus(rm[r], mem[r])}
        BY DEF PatchConditions, PatchStatus, PatchCall, TypeOK
    <3> QED BY <1>5, <3>1, <3>2, <3>3
  <2>2. pc[r] = "patchSpec" /\ rm'[r] = PatchedSpec(rm[r], mem[r])
      BY <2>1 DEF PatchSpec, PatchCall, TypeOK
  <2>3. Dropping(r) /\ rm[r].phase = "deleting" /\ rm'[r].phase = "gone"
      BY <1>1, <1>5, <2>2 DEF PatchedSpec, Object, Dropping
  <2>4. NoneReserved(r)
      BY <2>3 DEF SteadyInv, TaskInv
  <2> QED BY <1>2, <1>3, <2>3, <2>4, VanishStep
<1> QED BY <1>4, <1>5

(* The other steps of a Reconcile, and its failures.                         *)
LEMMA QuietLease ==
    ASSUME TypeOK, NEW r \in RM,
           \/ EnsureFinalizer(r) \/ FindReserved(r) \/ PickFree(r) \/ NoFreeMachine(r)
           \/ Conflict(r) \/ Provision(r) \/ Cleanup(r) \/ ReturnConflict(r)
           \/ NothingToReturn(r) \/ Failure(r)
    PROVE  Lease!Withdraw
<1>1. CASE EnsureFinalizer(r)
  <2>1. rm' = [rm EXCEPT ![r].fin = TRUE] /\ pool' = pool /\ pc' = pc
      BY <1>1 DEF EnsureFinalizer, pools
  <2>2. \A q \in RM : rm'[q].phase = rm[q].phase
      BY <2>1, SMTT(30) DEF TypeOK, Object
  <2> QED BY <2>1, <2>2, WithdrawStep
<1>2. CASE ~EnsureFinalizer(r)
  <2>1. pool' = pool /\ rm' = rm
      BY <1>2 DEF FindReserved, PickFree, NoFreeMachine, Conflict, Provision, Cleanup,
         ReturnConflict, NothingToReturn, Failure, CallFails, ReturnError, ProvisionFails,
         Hang, CleanupFails, PatchFails, pools, objects
  <2>2. \E label : /\ Goto(r, label)
                   /\ label \in {"reserve", "update"} => pc[r] \in {"reserve", "update"}
    <3>1. AfterReserve(mem[r]) \notin {"reserve", "update"}
        BY DEF AfterReserve
    <3>2. CASE FindReserved(r)
        BY <3>1, <3>2 DEF FindReserved
    <3>3. CASE PickFree(r)
        BY <3>3 DEF PickFree
    <3>4. CASE NoFreeMachine(r) \/ Conflict(r) \/ Provision(r) \/ ReturnConflict(r)
               \/ NothingToReturn(r)
      <4>1. Goto(r, "patch")
          BY <3>4 DEF NoFreeMachine, Conflict, Provision, ReturnConflict, NothingToReturn
      <4> QED BY <4>1, SMTT(30)
    <3>5. CASE Cleanup(r) \/ CleanupFails(r)
      <4>1. Goto(r, "return")
          BY <3>5 DEF Cleanup, CleanupFails
      <4> QED BY <4>1, SMTT(30)
    <3>6. CASE CallFails(r) \/ ProvisionFails(r)
      <4>1. Goto(r, "patch")
          BY <3>6 DEF CallFails, ReturnError, ProvisionFails
      <4> QED BY <4>1, SMTT(30)
    <3>7. CASE Hang(r)
        BY <3>7, SMTT(30) DEF Hang
    <3>8. CASE PatchFails(r)
      <4>1. Goto(r, "patchSpec") \/ Goto(r, "patchStatus") \/ Goto(r, "idle")
          BY <3>8 DEF PatchFails
      <4> QED BY <4>1, SMTT(30)
    <3> QED BY <1>2, <3>2, <3>3, <3>4, <3>5, <3>6, <3>7, <3>8 DEF Failure
  <2>3. \A q \in RM : pc'[q] \in {"reserve", "update"} => pc[q] \in {"reserve", "update"}
      BY <2>2, LeavesReservation
  <2> QED BY <2>1, <2>3, WithdrawStep
<1> QED BY <1>1, <1>2

(* The environment: only a RemoteMachine without a finalizer goes at once.   *)
LEMMA EnvironmentLease ==
    ASSUME DeletionInv, Environment
    PROVE  Lease!Next
<1>1. TypeOK /\ \A r \in RM : SteadyInv(r)
    BY DEF DeletionInv
<1>2. CASE Crash
  <2>1. pool' = pool /\ rm' = rm /\ \A q \in RM : pc'[q] = "idle"
      BY <1>2 DEF Crash, pools, objects
  <2>2. Lease!Withdraw
      BY <2>1, WithdrawStep
  <2> QED BY <2>2 DEF Lease!Next
<1>3. CASE SyncPool \/ \E r \in RM : SyncRM(r)
  <2>1. pool' = pool /\ rm' = rm /\ pc' = pc
      BY <1>3 DEF SyncPool, SyncRM, objects, pools
  <2>2. Lease!Withdraw
      BY <2>1, WithdrawStep
  <2> QED BY <2>2 DEF Lease!Next
<1>4. ASSUME NEW r \in RM, Create(r) PROVE Lease!Next
  <2>1. /\ rm[r].phase = "none" /\ rm' = [rm EXCEPT ![r].phase = "live"]
        /\ pool' = pool /\ pc' = pc
      BY <1>4 DEF Create, pools
  <2>2. Lives' = [Lives EXCEPT ![r] = "live"] /\ Lives[r] = "none" /\ Asking' = Asking
      BY <1>1, <2>1 DEF Lives, Asking, TypeOK, Object
  <2>3. Lease!Appear(r)
      BY <2>1, <2>2 DEF Lease!Appear
  <2> QED BY <2>3 DEF Lease!Next
<1>5. ASSUME NEW r \in RM, Delete(r) PROVE Lease!Next
  <2>1. /\ rm[r].phase = "live"
        /\ rm' = [rm EXCEPT ![r].phase = IF rm[r].fin THEN "deleting" ELSE "gone"]
        /\ pool' = pool /\ pc' = pc
      BY <1>5 DEF Delete, pools
  <2>2. Asking' = Asking
      BY <2>1 DEF Asking
  <2>3. CASE HasFinalizer(r)
    <3>1. rm' = [rm EXCEPT ![r].phase = "deleting"]
        BY <2>1, <2>3 DEF HasFinalizer
    <3>2. Lives' = [Lives EXCEPT ![r] = "deleting"] /\ Lives[r] = "live"
      <4>1. rm'[r].phase = "deleting" /\ \A q \in RM : q # r => rm'[q].phase = rm[q].phase
          BY <1>1, <3>1, SMTT(30) DEF TypeOK, Object
      <4>2. rm[r].phase = "live"
          BY <2>1
      <4> QED BY <4>1, <4>2 DEF Lives
    <3>3. Lease!Leave(r)
        BY <2>1, <2>2, <3>2 DEF Lease!Leave
    <3> QED BY <3>3 DEF Lease!Next
  <2>4. CASE ~HasFinalizer(r)
    <3>1. rm' = [rm EXCEPT ![r].phase = "gone"]
        BY <2>1, <2>4 DEF HasFinalizer
    <3>2. rm'[r].phase = "gone" /\ \A q \in RM : q # r => rm'[q].phase = rm[q].phase
        BY <1>1, <3>1, SMTT(30) DEF TypeOK, Object
    <3>3. pc[r] = "idle" /\ NoneReserved(r)
        BY <1>1, <2>1, <2>4 DEF SteadyInv, LifeInv, Alive
    <3>4. Lease!Vanish(r)
        BY <1>1, <2>1, <2>2, <3>2, <3>3, VanishStep
    <3> QED BY <3>4 DEF Lease!Next
  <2> QED BY <2>3, <2>4
<1> QED BY <1>2, <1>3, <1>4, <1>5 DEF Environment

(* Every step of the controller and of its environment is a step of the      *)
(* lease, or leaves it alone.                                                *)
LEMMA LeaseStep ==
    ASSUME NoStaleReads, DeletionInv, [Next]_vars
    PROVE  [Lease!Next]_(Lease!vars)
<1>1. TypeOK /\ \A r \in RM : SteadyInv(r)
    BY DEF DeletionInv
<1>2. ASSUME NEW r \in RM, Reconcile(r) \/ Failure(r) PROVE Lease!Next
  <2>1. CASE StartReconcile(r)
    <3>1. Lease!Ask(r) \/ Lease!Withdraw
        BY <1>1, <2>1, StartLease
    <3> QED BY <3>1 DEF Lease!Next
  <2>2. CASE Reserve(r)
    <3>1. \E p \in Pooled : Lease!Take(r, p)
        BY <2>2, ReserveLease
    <3> QED BY <3>1 DEF Lease!Next
  <2>3. CASE ReturnMachineToPool(r)
    <3>1. \E p \in Pooled : Lease!Return(r, p)
        BY <2>3, ReturnLease
    <3> QED BY <3>1 DEF Lease!Next
  <2>4. CASE PatchConditions(r) \/ PatchSpec(r) \/ PatchStatus(r)
    <3>1. Lease!Vanish(r) \/ Lease!Withdraw
        BY <1>1, <2>4, PatchLease
    <3> QED BY <3>1 DEF Lease!Next
  <2>5. CASE \/ EnsureFinalizer(r) \/ FindReserved(r) \/ PickFree(r) \/ NoFreeMachine(r)
             \/ Conflict(r) \/ Provision(r) \/ Cleanup(r) \/ ReturnConflict(r)
             \/ NothingToReturn(r) \/ Failure(r)
    <3>1. Lease!Withdraw
        BY <1>1, <2>5, QuietLease
    <3> QED BY <3>1 DEF Lease!Next
  <2> QED BY <1>2, <2>1, <2>2, <2>3, <2>4, <2>5 DEF Reconcile
<1>3. CASE UNCHANGED vars
  <2>1. Lives' = Lives /\ pool' = pool /\ Asking' = Asking
      BY <1>3 DEF vars, Lives, Asking
  <2> QED BY <2>1 DEF Lease!vars
<1> QED BY <1>2, <1>3, EnvironmentLease DEF Next

(* The pool is a lease, for any number of RemoteMachines and machines, and   *)
(* wherever the controller crashes and whichever calls fail: a machine is    *)
(* reserved only for a RemoteMachine that asked while it was live and has    *)
(* none, it is given back only by one that is being deleted and has no       *)
(* reservation under way, and a RemoteMachine goes away without a machine.   *)
(* A Reconcile that acts on a cache that lags behind would break it.         *)
THEOREM PoolIsLeased ==
    ASSUME NoStaleReads
    PROVE  Spec => Leased
<1>1. Init => Lease!Init
  <2> SUFFICES ASSUME Init PROVE Lease!Init
      OBVIOUS
  <2>1. Lives = [r \in RM |-> "none"] /\ Asking = {} /\ pool = [p \in Pooled |-> NoRM]
      BY DEF Init, Lives, Asking, NewObject
  <2> QED BY <2>1 DEF Lease!Init
<1>2. NoStaleReads /\ DeletionInv /\ [Next]_vars => [Lease!Next]_(Lease!vars)
    BY LeaseStep
<1> QED BY <1>1, <1>2, InitDeletion, NextSteady, PTL DEF Spec, Leased, Lease!Spec
----------------------------------------------------------------------------
(* What runs on the machines.                                                *)

(* Only a machine that is reserved for it runs the k0s of a RemoteMachine,   *)
(* and none does when it is about to go back to the pool.                    *)
HostInv(r) ==
    /\ \A p \in Pooled : host[p] = r => pool[p] = r
    /\ pc[r] = "return" => \A p \in Pooled : host[p] # r

(* A step that leaves the machines and their reservations alone.             *)
LEMMA SameHosts ==
    ASSUME NEW q \in RM, HostInv(q), host' = host, \A p \in Pooled : pool[p] = q => pool'[p] = q,
           pc'[q] = "return" => pc[q] = "return"
    PROVE  HostInv(q)'
  BY DEF HostInv

(* The labels a step leads to.                                               *)
LEMMA LabelsSteps ==
    ASSUME TypeOK, NEW r \in RM, NEW q \in RM, pc'[q] = "return", pc[q] # "return",
           Reconcile(r) \/ Failure(r)
    PROVE  q = r /\ (Cleanup(r) \/ CleanupFails(r))
<1>1. ASSUME NEW label, Goto(r, label), label # "return" PROVE FALSE
    BY <1>1 DEF Goto, TypeOK
<1>2. ASSUME pc' = pc PROVE FALSE
    BY <1>2
<1>3. AfterStart(rmCache[r]) # "return" /\ AfterReserve(mem[r]) # "return"
    BY DEF AfterStart, AfterReserve
<1>4. ~Failure(r) \/ CleanupFails(r)
    BY <1>1 DEF Failure, CallFails, ReturnError, ProvisionFails, Hang, PatchFails
<1>5. ~Reconcile(r) \/ Cleanup(r)
    BY <1>1, <1>2, <1>3 DEF Reconcile, EnsureFinalizer, StartReconcile, FindReserved, PickFree,
       NoFreeMachine, Reserve, Conflict, Provision, ReturnMachineToPool, ReturnConflict,
       NothingToReturn, PatchConditions, PatchSpec, PatchStatus, PatchCall
<1>6. q = r
  <2>1. Goto(r, "return")
      BY <1>4, <1>5 DEF Cleanup, CleanupFails
  <2> QED BY <2>1 DEF Goto, TypeOK
<1> QED BY <1>4, <1>5, <1>6

(* The k0s of a RemoteMachine is installed on its machine only, and is gone  *)
(* before the machine is returned.                                           *)
LEMMA NextHosts ==
    ASSUME DeletionInv, NoStaleReads, "cleanupFails" \notin Disturbance, [Next]_vars,
           \A q \in RM : HostInv(q)
    PROVE  \A q \in RM : HostInv(q)'
<1>0. TypeOK /\ ReservationInv /\ \A q \in RM : SteadyInv(q)
    BY DEF DeletionInv
<1>a. \A r \in RM : ~CleanupFails(r)
    BY DEF CleanupFails, Disturb
<1>b. \A r \in RM : mem[r].addr \in Pooled \cup {None}
    BY <1>0 DEF TypeOK, Memory
<1>1. ASSUME NEW r \in RM, Provision(r) \/ ProvisionFails(r) PROVE \A q \in RM : HostInv(q)'
  <2>1. pc[r] = "provision" /\ pool' = pool
      BY <1>1 DEF Provision, ProvisionFails, pools
  <2>2. mem[r].addr \in Pooled /\ pool[mem[r].addr] = r
      BY <1>0, <1>b, <1>1, <2>1 DEF SteadyInv, TaskInv, Owns
  <2>3. \A q \in RM : pc'[q] = "return" => q # r /\ pc[q] = "return"
      BY <1>0, <1>1 DEF Provision, ProvisionFails, Goto, TypeOK
  <2>4. PICK h \in {host[mem[r].addr], r} : host' = [host EXCEPT ![mem[r].addr] = h]
      BY <1>1 DEF Provision, ProvisionFails
  <2>5. \A p \in Pooled : host'[p] = host[p] \/ (p = mem[r].addr /\ host'[p] = r)
      BY <1>0, <2>2, <2>4 DEF TypeOK
  <2> QED BY <2>1, <2>2, <2>3, <2>5, SMTT(30) DEF HostInv
<1>2. ASSUME NEW r \in RM, Cleanup(r) PROVE \A q \in RM : HostInv(q)'
  <2>1. pc[r] = "cleanup" /\ pool' = pool /\ host' = [host EXCEPT ![mem[r].addr] = NoRM]
      BY <1>2 DEF Cleanup, pools
  <2>2. mem[r].addr \in Pooled
      BY <1>0, <1>b, <1>2, <2>1 DEF SteadyInv, TaskInv
  <2>3. \A p \in Pooled : host'[p] = IF p = mem[r].addr THEN NoRM ELSE host[p]
      BY <1>0, <2>1, <2>2 DEF TypeOK
  <2>4. \A p \in Pooled : host[p] = r => p = mem[r].addr
    <3>1. \A p \in Pooled : pool[p] = r => mem[r].addr \in {None, p}
        BY <1>0, <1>2 DEF SteadyInv, OneMachineInv
    <3> QED BY <1>2, <2>2, <3>1, SMTT(30) DEF HostInv, Pooled, None
  <2>5. \A q \in RM : q # r => pc'[q] = pc[q]
      BY <1>0, <1>2 DEF Cleanup, Goto, TypeOK
  <2> QED BY <2>1, <2>3, <2>4, <2>5, SMTT(30) DEF HostInv
<1>3. ASSUME NEW r \in RM, Reserve(r) \/ ReturnMachineToPool(r) PROVE \A q \in RM : HostInv(q)'
  <2>1. host' = host /\ \A q \in RM : pc'[q] = "return" => q # r /\ pc[q] = "return"
      BY <1>0, <1>3, SMTT(30) DEF Reserve, ReturnMachineToPool, AfterReserve, Goto, TypeOK
  <2>2. CASE Reserve(r)
    <3>1. PICK p \in Pooled : pool[p] = NoRM /\ WritePool(p, r)
        BY <1>0, <1>3, <2>2, ReserveEffect
    <3>2. \A q \in RM : \A x \in Pooled : pool[x] = q => pool'[x] = q
        BY <1>0, <3>1 DEF WritePool, TypeOK
    <3> QED BY <2>1, <3>2, SameHosts
  <2>3. CASE ReturnMachineToPool(r)
    <3>1. PICK p \in Pooled : pool[p] = r /\ WritePool(p, NoRM)
        BY <1>0, <1>3, <2>3, ReturnEffect
    <3>2. \A q \in RM : q # r => \A x \in Pooled : pool[x] = q => pool'[x] = q
        BY <1>0, <3>1 DEF WritePool, TypeOK
    <3>3. pc[r] = "return"
        BY <2>3 DEF ReturnMachineToPool
    <3>4. HostInv(r)'
        BY <1>3, <2>1, <3>3 DEF HostInv
    <3> QED BY <2>1, <3>2, <3>4, SameHosts
  <2> QED BY <1>3, <2>2, <2>3
<1>4. ASSUME NEW r \in RM, Reconcile(r) \/ Failure(r),
             ~(Provision(r) \/ ProvisionFails(r)), ~Cleanup(r),
             ~(Reserve(r) \/ ReturnMachineToPool(r))
      PROVE  \A q \in RM : HostInv(q)'
  <2>1. host' = host /\ pool' = pool
      BY <1>4 DEF Reconcile, Failure, EnsureFinalizer, StartReconcile, FindReserved, PickFree,
         NoFreeMachine, Conflict, ReturnConflict, NothingToReturn, PatchConditions, PatchSpec,
         PatchStatus, PatchCall, CallFails, ReturnError, Hang, CleanupFails, PatchFails, pools
  <2>2. \A q \in RM : pc'[q] = "return" => pc[q] = "return"
      BY <1>0, <1>4, <1>a, LabelsSteps
  <2> QED BY <2>1, <2>2, SameHosts
<1>5. ASSUME Environment \/ UNCHANGED vars PROVE \A q \in RM : HostInv(q)'
  <2>1. host' = host /\ pool' = pool /\ \A q \in RM : pc'[q] = "return" => pc[q] = "return"
      BY <1>5 DEF Environment, Crash, SyncPool, SyncRM, Create, Delete, pools, vars
  <2> QED BY <2>1, SameHosts
<1> QED BY <1>1, <1>2, <1>3, <1>4, <1>5 DEF Next

(* A machine is handed out only after the k0s of its previous RemoteMachine  *)
(* was removed: reconcileDelete cleans up before returnMachineToPool, and no *)
(* crash or failed call makes it skip the cleanup.  Only a cleanup that      *)
(* fails, whose error is logged and forgotten, is excluded, and a cache that *)
(* lags behind.                                                              *)
THEOREM CleanHandoverHolds ==
    ASSUME NoStaleReads, "cleanupFails" \notin Disturbance
    PROVE  Spec => CleanHandover
<1> DEFINE Inv == DeletionInv /\ \A r \in RM : HostInv(r)
           Step == \A r \in RM : Provision(r) => host[mem[r].addr] \in {r, NoRM}
<1>1. Init => Inv
  <2>1. Init => \A r \in RM : HostInv(r)
      BY DEF Init, HostInv
  <2> QED BY <2>1, InitDeletion
<1>2. Inv /\ [Next]_vars => Inv'
    BY NextSteady, NextHosts
<1>3. Inv => Step
  <2> SUFFICES ASSUME Inv, NEW r \in RM, Provision(r) PROVE host[mem[r].addr] \in {r, NoRM}
      OBVIOUS
  <2>1. TypeOK /\ SteadyInv(r) /\ pc[r] = "provision"
      BY DEF DeletionInv, Provision
  <2>2. mem[r].addr \in Pooled /\ pool[mem[r].addr] = r
      BY <2>1 DEF TypeOK, Memory, SteadyInv, TaskInv, Owns
  <2> QED BY <2>1, <2>2, SMTT(30) DEF HostInv, TypeOK
<1> HIDE DEF Inv, Step
<1>4. Inv /\ [Next]_vars => [Step]_vars
    BY <1>3
<1>5. Spec => [][Step]_vars
    BY <1>1, <1>2, <1>4, PTL DEF Spec
<1> QED BY <1>5 DEF CleanHandover, Step

----------------------------------------------------------------------------
(* What a cleanup resets, as long as no step of a Reconcile is lost.         *)

NothingLost == Disturbance \cap {"crash", "apiError"} = {}

(* Until its machine is back in the pool everything that is known of a       *)
(* RemoteMachine names machines reserved for it; the finalizer goes in the   *)
(* same Reconcile.                                                           *)
HeldInv(r) ==
    /\ ~Dropping(r) /\ rm[r].phase # "gone" => Owns(r, rm[r].addr) /\ Owns(r, mem[r].addr)
    /\ pc[r] = "patchStatus" /\ Dropping(r) => rm[r].phase = "gone"

(* A step that leaves alone what is known of a RemoteMachine.                *)
LEMMA SameHeld ==
    ASSUME TypeOK, NEW q \in RM, HeldInv(q), SameMemory(q), SameReservations(q),
           rm'[q].addr = rm[q].addr, rm[q].phase = "gone" => rm'[q].phase = "gone",
           pc'[q] = "patchStatus" /\ Dropping(q) => pc[q] = "patchStatus"
    PROVE  HeldInv(q)'
<1>1. rm[q].addr \in Pooled \cup {None} /\ mem[q].addr \in Pooled \cup {None}
    BY DEF TypeOK, Object, Memory
<1> QED BY <1>1 DEF HeldInv, Owns, SameMemory, SameReservations

(* What every step but those on q leaves alone of q.                         *)
Untouched(q) ==
    rm'[q] = rm[q] /\ pc'[q] = pc[q] /\ SameMemory(q) /\ SameReservations(q)

LEMMA OthersUntouched ==
    ASSUME TypeOK, ReservationInv, NEW r \in RM, Reconcile(r) \/ Failure(r),
           NEW q \in RM, q # r
    PROVE  Untouched(q)
<1>1. rm'[q] = rm[q] /\ pc'[q] = pc[q]
  <2>1. CASE Reconcile(r)
    <3>1. pc' = pc \/ \E label : Goto(r, label)
        BY <2>1 DEF Reconcile, EnsureFinalizer, StartReconcile, FindReserved, PickFree,
           NoFreeMachine, Reserve, Conflict, Provision, Cleanup, ReturnMachineToPool,
           ReturnConflict, NothingToReturn, PatchConditions, PatchSpec, PatchStatus, PatchCall
    <3>2. rm' = rm \/ \E o : rm' = [rm EXCEPT ![r] = o]
        BY <2>1 DEF Reconcile, EnsureFinalizer, StartReconcile, FindReserved, PickFree,
           NoFreeMachine, Reserve, Conflict, Provision, Cleanup, ReturnMachineToPool,
           ReturnConflict, NothingToReturn, PatchConditions, PatchSpec, PatchStatus, PatchCall,
           objects
    <3> QED BY <3>1, <3>2 DEF Goto, TypeOK
  <2>2. CASE Failure(r)
      BY <2>2 DEF Failure, CallFails, ReturnError, ProvisionFails, Hang, CleanupFails, PatchFails,
         Goto, TypeOK, objects
  <2> QED BY <2>1, <2>2
<1>2. CASE Reserve(r) \/ ReturnMachineToPool(r)
  <2>1. SameMemory(q)
      BY <1>2, ReserveEffect, ReturnEffect
  <2>2. PICK p \in Pooled, v \in {r, NoRM} : pool[p] \in {r, NoRM} /\ WritePool(p, v)
      BY <1>2, ReserveEffect, ReturnEffect
  <2>3. SameReservations(q)
      BY <2>2, SMTT(30) DEF WritePool, SameReservations, TypeOK
  <2> QED BY <1>1, <2>1, <2>3 DEF Untouched
<1>3. CASE ~(Reserve(r) \/ ReturnMachineToPool(r))
  <2>1. mem'[q] = mem[q] /\ UNCHANGED pools
    <3>1. CASE Reconcile(r)
        BY <1>3, <3>1 DEF Reconcile, EnsureFinalizer, StartReconcile, FindReserved, PickFree,
           NoFreeMachine, Conflict, Provision, Cleanup, ReturnConflict,
           NothingToReturn, PatchConditions, PatchSpec, PatchStatus, PatchCall, TypeOK
    <3>2. CASE Failure(r)
        BY <3>2 DEF Failure, CallFails, ReturnError, ProvisionFails, Hang, CleanupFails, PatchFails,
           TypeOK
    <3> QED BY <3>1, <3>2
  <2>2. SameMemory(q)
      BY <2>1 DEF SameMemory, Dropping
  <2>3. SameReservations(q)
      BY <2>1 DEF pools, SameReservations
  <2> QED BY <1>1, <2>2, <2>3 DEF Untouched
<1> QED BY <1>2, <1>3

(* A step of its Reconcile keeps what is known of a RemoteMachine right.     *)
LEMMA ReconcileHeld ==
    ASSUME DeletionInv, NoStaleReads, NEW r \in RM, HeldInv(r), Reconcile(r)
    PROVE  HeldInv(r)'
<1>0. TypeOK /\ ReservationInv /\ SteadyInv(r) /\ SteadyInv(r)'
    BY NextSteady DEF DeletionInv, Next
<1>a. rm[r] \in Object /\ mem[r] \in Memory
    BY <1>0 DEF TypeOK
<1>1. CASE NoFreeMachine(r) \/ Conflict(r) \/ Provision(r) \/ Cleanup(r) \/ ReturnConflict(r)
  <2>1. rm' = rm /\ UNCHANGED pools /\ pc'[r] # "patchStatus"
      BY <1>0, <1>1 DEF NoFreeMachine, Conflict, Provision, Cleanup, ReturnConflict, Goto, TypeOK,
         objects
  <2>2. SameMemory(r)
    <3>1. \/ mem' = mem
          \/ mem' = [mem EXCEPT ![r] = [mem[r] EXCEPT !.cond = TRUE, !.pid = TRUE]]
        BY <1>1 DEF NoFreeMachine, Conflict, Provision, Cleanup, ReturnConflict
    <3> QED BY <1>0, <3>1, QuietMemory
  <2>3. SameReservations(r)
      BY <2>1 DEF pools, SameReservations
  <2> QED BY <1>0, <2>1, <2>2, <2>3, SameHeld
<1>2. CASE StartReconcile(r)
  <2>1. rmCache[r] = rm[r] /\ rm[r] \in Object
      BY <1>0, <1>2 DEF StartReconcile, Disturb, NoStaleReads, TypeOK
  <2>2. mem'[r] = Loaded(rm[r]) /\ rm' = rm /\ UNCHANGED pools /\ pc[r] = "idle"
        /\ pc'[r] = AfterStart(rm[r])
      BY <1>0, <1>2, <2>1 DEF StartReconcile, Goto, TypeOK, objects
  <2>3. mem'[r].addr = rm[r].addr
      BY <2>1, <2>2, LoadedMore
  <2>4. ~Dropping(r) /\ pc'[r] # "patchStatus"
      BY <1>0, <2>2 DEF SteadyInv, TaskInv, PatchLabels, AfterStart
  <2> QED BY <2>2, <2>3, <2>4 DEF HeldInv, Owns, pools
<1>3. CASE FindReserved(r) \/ Reserve(r)
  <2>1. PICK p \in Pooled : mem'[r].addr = p /\ pool'[p] = r
    <3>1. CASE FindReserved(r)
      <4> DEFINE p == FirstOf(Mine(r, poolCache))
      <4>1. Mine(r, poolCache) # {} /\ Mine(r, poolCache) \in SUBSET Pooled
          BY <3>1 DEF FindReserved, Mine
      <4>2. p \in Pooled /\ poolCache[p] = r
          BY <4>1, FirstOfMember DEF Mine
      <4>3. mem'[r] = Populated(mem[r], p) /\ pool' = pool /\ pc[r] = "reserve"
          BY <1>0, <3>1 DEF FindReserved, TypeOK, pools
      <4> HIDE DEF p
      <4>4. mem'[r].addr = p
          BY <1>a, <4>3 DEF Populated, Memory
      <4>5. pool[p] = r
          BY <1>0, <4>2, <4>3 DEF SteadyInv, TaskInv
      <4> QED BY <4>2, <4>3, <4>4, <4>5
    <3>2. CASE Reserve(r)
      <4>1. PICK p \in Pooled : WritePool(p, r) /\ mem'[r].addr = p
          BY <1>0, <3>2, ReserveEffect
      <4>2. pool'[p] = r
          BY <1>0, <4>1 DEF WritePool, TypeOK
      <4> QED BY <4>1, <4>2
    <3> QED BY <1>3, <3>1, <3>2
  <2>2. rm' = rm /\ pc'[r] # "patchStatus"
      BY <1>0, <1>3 DEF FindReserved, Reserve, AfterReserve, Goto, TypeOK, objects
  <2>3. rm'[r].addr \in {None, p}
      BY <1>0, <2>1 DEF SteadyInv, OneMachineInv
  <2> QED BY <2>1, <2>2, <2>3 DEF HeldInv, Owns
<1>4. CASE PickFree(r)
  <2> DEFINE p == FirstOf(Free(poolCache))
             b == p \notin behind
  <2>1. /\ mem'[r] = [mem[r] EXCEPT !.want = p, !.valid = b] /\ pc'[r] = "update"
        /\ rm' = rm /\ UNCHANGED pools /\ pc[r] = "reserve"
      BY <1>0, <1>4 DEF PickFree, Goto, TypeOK, objects
  <2> HIDE DEF p, b
  <2>2. mem'[r].addr = mem[r].addr
      BY <1>a, <2>1 DEF Memory
  <2>3. ~Dropping(r)
      BY <1>0, <2>1 DEF SteadyInv, TaskInv, PatchLabels
  <2> QED BY <2>1, <2>2, <2>3 DEF HeldInv, Owns, pools
<1>5. CASE ReturnMachineToPool(r) \/ NothingToReturn(r)
  <2>1. pc'[r] = "patch"
      BY <1>0, <1>5 DEF ReturnMachineToPool, NothingToReturn, Goto, TypeOK
  <2>2. Dropping(r)'
    <3> DEFINE n == [mem[r] EXCEPT !.dropFin = TRUE]
               m == [mem EXCEPT ![r] = n]
    <3>1. n.dropFin
        BY <1>a DEF Memory
    <3>2. n \in Memory
        BY <1>a, FieldTypes DEF None
    <3> HIDE DEF n
    <3>3. m \in [RM -> Memory] /\ m[r] = n
        BY <1>0, <3>2 DEF TypeOK
    <3>4. mem' = m \/ \E p \in Mine(r, poolCache) : mem' = Outdated(p, m)
      <4>1. CASE NothingToReturn(r)
          BY <4>1 DEF NothingToReturn, n
      <4>2. CASE ReturnMachineToPool(r)
        <5>1. PICK p \in Mine(r, poolCache) \ behind :
                  mem' = Outdated(p, [mem EXCEPT ![r].dropFin = TRUE])
            BY <4>2 DEF ReturnMachineToPool
        <5>2. mem' = Outdated(p, m)
            BY <5>1 DEF n
        <5> QED BY <5>1, <5>2
      <4> QED BY <1>5, <4>1, <4>2
    <3> HIDE DEF m
    <3>5. mem'[r].dropFin = n.dropFin
        BY <3>3, <3>4, OutdatedRest, SMTT(30)
    <3> QED BY <3>1, <3>5 DEF Dropping
  <2> QED BY <2>1, <2>2 DEF HeldInv
<1>6. CASE PatchConditions(r) \/ EnsureFinalizer(r)
  <2>1. mem' = mem /\ UNCHANGED pools /\ pc'[r] # "patchStatus"
      BY <1>0, <1>6 DEF PatchConditions, EnsureFinalizer, PatchCall, Goto, TypeOK
  <2> DEFINE c == Changed(mem[r].read.cond, mem[r].cond, rm[r].cond)
  <2>2. rm'[r] \in {rm[r], [rm[r] EXCEPT !.cond = c], [rm[r] EXCEPT !.fin = TRUE]}
      BY <1>0, <1>6 DEF PatchConditions, PatchedConditions, EnsureFinalizer, PatchCall, TypeOK
  <2> HIDE DEF c
  <2>3. rm'[r].addr = rm[r].addr /\ rm'[r].phase = rm[r].phase
      BY <1>a, <2>2 DEF Object
  <2>4. SameMemory(r)
      BY <2>1 DEF SameMemory, Dropping
  <2>5. SameReservations(r)
      BY <2>1 DEF pools, SameReservations
  <2> QED BY <1>0, <2>1, <2>3, <2>4, <2>5, SameHeld
<1>7. CASE PatchSpec(r)
  <2>1. /\ pc[r] = "patchSpec" /\ mem' = mem /\ UNCHANGED pools
        /\ rm'[r] = IF rm[r].phase = "gone" THEN rm[r] ELSE PatchedSpec(rm[r], mem[r])
      BY <1>0, <1>7 DEF PatchSpec, PatchCall, TypeOK
  <2>2. rm[r].phase # "gone" /\ (Dropping(r) => rm[r].phase = "deleting")
      BY <1>0, <2>1 DEF SteadyInv, LifeInv, TaskInv
  <2>3. Dropping(r)' <=> Dropping(r)
      BY <2>1 DEF Dropping
  <2>4. rm'[r].addr \in {rm[r].addr, mem[r].addr}
      BY <1>a, <2>1, <2>2, SMTT(30) DEF PatchedSpec, Changed, Object
  <2>5. Dropping(r) => rm'[r].phase = "gone"
      BY <1>a, <2>1, <2>2 DEF PatchedSpec, Object, Dropping
  <2> QED BY <2>1, <2>2, <2>3, <2>4, <2>5 DEF HeldInv, Owns, pools
<1>8. CASE PatchStatus(r)
  <2> DEFINE c == rm[r].provisioned \/ mem[r].cond
  <2>1. /\ pc[r] = "patchStatus" /\ pc'[r] = "idle" /\ mem'[r] = Loaded(NewObject) /\ UNCHANGED pools
        /\ rm'[r] \in {rm[r], [rm[r] EXCEPT !.provisioned = c]}
      BY <1>0, <1>8 DEF PatchStatus, PatchedStatus, PatchCall, Goto, TypeOK
  <2> HIDE DEF c
  <2>2. rm'[r].addr = rm[r].addr /\ rm'[r].phase = rm[r].phase
      BY <1>a, <2>1 DEF Object
  <2>3. mem'[r].addr = None
      BY <2>1, LoadedMore
  <2> QED BY <2>1, <2>2, <2>3 DEF HeldInv, Owns, pools
<1> QED BY <1>1, <1>2, <1>3, <1>4, <1>5, <1>6, <1>7, <1>8 DEF Reconcile

(* Every step keeps what is known of the RemoteMachines right.               *)
LEMMA NextHeld ==
    ASSUME DeletionInv, NoStaleReads, NothingLost, [Next]_vars, \A q \in RM : HeldInv(q)
    PROVE  \A q \in RM : HeldInv(q)'
<1>0. TypeOK /\ ReservationInv
    BY DEF DeletionInv
<1>1. ASSUME NEW r \in RM, Reconcile(r) \/ Failure(r), NEW q \in RM, q # r PROVE HeldInv(q)'
  <2>1. rm'[q] = rm[q] /\ pc'[q] = pc[q] /\ SameMemory(q) /\ SameReservations(q)
      BY <1>0, <1>1, OthersUntouched DEF Untouched
  <2> QED BY <1>0, <1>1, <2>1, SameHeld
<1>2. ASSUME NEW r \in RM, Reconcile(r) PROVE HeldInv(r)'
    BY <1>2, ReconcileHeld
<1>3. ASSUME NEW r \in RM, Failure(r) PROVE HeldInv(r)'
  <2>1. ProvisionFails(r) \/ Hang(r) \/ CleanupFails(r)
      BY <1>3 DEF Failure, CallFails, ReturnError, PatchFails, Disturb, NothingLost
  <2>2. rm' = rm /\ UNCHANGED pools /\ pc'[r] # "patchStatus"
      BY <1>0, <1>3, <2>1 DEF ProvisionFails, Hang, CleanupFails, Goto, TypeOK, objects
  <2>3. SameMemory(r)
    <3>1. mem' = mem \/ mem' = [mem EXCEPT ![r] = [mem[r] EXCEPT !.cond = FALSE]]
        BY <2>1 DEF ProvisionFails, Hang, CleanupFails
    <3> QED BY <1>0, <1>3, <3>1, QuietMemory
  <2>4. SameReservations(r)
      BY <2>2 DEF pools, SameReservations
  <2> QED BY <1>0, <1>3, <2>2, <2>3, <2>4, SameHeld
<1>4. ASSUME Environment \/ UNCHANGED vars, NEW q \in RM PROVE HeldInv(q)'
  <2>1. ~Crash
      BY DEF Crash, Disturb, NothingLost
  <2>2. pc' = pc /\ mem' = mem /\ pool' = pool /\ poolCache' \in {poolCache, pool}
      BY <1>4, <2>1 DEF Environment, SyncPool, SyncRM, Create, Delete, objects, pools, vars
  <2>3. \/ rm'[q] = rm[q]
        \/ \E ph \in {"live", "deleting", "gone"} : rm'[q] = [rm[q] EXCEPT !.phase = ph]
           /\ rm[q].phase # "gone"
    <3>1. CASE \E r \in RM : Create(r) \/ Delete(r)
      <4>1. PICK r \in RM : Create(r) \/ Delete(r)
          BY <3>1
      <4>2. PICK ph \in {"live", "deleting", "gone"} :
              rm' = [rm EXCEPT ![r] = [rm[r] EXCEPT !.phase = ph]] /\ rm[r].phase # "gone"
          BY <4>1 DEF Create, Delete
      <4> QED BY <1>0, <1>4, <4>2 DEF TypeOK
    <3>2. CASE ~(\E r \in RM : Create(r) \/ Delete(r))
        BY <1>4, <2>1, <3>2 DEF Environment, SyncPool, SyncRM, objects, vars
    <3> QED BY <3>1, <3>2
  <2>4. rm[q] \in Object
      BY <1>0, <1>4 DEF TypeOK
  <2>5. rm'[q].addr = rm[q].addr /\ (rm[q].phase = "gone" => rm'[q].phase = "gone")
      BY <2>3, <2>4 DEF Object
  <2>6. SameMemory(q)
      BY <2>2 DEF SameMemory, Dropping
  <2>7. SameReservations(q)
      BY <2>2 DEF SameReservations
  <2> QED BY <1>0, <1>4, <2>2, <2>5, <2>6, <2>7, SameHeld
<1> QED BY <1>1, <1>2, <1>3, <1>4 DEF Next

(* A deletion resets only a machine that is reserved for the RemoteMachine   *)
(* that is deleted, when no Reconcile is cut short between returning the     *)
(* machine and dropping the finalizer, and no cache lags behind.  After a    *)
(* crash or a failed patch there the next Reconcile cleans up again, and the *)
(* machine may be somebody else's by then.                                   *)
THEOREM CleanupOwnMachineHolds ==
    ASSUME NoStaleReads, NothingLost
    PROVE  Spec => CleanupOwnMachine
<1> DEFINE Inv == DeletionInv /\ \A r \in RM : HeldInv(r)
           Step == \A r \in RM : Cleanup(r) => pool[mem[r].addr] \in {r, NoRM}
<1>1. Init => Inv
  <2> SUFFICES ASSUME Init, NEW r \in RM PROVE HeldInv(r)
      BY InitDeletion
  <2>1. rm[r] = NewObject /\ mem[r] = Loaded(NewObject) /\ pc[r] = "idle"
      BY DEF Init
  <2>2. NewObject.addr = None
      BY DEF NewObject
  <2> QED BY <2>1, <2>2, LoadedMore DEF HeldInv, Owns
<1>2. Inv /\ [Next]_vars => Inv'
    BY NextSteady, NextHeld
<1>3. Inv => Step
  <2> SUFFICES ASSUME Inv, NEW r \in RM, Cleanup(r) PROVE pool[mem[r].addr] \in {r, NoRM}
      OBVIOUS
  <2>1. SteadyInv(r) /\ HeldInv(r) /\ pc[r] = "cleanup"
      BY DEF DeletionInv, Cleanup
  <2> QED BY <2>1 DEF SteadyInv, TaskInv, LifeInv, HeldInv, Owns, PatchLabels
<1> HIDE DEF Inv, Step
<1>4. Inv /\ [Next]_vars => [Step]_vars
    BY <1>3
<1>5. Spec => [][Step]_vars
    BY <1>1, <1>2, <1>4, PTL DEF Spec
<1> QED BY <1>5 DEF CleanupOwnMachine, Step
=============================================================================
