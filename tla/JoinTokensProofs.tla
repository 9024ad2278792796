-------------------------- MODULE JoinTokensProofs --------------------------
(***************************************************************************)
(* Proofs about JoinTokens: a token nobody can revoke is the price of a    *)
(* fault, for any number of faults and tokens.                             *)
(***************************************************************************)
EXTENDS JoinTokens, FiniteSetTheorems, TLAPS

(* What no prover is named for goes to Zenon.                               *)
USE ZenonT(30)

----------------------------------------------------------------------------
(* The invariant.                                                            *)

Patching == {"patch", "patchMeta", "patchStatus"}

(* What the Reconcile that runs has in memory, and what its request is.      *)
TaskOK ==
    /\ task.token # NoToken => step \in {"secret"} \cup Patching
    /\ step = "secret" => task.token # NoToken
    /\ task.tokenID # NoToken => step \in Patching /\ task.token = Token(task.tokenID)
    /\ task.token # NoToken => task.read.tokenID = NoToken /\ task.read.phase = "live"
    /\ step \in {"create"} => task.read.tokenID = NoToken /\ task.read.phase = "live"
    /\ step \in {"dropFin"} => task.read.phase = "deleting"
    /\ \A id \in TokenID : task.token = Token(id) => id \in issued /\ request.tokenID # id

RequestOK ==
    /\ ~request.fin /\ request.phase # "gone" => request.tokenID = NoToken /\ step = "idle"
    /\ request.phase = "gone" => step = "idle"
    /\ oldRequest.fin /\ request.phase # "gone" => request.fin
    /\ request.tokenID \in issued \cup {NoToken}
    /\ cluster = "gone" => valid = {}

(* Tokens that are lost already, or that the patch that is due will lose.    *)
Lost == {id \in valid : /\ task.token = Token(id) => step # "secret" /\ task.tokenID # id
                        /\ request.tokenID = id => request.phase = "gone"}

(* The Reconcile that runs does not know the token that is on record.        *)
Overtaken ==
    step # "idle" /\ task.read.phase = "live" /\ task.read.tokenID = NoToken /\ request.tokenID # NoToken

(* A deletion of the request leaves the token alone: it will, should it find *)
(* the pods restarting, or it just did.                                      *)
Spared ==
    /\ request.phase # "gone"
    /\ \/ cluster = "restarting" /\ issued # {}
       \/ step = "dropFin" /\ task.read.tokenID \in valid

AtRisk == (IF Overtaken THEN 1 ELSE 0) + (IF Spared THEN 1 ELSE 0)

(* Every token that is lost or at risk was paid for with a fault.            *)
Paid == Cardinality(Lost) + AtRisk <= MaxFaults - faults

Inductive == RequestTypeOK /\ IsFiniteSet(valid) /\ TaskOK /\ RequestOK /\ Paid

----------------------------------------------------------------------------
(* Cardinalities.                                                            *)

LEMMA NoMore ==
    ASSUME NEW A, NEW B, IsFiniteSet(B), A \subseteq B
    PROVE  Cardinality(A) \in Nat /\ Cardinality(B) \in Nat /\ Cardinality(A) <= Cardinality(B)
    BY FS_Subset, FS_CardinalityType

LEMMA OneMore ==
    ASSUME NEW A, NEW B, NEW x, IsFiniteSet(B), A \subseteq B \cup {x}
    PROVE  Cardinality(A) \in Nat /\ Cardinality(B) \in Nat /\ Cardinality(A) <= Cardinality(B) + 1
<1> DEFINE C == B \cup {x}
<1>0. Cardinality(B) \in Nat
    BY FS_CardinalityType
<1>1. IsFiniteSet(C) /\ Cardinality(C) = IF x \in B THEN Cardinality(B) ELSE Cardinality(B) + 1
    BY FS_AddElement
<1>2. A \subseteq C
    OBVIOUS
<1> HIDE DEF C
<1>3. Cardinality(A) \in Nat /\ Cardinality(C) \in Nat /\ Cardinality(A) <= Cardinality(C)
    BY <1>1, <1>2, NoMore
<1> QED BY <1>0, <1>1, <1>3, SMTT(30)

----------------------------------------------------------------------------
(* Types.                                                                    *)

LEMMA IdleTyped == ASSUME NEW r \in Request PROVE Idle \in Task /\ [Idle EXCEPT !.read = r] \in Task
    BY DEF Idle, Task, Request, NewRequest

LEMMA InitTyped == TokenAssumption /\ RequestInit => RequestTypeOK
<1> SUFFICES ASSUME MaxFaults \in Nat, RequestInit PROVE RequestTypeOK
    BY DEF TokenAssumption
<1>1. PICK l \in BOOLEAN : request = NewRequest(l)
    BY DEF RequestInit
<1>2. NewRequest(l) \in Request
    BY DEF Request, NewRequest
<1>3. Idle \in Task
    BY <1>2, IdleTyped
<1> QED BY <1>1, <1>2, <1>3, SMTT(30) DEF RequestInit, RequestTypeOK

LEMMA FaultsTyped ==
    ASSUME MaxFaults \in Nat, faults \in 0..MaxFaults, NEW kind, Happens(kind)
    PROVE  faults' \in 0..MaxFaults /\ faults' = faults - 1 /\ faults \in Nat
    BY SMTT(30) DEF Happens

LEMMA NextTyped == TokenAssumption /\ RequestTypeOK /\ TaskOK /\ [RequestNext]_requestVars => RequestTypeOK'
<1> SUFFICES ASSUME MaxFaults \in Nat, RequestTypeOK, TaskOK, [RequestNext]_requestVars PROVE RequestTypeOK'
    BY DEF TokenAssumption
<1> USE FaultsTyped, IdleTyped DEF RequestTypeOK, Write, requestObjects, tokenVars
<1>1. CASE EnsureRequestFinalizer
    BY <1>1 DEF EnsureRequestFinalizer, Request
<1>2. CASE StartReconcile
    BY <1>2 DEF StartReconcile, Read
<1>3. CASE EnsureOwner
  <2>1. request' \in Request /\ oldRequest' \in Request
      BY <1>3 DEF EnsureOwner, Request
  <2>2. task' \in Task /\ step' = "patch"
      BY <1>3 DEF EnsureOwner, Report, Task
  <2>3. faults' \in 0..MaxFaults
      BY <1>3 DEF EnsureOwner
  <2> QED BY <1>3, <2>1, <2>2, <2>3 DEF EnsureOwner
<1>4. CASE HasOwner
    BY <1>4 DEF HasOwner
<1>5. CASE OwnerNotFound
    BY <1>5 DEF OwnerNotFound, ReportFailure, Task
<1>6. CASE FindPod
  <2>1. task' \in Task /\ step' \in {"patch", "create"}
    <3>1. task.read.tied \in BOOLEAN
        BY DEF Task, Request
    <3> QED BY <1>6, <3>1 DEF FindPod, Report, Task
  <2> QED BY <1>6, <2>1 DEF FindPod
<1>7. CASE NoPod
    BY <1>7 DEF NoPod, ReportFailure, Task
<1>8. CASE CreateToken
    BY <1>8 DEF CreateToken, Task
<1>9. CASE WriteSecret
  <2>1. PICK id \in TokenID : task.token = Token(id)
      BY <1>9 DEF WriteSecret, TaskOK, Task
  <2>2. getTokenID(task.token) = id
      BY <2>1, SMTT(30) DEF getTokenID, Token
  <2>3. task' \in Task /\ step' = "patch"
      BY <1>9, <2>2 DEF WriteSecret, Report, Task
  <2> QED BY <1>9, <2>1, <2>3 DEF WriteSecret
<1>10. CASE PatchConditions
    BY <1>10, SMTT(30) DEF PatchConditions, Request, Task
<1>11. CASE PatchMetadata
    BY <1>11, SMTT(30) DEF PatchMetadata, Request, Task
<1>12. CASE PatchStatus
    BY <1>12 DEF PatchStatus, Request, Task
<1>13. CASE SkipInvalidation
    BY <1>13 DEF SkipInvalidation
<1>14. CASE InvalidateToken
    BY <1>14 DEF InvalidateToken
<1>15. CASE RemoveFinalizer
    BY <1>15 DEF RemoveFinalizer, Request
<1>16. CASE CreateFails
    BY <1>16 DEF CreateFails, Task
<1>17. CASE SecretFails
    BY <1>17 DEF SecretFails, SecretFailed, ReportFailure, Task
<1>18. CASE PatchFails
    BY <1>18 DEF PatchFails
<1>19. CASE InvalidateFails
    BY <1>19 DEF InvalidateFails, Return
<1>20. CASE CrashReconcile
    BY <1>20 DEF CrashReconcile, Return
<1>21. CASE DeleteRequest
    BY <1>21, SMTT(30) DEF DeleteRequest, Request
<1>22. CASE Restart \/ Recover
    BY <1>22 DEF Restart, Recover
<1>23. CASE DeleteCluster
    BY <1>23 DEF DeleteCluster
<1>24. CASE Collect
    BY <1>24 DEF Collect, Request
<1>25. CASE UNCHANGED requestVars
    BY <1>25 DEF requestVars
<1> QED BY <1>1, <1>2, <1>3, <1>4, <1>5, <1>6, <1>7, <1>8, <1>9, <1>10, <1>11, <1>12, <1>13,
           <1>14, <1>15, <1>16, <1>17, <1>18, <1>19, <1>20, <1>21, <1>22, <1>23, <1>24, <1>25
        DEF RequestNext, Reconcile, Failure, Environment

----------------------------------------------------------------------------
(* The invariant is kept.                                                    *)

LEMMA InitInductive == TokenAssumption /\ RequestInit => Inductive
<1> SUFFICES ASSUME TokenAssumption, RequestInit PROVE Inductive
    OBVIOUS
<1>1. RequestTypeOK
    BY InitTyped
<1>2. IsFiniteSet(valid) /\ Cardinality(Lost) = 0
  <2>1. valid = {} /\ Lost = {}
      BY DEF RequestInit, Lost
  <2> QED BY <2>1, FS_EmptySet
<1>3. TaskOK
    BY DEF TokenAssumption, RequestInit, TaskOK, Idle, NewRequest, Patching
<1>4. request.phase = "live" /\ request.tokenID = NoToken /\ ~request.fin
    BY SMTT(30) DEF RequestInit, NewRequest
<1>5. RequestOK
    BY <1>4 DEF RequestInit, RequestOK
<1>6. ~Overtaken /\ ~Spared
    BY <1>4 DEF RequestInit, Overtaken, Spared
<1>7. Paid
    BY <1>2, <1>6, SMTT(30) DEF Paid, AtRisk, TokenAssumption, RequestInit
<1> QED BY <1>1, <1>2, <1>3, <1>5, <1>7 DEF Inductive

LEMMA Counts ==
    /\ AtRisk \in Nat
    /\ AtRisk' \in Nat
    /\ (Overtaken' => Overtaken) /\ (Spared' => Spared) => AtRisk' <= AtRisk
    /\ (Overtaken' => Overtaken) => AtRisk' <= AtRisk + 1
    /\ (Spared' => Spared) => AtRisk' <= AtRisk + 1
    /\ ~Overtaken' /\ Overtaken /\ (Spared' => Spared) => AtRisk' + 1 <= AtRisk
    /\ ~Spared' /\ Spared /\ (Overtaken' => Overtaken) => AtRisk' + 1 <= AtRisk
    BY SMTT(30) DEF AtRisk

LEMMA LostIsFinite == IsFiniteSet(valid) => IsFiniteSet(Lost)
    BY FS_Subset DEF Lost

LEMMA Budget ==
    ASSUME NEW a \in Nat, NEW b \in Nat, NEW r \in Nat, NEW q \in Nat,
           NEW f \in Nat, NEW g \in Nat, b + r <= MaxFaults - f, MaxFaults \in Nat
    PROVE  /\ a <= b /\ q + g <= r + f => a + q <= MaxFaults - g
           /\ a <= b + 1 /\ q + 1 + g <= r + f => a + q <= MaxFaults - g
    BY SMTT(30)

LEMMA Sums ==
    ASSUME NEW q \in Nat, NEW r \in Nat, NEW g \in Nat, NEW f \in Nat
    PROVE  /\ q <= r /\ g <= f => q + g <= r + f
           /\ q <= r /\ g = f - 1 => q + 1 + g <= r + f
           /\ q <= r + 1 /\ g = f - 1 => q + g <= r + f
           /\ q + 1 <= r /\ g = f => q + 1 + g <= r + f
    BY SMTT(30)

LEMMA NoLoss ==
    ASSUME MaxFaults \in Nat, Inductive, RequestTypeOK', Lost' \subseteq Lost,
           AtRisk' + faults' <= AtRisk + faults
    PROVE  Paid'
<1>1. Cardinality(Lost') \in Nat /\ Cardinality(Lost) \in Nat /\ Cardinality(Lost') <= Cardinality(Lost)
    BY LostIsFinite, NoMore DEF Inductive
<1>2. faults \in Nat /\ faults' \in Nat /\ AtRisk \in Nat /\ AtRisk' \in Nat
    BY Counts, SMTT(30) DEF Inductive, RequestTypeOK
<1>3. Cardinality(Lost) + AtRisk <= MaxFaults - faults
    BY DEF Inductive, Paid
<1>4. Cardinality(Lost') + AtRisk' <= MaxFaults - faults'
    BY <1>1, <1>2, <1>3, Budget
<1> QED BY <1>4 DEF Paid

LEMMA OneLoss ==
    ASSUME MaxFaults \in Nat, Inductive, RequestTypeOK', NEW x, Lost' \subseteq Lost \cup {x},
           AtRisk' + 1 + faults' <= AtRisk + faults
    PROVE  Paid'
<1>1. Cardinality(Lost') \in Nat /\ Cardinality(Lost) \in Nat /\ Cardinality(Lost') <= Cardinality(Lost) + 1
    BY LostIsFinite, OneMore DEF Inductive
<1>2. faults \in Nat /\ faults' \in Nat /\ AtRisk \in Nat /\ AtRisk' \in Nat
    BY Counts, SMTT(30) DEF Inductive, RequestTypeOK
<1>3. Cardinality(Lost) + AtRisk <= MaxFaults - faults
    BY DEF Inductive, Paid
<1>4. Cardinality(Lost') + AtRisk' <= MaxFaults - faults'
    BY <1>1, <1>2, <1>3, Budget
<1> QED BY <1>4 DEF Paid

(* A step of a Reconcile that neither creates, records nor revokes a token.  *)
LEMMA Quiet ==
    ASSUME MaxFaults \in Nat, Inductive, RequestTypeOK', TaskOK', UNCHANGED <<issued, valid, cluster>>,
           step # "idle", step' # "idle", step = "secret" => step' = "secret",
           task'.read = task.read, task'.token = task.token, task'.tokenID = task.tokenID,
           request'.phase = request.phase, request'.fin = request.fin,
           request'.tokenID = request.tokenID, oldRequest' \in {oldRequest, request},
           faults' <= faults, step' = "dropFin" => faults' = faults - 1 \/ Spared \/ valid = {}
    PROVE  Inductive'
<1>1. Lost' \subseteq Lost
    BY DEF Lost
<1>2. (Overtaken' => Overtaken) /\ (Spared' => Spared \/ faults' = faults - 1)
    BY DEF Overtaken, Spared
<1>3. Paid'
  <2>1. faults \in Nat /\ faults' \in Nat
      BY SMTT(30) DEF Inductive, RequestTypeOK
  <2>2. AtRisk' + faults' <= AtRisk + faults
    <3>1. CASE Spared' => Spared
      <4>1. AtRisk' <= AtRisk
          BY <1>2, <3>1, Counts
      <4> QED BY <2>1, <4>1, Counts, Sums
    <3>2. CASE faults' = faults - 1
      <4>1. AtRisk' <= AtRisk + 1
          BY <1>2, Counts
      <4> QED BY <2>1, <3>2, <4>1, Counts, Sums
    <3> QED BY <1>2, <3>1, <3>2
  <2> QED BY <1>1, <2>2, NoLoss
<1>4. RequestOK'
    BY DEF Inductive, RequestOK
<1> QED BY <1>3, <1>4 DEF Inductive

(* A step outside of the Reconcile that leaves the tokens alone.             *)
LEMMA Outside ==
    ASSUME MaxFaults \in Nat, Inductive, RequestTypeOK', RequestOK', UNCHANGED <<issued, valid, step, task>>,
           request'.tokenID = request.tokenID,
           request.phase = "gone" => request'.phase = "gone",
           request'.phase = "gone" => request.phase = "gone" \/ request.tokenID = NoToken,
           Spared' => Spared \/ faults' = faults - 1, faults' <= faults, NoToken \notin TokenID
    PROVE  Inductive'
<1>1. Lost' \subseteq Lost
    BY DEF Lost, Inductive, RequestTypeOK
<1>2. Overtaken' => Overtaken
    BY DEF Overtaken
<1>3. Paid'
  <2>1. faults \in Nat /\ faults' \in Nat
      BY SMTT(30) DEF Inductive, RequestTypeOK
  <2>2. AtRisk' + faults' <= AtRisk + faults
    <3>1. CASE Spared' => Spared
      <4>1. AtRisk' <= AtRisk
          BY <1>2, <3>1, Counts
      <4> QED BY <2>1, <4>1, Counts, Sums
    <3>2. CASE faults' = faults - 1
      <4>1. AtRisk' <= AtRisk + 1
          BY <1>2, Counts
      <4> QED BY <2>1, <3>2, <4>1, Counts, Sums
    <3> QED BY <3>1, <3>2
  <2> QED BY <1>1, <2>2, NoLoss
<1>4. TaskOK'
    BY DEF Inductive, TaskOK
<1> QED BY <1>3, <1>4 DEF Inductive

(* The Reconcile ends and forgets a token: that costs a fault.               *)
LEMMA Forgets ==
    ASSUME MaxFaults \in Nat, \A id \in TokenID : Token(id) # NoToken,
           Inductive, RequestTypeOK', UNCHANGED <<request, oldRequest, issued, valid, cluster>>,
           step' = "idle", task' = Idle, faults' = faults - 1
    PROVE  Inductive'
<1>1. PICK x : \A id \in TokenID : task.token = Token(id) => id = x
    BY SMTT(30) DEF Token
<1>2. Lost' \subseteq Lost \cup {x}
    BY <1>1 DEF Lost, Inductive, RequestTypeOK
<1>3. ~Overtaken' /\ (Spared' => Spared)
    BY DEF Overtaken, Spared
<1>4. Paid'
  <2>1. faults \in Nat /\ faults' \in Nat
      BY SMTT(30) DEF Inductive, RequestTypeOK
  <2>2. AtRisk' <= AtRisk
      BY <1>3, Counts
  <2>3. AtRisk' + 1 + faults' <= AtRisk + faults
      BY <2>1, <2>2, Counts, Sums
  <2> QED BY <1>2, <2>3, OneLoss
<1>5. TaskOK'
    BY DEF TaskOK, Idle, NewRequest, Patching
<1>6. RequestOK'
    BY DEF Inductive, RequestOK
<1> QED BY <1>4, <1>5, <1>6 DEF Inductive, RequestTypeOK

LEMMA QuietSteps ==
    ASSUME TokenAssumption, Inductive, RequestTypeOK',
           \/ EnsureOwner \/ HasOwner \/ OwnerNotFound \/ FindPod \/ NoPod \/ CreateFails
           \/ PatchConditions \/ PatchMetadata \/ SkipInvalidation
           \/ PatchFails /\ step' # "idle"
    PROVE  Inductive'
<1> USE DEF requestObjects, tokenVars
<1>0. /\ MaxFaults \in Nat /\ NoToken \notin TokenID /\ (\A id \in TokenID : Token(id) # NoToken)
      /\ RequestTypeOK /\ TaskOK /\ RequestOK /\ faults \in Nat
    BY SMTT(30) DEF TokenAssumption, Inductive, RequestTypeOK
<1>1. UNCHANGED <<issued, valid, cluster>> /\ step # "idle" /\ step' # "idle" /\ step # "secret"
    BY DEF EnsureOwner, HasOwner, OwnerNotFound, FindPod, NoPod, CreateFails, PatchConditions,
           PatchMetadata, SkipInvalidation, PatchFails, Report, ReportFailure
<1>2. faults' <= faults
  <2>1. faults' = faults \/ faults' = faults - 1
      BY DEF EnsureOwner, HasOwner, OwnerNotFound, FindPod, NoPod, CreateFails, PatchConditions,
             PatchMetadata, SkipInvalidation, PatchFails, Happens
  <2> QED BY <1>0, <2>1, SMTT(30)
<1>3. /\ request'.phase = request.phase /\ request'.fin = request.fin
      /\ request'.tokenID = request.tokenID /\ oldRequest' \in {oldRequest, request}
  <2>1. oldRequest' \in {oldRequest, request}
      BY DEF EnsureOwner, HasOwner, OwnerNotFound, FindPod, NoPod, CreateFails, PatchConditions,
             PatchMetadata, SkipInvalidation, PatchFails, Write
  <2>2. \/ request' = request \/ \E x : request' = [request EXCEPT !.tied = x]
        \/ \E x : request' = [request EXCEPT !.created = x]
      BY DEF EnsureOwner, HasOwner, OwnerNotFound, FindPod, NoPod, CreateFails, PatchConditions,
             PatchMetadata, SkipInvalidation, PatchFails, Write
  <2> QED BY <1>0, <2>1, <2>2 DEF RequestTypeOK, Request
<1>4. step \in {"owner", "pod", "create"} => task.token = NoToken /\ task.tokenID = NoToken
    BY <1>0 DEF TaskOK, Patching
<1>5. /\ task'.read = task.read /\ task'.token = task.token /\ task'.tokenID = task.tokenID
      /\ \/ step' \in Patching
         \/ step' = "pod" /\ step = "owner"
         \/ step' = "create" /\ step = "pod" /\ task.read.phase = "live" /\ task.read.tokenID = NoToken
         \/ step' = "dropFin" /\ step = "pod" /\ task.read.phase = "deleting"
  <2>1. CASE EnsureOwner
      BY <1>0, <1>4, <2>1 DEF EnsureOwner, Report, RequestTypeOK, Task, Patching
  <2>2. CASE HasOwner
      BY <2>2 DEF HasOwner
  <2>3. CASE OwnerNotFound
      BY <1>0, <2>3 DEF OwnerNotFound, ReportFailure, RequestTypeOK, Task, Patching
  <2>4. CASE FindPod
      BY <1>0, <1>4, <2>4 DEF FindPod, Report, RequestTypeOK, Task, Patching, AlreadyReconciled
  <2>5. CASE NoPod
      BY <1>0, <2>5 DEF NoPod, ReportFailure, RequestTypeOK, Task, Patching
  <2>6. CASE CreateFails
      BY <1>0, <2>6 DEF CreateFails, RequestTypeOK, Task, Patching
  <2>7. CASE PatchConditions \/ PatchMetadata
      BY <2>7 DEF PatchConditions, PatchMetadata, Patching
  <2>8. CASE SkipInvalidation
      BY <2>8 DEF SkipInvalidation
  <2>9. CASE PatchFails /\ step' # "idle"
      BY <2>9 DEF PatchFails, Patching
  <2> QED BY <2>1, <2>2, <2>3, <2>4, <2>5, <2>6, <2>7, <2>8, <2>9
<1>6. TaskOK'
    BY <1>0, <1>1, <1>3, <1>4, <1>5 DEF TaskOK, Patching
<1>7. ASSUME step' = "dropFin" PROVE faults' = faults - 1 \/ Spared \/ valid = {}
  <2>1. SkipInvalidation
      BY <1>5, <1>7 DEF EnsureOwner, HasOwner, OwnerNotFound, FindPod, NoPod, CreateFails, PatchConditions,
                        PatchMetadata, PatchFails, Report, ReportFailure
  <2>2. CASE faults' = faults - 1
      BY <2>2
  <2>3. CASE cluster # "up"
    <3>1. request.phase # "gone"
        BY <1>0, <1>1 DEF RequestOK
    <3>2. cluster = "restarting" \/ valid = {}
        BY <1>0, <2>3 DEF RequestOK, RequestTypeOK
    <3>3. issued # {} \/ valid = {}
        BY <1>0 DEF RequestTypeOK
    <3> QED BY <3>1, <3>2, <3>3 DEF Spared
  <2> QED BY <2>1, <2>2, <2>3 DEF SkipInvalidation, NothingToInvalidate, Happens
<1> QED BY <1>0, <1>1, <1>2, <1>3, <1>5, <1>6, <1>7, Quiet

LEMMA OutsideSteps ==
    ASSUME TokenAssumption, Inductive, RequestTypeOK',
           EnsureRequestFinalizer \/ Restart \/ Recover \/ Collect \/ UNCHANGED requestVars
    PROVE  Inductive'
<1> USE DEF requestObjects, tokenVars, requestVars
<1>0. /\ MaxFaults \in Nat /\ NoToken \notin TokenID /\ RequestTypeOK /\ TaskOK /\ RequestOK /\ faults \in Nat
    BY SMTT(30) DEF TokenAssumption, Inductive, RequestTypeOK
<1>1. UNCHANGED <<issued, valid, step, task>> /\ faults' <= faults
    BY <1>0, SMTT(30) DEF EnsureRequestFinalizer, Restart, Recover, Collect, Happens
<1>2. CASE EnsureRequestFinalizer
  <2>1. /\ request'.tokenID = request.tokenID /\ request'.phase = request.phase /\ request'.fin
        /\ UNCHANGED cluster /\ request.phase = "live"
      BY <1>0, <1>2 DEF EnsureRequestFinalizer, Write, RequestTypeOK, Request
  <2>2. RequestOK'
      BY <1>0, <1>1, <2>1 DEF RequestOK
  <2>3. Spared' => Spared
      BY <1>1, <2>1 DEF Spared
  <2> QED BY <1>0, <1>1, <2>1, <2>2, <2>3, Outside
<1>3. CASE Collect
  <2>1. /\ request'.tokenID = request.tokenID /\ request'.phase = "deleting" /\ request.phase = "live"
        /\ request'.fin = request.fin
        /\ oldRequest' \in {oldRequest, request} /\ UNCHANGED cluster /\ cluster = "gone"
      BY <1>0, <1>3 DEF Collect, Write, RequestTypeOK, Request
  <2>2. RequestOK'
      BY <1>0, <1>1, <2>1 DEF RequestOK
  <2>3. Spared' => Spared
      BY <1>1, <2>1 DEF Spared
  <2> QED BY <1>0, <1>1, <2>1, <2>2, <2>3, Outside
<1>4. CASE Restart \/ Recover \/ UNCHANGED requestVars
  <2>1. UNCHANGED <<request, oldRequest>> /\ (cluster' = "gone" <=> cluster = "gone")
      BY <1>4 DEF Restart, Recover
  <2>2. RequestOK'
      BY <1>0, <1>1, <2>1 DEF RequestOK
  <2>3. Spared' => Spared \/ faults' = faults - 1
    <3>1. \/ faults' = faults - 1
          \/ cluster' # "restarting"
          \/ cluster' = cluster
        BY <1>4 DEF Restart, Recover, Happens
    <3> QED BY <1>1, <2>1, <3>1 DEF Spared
  <2> QED BY <1>0, <1>1, <2>1, <2>2, <2>3, Outside
<1> QED BY <1>2, <1>3, <1>4

(* The steps that take a token up or let it go.                              *)
LEMMA TokenSteps ==
    ASSUME TokenAssumption, Inductive, RequestTypeOK',
           StartReconcile \/ CreateToken \/ WriteSecret \/ SecretFails \/ PatchStatus
    PROVE  Inductive'
<1> USE DEF requestObjects, tokenVars
<1>0. /\ MaxFaults \in Nat /\ NoToken \notin TokenID /\ (\A id \in TokenID : Token(id) # NoToken)
      /\ RequestTypeOK /\ TaskOK /\ RequestOK /\ faults \in Nat /\ faults' \in Nat /\ IsFiniteSet(valid)
    BY SMTT(30) DEF TokenAssumption, Inductive, RequestTypeOK
<1>1. CASE StartReconcile
  <2>1. /\ UNCHANGED <<request, oldRequest, issued, valid, cluster>>
        /\ step = "idle" /\ step' \in {"owner", "pod"} /\ request.phase # "gone"
      BY <1>1 DEF StartReconcile, Read
  <2>2. PICK r \in {request, oldRequest} :
            /\ r.fin /\ task' = [Idle EXCEPT !.read = r]
            /\ (r = request /\ faults' = faults) \/ faults' = faults - 1
      BY <1>1 DEF StartReconcile, Read, Happens
  <2>3. task'.read = r /\ task'.token = NoToken /\ task'.tokenID = NoToken
      BY <2>2 DEF Idle
  <2>4. TaskOK'
      BY <1>0, <2>1, <2>3 DEF TaskOK, Patching
  <2>5. RequestOK'
      BY <1>0, <2>1, <2>2 DEF RequestOK
  <2>6. Lost' \subseteq Lost
      BY <1>0, <2>1, <2>3 DEF Lost, TaskOK, Patching, RequestTypeOK
  <2>7. (Spared' => Spared) /\ (r = request => ~Overtaken')
      BY <2>1, <2>3 DEF Spared, Overtaken
  <2>8. AtRisk' + faults' <= AtRisk + faults
    <3>1. CASE r = request /\ faults' = faults
      <4>1. AtRisk' <= AtRisk
          BY <2>7, <3>1, Counts
      <4>2. faults' <= faults
          BY <1>0, <3>1, SMTT(30)
      <4> QED BY <1>0, <4>1, <4>2, Counts, Sums
    <3>2. CASE faults' = faults - 1
      <4>1. AtRisk' <= AtRisk + 1
          BY <2>7, Counts
      <4> QED BY <1>0, <3>2, <4>1, Counts, Sums
    <3> QED BY <2>2, <3>1, <3>2
  <2> QED BY <1>0, <2>1, <2>4, <2>5, <2>6, <2>8, NoLoss DEF Inductive
<1>2. CASE CreateToken
  <2>1. /\ UNCHANGED <<request, oldRequest, cluster, faults>>
        /\ step = "create" /\ step' = "secret" /\ cluster = "up"
      BY <1>2 DEF CreateToken
  <2>2. PICK id \in TokenID \ issued :
            /\ issued' = issued \cup {id} /\ valid' = valid \cup {id}
            /\ task' = [task EXCEPT !.tied = TRUE, !.token = Token(id)]
      BY <1>2 DEF CreateToken
  <2>3. task'.read = task.read /\ task'.token = Token(id) /\ task'.tokenID = task.tokenID
      BY <1>0, <2>2 DEF RequestTypeOK, Task
  <2>4. \A x : Token(x) = Token(id) => x = id
      BY DEF Token
  <2>5. TaskOK'
      BY <1>0, <2>1, <2>2, <2>3, <2>4, SMTT(30) DEF TaskOK, RequestOK, Patching
  <2>6. RequestOK'
      BY <1>0, <2>1, <2>2 DEF RequestOK
  <2>7. Lost' \subseteq Lost
      BY <1>0, <2>1, <2>2, <2>3, <2>4 DEF Lost, TaskOK, Patching, RequestTypeOK
  <2>8. (Spared' => Spared) /\ (Overtaken' => Overtaken)
      BY <2>1, <2>3 DEF Spared, Overtaken
  <2>9. AtRisk' + faults' <= AtRisk + faults
    <3>1. AtRisk' <= AtRisk
        BY <2>8, Counts
    <3>2. faults' <= faults
        BY <1>0, <2>1, SMTT(30)
    <3> QED BY <1>0, <3>1, <3>2, Counts, Sums
  <2>10. IsFiniteSet(valid')
      BY <1>0, <2>2, FS_AddElement
  <2> QED BY <1>0, <2>5, <2>6, <2>7, <2>9, <2>10, NoLoss DEF Inductive
<1>3. CASE WriteSecret
  <2>1. /\ UNCHANGED <<request, oldRequest, issued, valid, cluster, faults>>
        /\ step = "secret" /\ step' = "patch"
      BY <1>3 DEF WriteSecret, Report
  <2>2. PICK id \in TokenID : task.token = Token(id)
      BY <1>0, <2>1 DEF TaskOK, RequestTypeOK, Task
  <2>3. getTokenID(task.token) = id /\ \A x : Token(x) = Token(id) => x = id
      BY <2>2, SMTT(30) DEF getTokenID, Token
  <2>4. task'.read = task.read /\ task'.token = task.token /\ task'.tokenID = id
      BY <1>0, <1>3, <2>3 DEF WriteSecret, Report, RequestTypeOK, Task
  <2>5. TaskOK'
      BY <1>0, <2>1, <2>2, <2>4 DEF TaskOK, Patching
  <2>6. RequestOK'
      BY <1>0, <2>1 DEF RequestOK
  <2>7. Lost' \subseteq Lost
      BY <2>1, <2>2, <2>3, <2>4 DEF Lost
  <2>8. (Spared' => Spared) /\ (Overtaken' => Overtaken)
      BY <2>1, <2>4 DEF Spared, Overtaken
  <2>9. AtRisk' + faults' <= AtRisk + faults
    <3>1. AtRisk' <= AtRisk
        BY <2>8, Counts
    <3>2. faults' <= faults
        BY <1>0, <2>1, SMTT(30)
    <3> QED BY <1>0, <3>1, <3>2, Counts, Sums
  <2> QED BY <1>0, <2>1, <2>5, <2>6, <2>7, <2>9, NoLoss DEF Inductive
<1>4. CASE SecretFails
  <2>1. /\ UNCHANGED <<request, oldRequest, issued, valid, cluster>> /\ faults' = faults - 1
        /\ step = "secret" /\ step' = "patch"
      BY <1>4 DEF SecretFails, SecretFailed, ReportFailure, Happens
  <2>2. PICK id \in TokenID : task.token = Token(id)
      BY <1>0, <2>1 DEF TaskOK, RequestTypeOK, Task
  <2>3. \A x : Token(x) = Token(id) => x = id
      BY DEF Token
  <2>4. task'.read = task.read /\ task'.token = task.token /\ task'.tokenID = task.tokenID
      BY <1>0, <1>4 DEF SecretFails, SecretFailed, ReportFailure, RequestTypeOK, Task
  <2>5. TaskOK'
      BY <1>0, <2>1, <2>4 DEF TaskOK, Patching
  <2>6. RequestOK'
      BY <1>0, <2>1 DEF RequestOK
  <2>7. Lost' \subseteq Lost \cup {id}
      BY <2>1, <2>2, <2>3, <2>4 DEF Lost
  <2>8. (Spared' => Spared) /\ (Overtaken' => Overtaken)
      BY <2>1, <2>4 DEF Spared, Overtaken
  <2>9. AtRisk' + 1 + faults' <= AtRisk + faults
      BY <1>0, <2>1, <2>8, Counts, Sums
  <2> QED BY <1>0, <2>1, <2>5, <2>6, <2>7, <2>9, OneLoss DEF Inductive
<1>5. CASE PatchStatus
  <2>1. /\ UNCHANGED <<issued, valid, cluster, faults>> /\ task' = Idle
        /\ step = "patchStatus" /\ step' = "idle" /\ oldRequest' \in {oldRequest, request}
      BY <1>5 DEF PatchStatus, Write
  <2>2. /\ request'.phase = request.phase /\ request'.fin = request.fin
        /\ request'.tokenID = IF task.tokenID # NoToken THEN task.tokenID ELSE request.tokenID
      BY <1>0, <1>5 DEF PatchStatus, Write, RequestTypeOK, Request
  <2>3. TaskOK'
      BY <1>0, <2>1 DEF TaskOK, Idle, NewRequest, Patching
  <2>4. task.tokenID # NoToken => task.tokenID \in TokenID /\ task.tokenID \in issued
      BY <1>0 DEF TaskOK, RequestTypeOK, Task
  <2>5. RequestOK'
      BY <1>0, <2>1, <2>2, <2>4 DEF RequestOK
  <2>6. \A x, y : Token(x) = Token(y) => x = y
      BY DEF Token
  <2>7. request.phase # "gone" /\ ~Overtaken' /\ (Spared' => Spared)
      BY <1>0, <2>1, <2>2 DEF RequestOK, Overtaken, Spared
  <2>8. CASE task.tokenID # NoToken /\ request.tokenID # NoToken
    <3>1. Overtaken
        BY <1>0, <2>1, <2>4, <2>8 DEF Overtaken, TaskOK
    <3>2. Lost' \subseteq Lost \cup {request.tokenID}
        BY <1>0, <2>1, <2>2, <2>6, <2>7, <2>8 DEF Lost, TaskOK, RequestTypeOK
    <3>3. AtRisk' + 1 + faults' <= AtRisk + faults
        BY <1>0, <2>1, <2>7, <3>1, Counts, Sums
    <3> QED BY <1>0, <2>1, <2>3, <2>5, <3>2, <3>3, OneLoss DEF Inductive
  <2>9. CASE ~(task.tokenID # NoToken /\ request.tokenID # NoToken)
    <3>1. Lost' \subseteq Lost
        BY <1>0, <2>1, <2>2, <2>6, <2>7, <2>9, SMTT(30) DEF Lost, TaskOK, RequestTypeOK
    <3>2. AtRisk' + faults' <= AtRisk + faults
      <4>1. AtRisk' <= AtRisk
          BY <2>7, Counts
      <4>2. faults' <= faults
          BY <1>0, <2>1, SMTT(30)
      <4> QED BY <1>0, <4>1, <4>2, Counts, Sums
    <3> QED BY <1>0, <2>1, <2>3, <2>5, <3>1, <3>2, NoLoss DEF Inductive
  <2> QED BY <2>8, <2>9
<1> QED BY <1>1, <1>2, <1>3, <1>4, <1>5

LEMMA DeletionSteps ==
    ASSUME TokenAssumption, Inductive, RequestTypeOK',
           InvalidateToken \/ InvalidateFails \/ RemoveFinalizer \/ DeleteRequest \/ DeleteCluster
    PROVE  Inductive'
<1> USE DEF requestObjects, tokenVars
<1>0. /\ MaxFaults \in Nat /\ NoToken \notin TokenID /\ (\A id \in TokenID : Token(id) # NoToken)
      /\ RequestTypeOK /\ TaskOK /\ RequestOK /\ faults \in Nat /\ faults' \in Nat /\ IsFiniteSet(valid)
    BY SMTT(30) DEF TokenAssumption, Inductive, RequestTypeOK
<1>1. CASE InvalidateToken
  <2>1. /\ UNCHANGED <<request, oldRequest, issued, cluster, task, faults>> /\ valid' \subseteq valid
        /\ task.read.tokenID \notin valid'
        /\ step = "pod" /\ step' = "dropFin" /\ task.read.phase = "deleting"
      BY <1>1 DEF InvalidateToken
  <2>2. TaskOK'
      BY <1>0, <2>1 DEF TaskOK, Patching
  <2>3. RequestOK'
      BY <1>0, <2>1 DEF RequestOK
  <2>4. Lost' \subseteq Lost
      BY <1>0, <2>1 DEF Lost, TaskOK, Patching, RequestTypeOK
  <2>5. AtRisk' <= AtRisk
    <3>1. (Spared' => Spared) /\ (Overtaken' => Overtaken)
        BY <2>1 DEF Spared, Overtaken
    <3> QED BY <3>1, Counts
  <2>6. faults' <= faults
      BY <1>0, <2>1, SMTT(30)
  <2>7. AtRisk' + faults' <= AtRisk + faults
      BY <1>0, <2>5, <2>6, Counts, Sums
  <2>8. IsFiniteSet(valid')
      BY <1>0, <2>1, FS_Subset
  <2> QED BY <1>0, <2>2, <2>3, <2>4, <2>7, <2>8, NoLoss DEF Inductive
<1>2. CASE InvalidateFails
  <2>1. /\ UNCHANGED <<request, oldRequest, issued, valid, cluster>> /\ task' = Idle
        /\ step = "pod" /\ step' = "idle"
      BY <1>2 DEF InvalidateFails, Return
  <2>2. TaskOK'
      BY <1>0, <2>1 DEF TaskOK, Idle, NewRequest, Patching
  <2>3. RequestOK'
      BY <1>0, <2>1 DEF RequestOK
  <2>4. Lost' \subseteq Lost
      BY <1>0, <2>1 DEF Lost, TaskOK, Patching, RequestTypeOK
  <2>5. AtRisk' <= AtRisk
    <3>1. (Spared' => Spared) /\ (Overtaken' => Overtaken)
        BY <2>1 DEF Spared, Overtaken
    <3> QED BY <3>1, Counts
  <2>6. faults' <= faults
    <3>1. faults' = faults \/ faults' = faults - 1
        BY <1>2 DEF InvalidateFails, Happens
    <3> QED BY <1>0, <3>1, SMTT(30)
  <2>7. AtRisk' + faults' <= AtRisk + faults
      BY <1>0, <2>5, <2>6, Counts, Sums
  <2> QED BY <1>0, <2>1, <2>2, <2>3, <2>4, <2>7, NoLoss DEF Inductive
<1>3. CASE RemoveFinalizer
  <2>1. /\ UNCHANGED <<issued, valid, cluster, faults>> /\ task' = Idle
        /\ step = "dropFin" /\ step' = "idle" /\ oldRequest' = request'
      BY <1>3 DEF RemoveFinalizer
  <2>2. TaskOK'
      BY <1>0, <2>1 DEF TaskOK, Idle, NewRequest, Patching
  <2>3. CASE request' = request
    <3>1. RequestOK'
        BY <1>0, <2>1, <2>3 DEF RequestOK
    <3>2. Lost' \subseteq Lost
        BY <1>0, <2>1, <2>3 DEF Lost, TaskOK, Patching, RequestTypeOK
    <3>3. AtRisk' <= AtRisk
      <4>1. (Spared' => Spared) /\ (Overtaken' => Overtaken)
          BY <2>1, <2>3 DEF Spared, Overtaken
      <4> QED BY <4>1, Counts
    <3>4. faults' <= faults
        BY <1>0, <2>1, SMTT(30)
    <3>5. AtRisk' + faults' <= AtRisk + faults
        BY <1>0, <3>3, <3>4, Counts, Sums
    <3> QED BY <1>0, <2>1, <2>2, <3>1, <3>2, <3>5, NoLoss DEF Inductive
  <2>4. CASE request' # request
    <3>1. /\ request = task.read /\ request'.phase = "gone" /\ ~request'.fin
          /\ request'.tokenID = request.tokenID
        BY <1>0, <1>3, <2>4 DEF RemoveFinalizer, RequestTypeOK, Request
    <3>2. request.phase = "deleting"
        BY <1>0, <2>1, <3>1 DEF TaskOK
    <3>3. RequestOK'
        BY <1>0, <2>1, <3>1 DEF RequestOK
    <3>4. ~Overtaken' /\ ~Spared'
        BY <2>1, <3>1 DEF Overtaken, Spared
    <3>5. CASE request.tokenID \notin valid
      <4>1. Lost' \subseteq Lost
          BY <1>0, <2>1, <3>1, <3>5 DEF Lost, TaskOK, Patching, RequestTypeOK
      <4>2. AtRisk' <= AtRisk
          BY <3>4, Counts
      <4>3. faults' <= faults
          BY <1>0, <2>1, SMTT(30)
      <4>4. AtRisk' + faults' <= AtRisk + faults
          BY <1>0, <4>2, <4>3, Counts, Sums
      <4> QED BY <1>0, <2>1, <2>2, <3>3, <4>1, <4>4, NoLoss DEF Inductive
    <3>6. CASE request.tokenID \in valid
      <4>1. Lost' \subseteq Lost \cup {request.tokenID}
          BY <1>0, <2>1, <3>1 DEF Lost, TaskOK, Patching, RequestTypeOK
      <4>2. Spared
          BY <2>1, <3>1, <3>2, <3>6 DEF Spared
      <4>3. AtRisk' + 1 <= AtRisk
          BY <3>4, <4>2, Counts
      <4>4. AtRisk' + 1 + faults' <= AtRisk + faults
          BY <1>0, <2>1, <4>3, Counts, Sums
      <4> QED BY <1>0, <2>1, <2>2, <3>3, <4>1, <4>4, OneLoss DEF Inductive
    <3> QED BY <3>5, <3>6
  <2> QED BY <2>3, <2>4
<1>4. CASE DeleteRequest
  <2>1. /\ UNCHANGED <<issued, valid, cluster, step, task, faults>>
        /\ request.phase = "live" /\ oldRequest' \in {oldRequest, request}
      BY <1>4 DEF DeleteRequest, Write
  <2>2. /\ request'.phase = (IF request.fin THEN "deleting" ELSE "gone")
        /\ request'.tokenID = request.tokenID /\ request'.fin = request.fin
      BY <1>0, <1>4 DEF DeleteRequest, Write, RequestTypeOK, Request
  <2>3. TaskOK'
      BY <1>0, <2>1, <2>2 DEF TaskOK
  <2>4. RequestOK'
      BY <1>0, <2>1, <2>2 DEF RequestOK
  <2>5. Lost' \subseteq Lost
      BY <1>0, <2>1, <2>2 DEF Lost, RequestOK, RequestTypeOK
  <2>6. AtRisk' <= AtRisk
    <3>1. (Spared' => Spared) /\ (Overtaken' => Overtaken)
        BY <2>1, <2>2 DEF Spared, Overtaken
    <3> QED BY <3>1, Counts
  <2>7. AtRisk' + faults' <= AtRisk + faults
    <3>1. faults' <= faults
        BY <1>0, <2>1, SMTT(30)
    <3> QED BY <1>0, <2>6, <3>1, Counts, Sums
  <2> QED BY <1>0, <2>1, <2>3, <2>4, <2>5, <2>7, NoLoss DEF Inductive
<1>5. CASE DeleteCluster
  <2>1. /\ UNCHANGED <<request, oldRequest, issued, step, task, faults>>
        /\ cluster' = "gone" /\ valid' = {}
      BY <1>5 DEF DeleteCluster
  <2>2. TaskOK'
      BY <1>0, <2>1 DEF TaskOK
  <2>3. RequestOK'
      BY <1>0, <2>1 DEF RequestOK
  <2>4. Lost' \subseteq Lost /\ IsFiniteSet(valid')
      BY <2>1, FS_EmptySet DEF Lost
  <2>5. AtRisk' <= AtRisk
    <3>1. (Spared' => Spared) /\ (Overtaken' => Overtaken)
        BY <2>1 DEF Spared, Overtaken
    <3> QED BY <3>1, Counts
  <2>6. faults' <= faults
      BY <1>0, <2>1, SMTT(30)
  <2>7. AtRisk' + faults' <= AtRisk + faults
      BY <1>0, <2>5, <2>6, Counts, Sums
  <2> QED BY <1>0, <2>2, <2>3, <2>4, <2>7, NoLoss DEF Inductive
<1> QED BY <1>1, <1>2, <1>3, <1>4, <1>5

LEMMA NextInductive == TokenAssumption /\ Inductive /\ [RequestNext]_requestVars => Inductive'
<1> SUFFICES ASSUME TokenAssumption, Inductive, [RequestNext]_requestVars PROVE Inductive'
    OBVIOUS
<1>1. RequestTypeOK'
    BY NextTyped DEF Inductive
<1>2. CASE CrashReconcile \/ (PatchFails /\ step' = "idle")
  <2>1. /\ UNCHANGED <<request, oldRequest, issued, valid, cluster>>
        /\ step' = "idle" /\ task' = Idle /\ faults' = faults - 1
      BY <1>2 DEF CrashReconcile, PatchFails, Return, Happens, requestObjects, tokenVars
  <2> QED BY <1>1, <2>1, Forgets DEF TokenAssumption
<1> QED BY <1>1, <1>2, QuietSteps, OutsideSteps, TokenSteps, DeletionSteps
        DEF RequestNext, Reconcile, Failure, Environment

(* The request, its cached copy, the secret and the memory of the Reconcile  *)
(* keep their types, for every number of tokens and of faults: the secret    *)
(* holds a token and status.tokenID an ID, never one in place of the other   *)
(* (getTokenID), and only tokens that were issued are valid.                 *)
THEOREM RequestTypeCorrect == RequestSpec => []RequestTypeOK
<1>1. Inductive => RequestTypeOK
    BY DEF Inductive
<1> QED BY <1>1, ConstantsFit, InitInductive, NextInductive, PTL DEF RequestSpec

(* Every token nobody can revoke any more is the price of a fault: a failed  *)
(* or outdated call, a crash or a restart of the control plane, for every    *)
(* number of tokens and of faults.  Deleting the request is none of these:   *)
(* the token is revoked before the request is gone (Reconcile,               *)
(* invalidateToken).                                                         *)
THEOREM TokensOnRecordHolds == RequestSpec => []TokensOnRecord
<1>1. Inductive => TokensOnRecord
  <2> SUFFICES ASSUME Inductive PROVE TokensOnRecord
      OBVIOUS
  <2>1. Unknown \subseteq Lost
      BY DEF Unknown, Lost
  <2>2. /\ Cardinality(Unknown) \in Nat /\ Cardinality(Lost) \in Nat
        /\ Cardinality(Unknown) <= Cardinality(Lost)
      BY <2>1, LostIsFinite, NoMore DEF Inductive
  <2>3. faults \in Nat /\ AtRisk \in Nat /\ Cardinality(Lost) + AtRisk <= MaxFaults - faults
      BY ConstantsFit, Counts, SMTT(30) DEF TokenAssumption, Inductive, RequestTypeOK, Paid
  <2>4. MaxFaults \in Nat
      BY ConstantsFit DEF TokenAssumption
  <2> QED BY <2>2, <2>3, <2>4, SMTT(30) DEF TokensOnRecord
<1> QED BY <1>1, ConstantsFit, InitInductive, NextInductive, PTL DEF RequestSpec
=============================================================================
