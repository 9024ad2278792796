------------------------- MODULE MCK0sControlPlane -------------------------
(* K0sControlPlane for TLC: next to the control plane that starts from        *)
(* nothing, one that starts initialized and running at full size, its         *)
(* Machines healthy where there is a health check.                            *)
EXTENDS K0sControlPlane, TLC

Symmetry == Permutations(Machine)

TotalOrders(S) ==
    {R \in SUBSET (S \X S) :
        /\ \A m, n \in S : m # n => (<<m, n>> \in R) # (<<n, m>> \in R)
        /\ \A m \in S : <<m, m>> \notin R
        /\ \A l, m, n \in S : <<l, m>> \in R /\ <<m, n>> \in R => <<l, n>> \in R}

Running(n, S, R) ==
    /\ kcp = [FirstKcp(n) EXCEPT !.fin = TRUE, !.init = TRUE]
    /\ cache = kcp
    /\ life = [m \in Machine |-> IF m \in S THEN "active" ELSE "none"]
    /\ hook = [m \in Machine |-> m \in S]
    /\ infra = [m \in Machine |-> m \in S]
    /\ rev = [m \in Machine |-> FirstRevision]
    /\ health = [m \in Machine |-> IF m \in S /\ "unhealthy" \in Disturbance THEN "healthy" ELSE "unknown"]
    /\ ready = [m \in Machine |-> IF m \in S THEN "available" ELSE "new"]
    /\ member = [m \in Machine |-> IF m \in S THEN "joined" ELSE "none"]
    /\ older = R
    /\ lostMember = FALSE
    /\ workers = FALSE
    /\ pc = "idle"
    /\ scope = NoScope
    /\ budget = MaxDisturbances

RunningInit ==
    \E n \in Replica, S \in SUBSET Machine :
        Cardinality(S) = n /\ \E R \in TotalOrders(S) : Running(n, S, R)

RunningSpec == RunningInit /\ [][Next]_vars

(* The same with one choice of the names and of their order, and new Machines *)
(* taking the first free name, for liveness, where symmetry cannot be used.   *)
NamedInit ==
    \E n \in Replica :
        LET S == CHOOSE S \in SUBSET Machine : Cardinality(S) = n
        IN  Running(n, S, CHOOSE R \in TotalOrders(S) : TRUE)

FirstFreeName ==
    \A m \in Machine : life[m] = "none" /\ life'[m] # "none" =>
        m = CHOOSE n \in Machine : life[n] = "none"

NamedFairSpec == NamedInit /\ [][Next /\ FirstFreeName]_vars /\ Fairness
=============================================================================
