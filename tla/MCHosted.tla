------------------------------ MODULE MCHosted ------------------------------
(***************************************************************************)
(* The controllers of a hosted control plane, for TLC: those that build it *)
(* (Hosted) and the one that serves a JoinTokenRequest (JoinTokens).  The  *)
(* latter shares no object with the others, only the pods it runs commands *)
(* in, which it takes as it finds them; so a behaviour is one of Hosted or *)
(* one of JoinTokens, while the other has nothing to do.                   *)
(***************************************************************************)
EXTENDS Hosted, JoinTokens

RunModes ==
    {[service |-> "LoadBalancer", ingress |-> FALSE, storage |-> "etcd", monitoring |-> TRUE, remote |-> TRUE],
     [service |-> "NodePort", ingress |-> TRUE, storage |-> "nats", monitoring |-> FALSE, remote |-> FALSE]}

VARIABLE busy  \* which of the two has something to do

mcVars == <<vars, requestVars, busy>>

MCInit ==
    /\ Init
    /\ RequestInit
    /\ \/ busy = "cluster" /\ ~request.legacy /\ cluster = "gone"
       \/ busy = "tokens" /\ mode.remote

OfCluster(A) == busy = "cluster" /\ A /\ UNCHANGED <<requestVars, busy>>
OfTokens(A) == busy = "tokens" /\ A /\ UNCHANGED <<vars, busy>>

MCNext == OfCluster(Next) \/ OfTokens(RequestNext)

(* The fairness of the two modules; busy never changes, so that a fair       *)
(* disjunction is fair to the one that can act.                              *)
MCSpec ==
    /\ MCInit
    /\ [][MCNext]_mcVars
    /\ WF_mcVars(\/ OfCluster(KcpController)
                 \/ OfTokens(Reconcile \/ CreateFails \/ InvalidateFails))
    /\ WF_mcVars(OfCluster(KmcController))
    /\ WF_mcVars(OfCluster(World) \/ OfTokens(Recover \/ Collect))

(* See Hosted: what the user asked for is delivered (KcpSync, KmcObjects).   *)
ClusterSettles == busy = "cluster" => Settles
=============================================================================
