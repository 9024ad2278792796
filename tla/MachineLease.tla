---------------------------- MODULE MachineLease ----------------------------
(***************************************************************************)
(* What the pool of machines promises to the RemoteMachines that draw on   *)
(* it: a machine is let to one client at a time, a client has at most one  *)
(* machine, only a client that asked while it was alive gets one, it keeps *)
(* it until it is being deleted, and it does not go away while it has one  *)
(* or may still get one.  How the pool is listed, written and cached is    *)
(* left out.                                                               *)
(***************************************************************************)
CONSTANTS
    Client,     \* those who draw on the pool
    Nobody,     \* the holder of a free machine
    Machine     \* the machines of the pool

VARIABLES
    life,       \* per client: none, live, deleting or gone
    lease,      \* per machine: its client
    asking      \* the clients that are waiting for a machine

vars == <<life, lease, asking>>

HasNone(c) == \A m \in Machine : lease[m] # c

Init ==
    /\ life = [c \in Client |-> "none"]
    /\ lease = [m \in Machine |-> Nobody]
    /\ asking = {}

Appear(c) ==
    /\ life[c] = "none"
    /\ life' = [life EXCEPT ![c] = "live"]
    /\ UNCHANGED <<lease, asking>>

(* A client that has its machine may ask for it again.                       *)
Ask(c) ==
    /\ life[c] = "live"
    /\ asking' = asking \cup {c}
    /\ UNCHANGED <<life, lease>>

(* A request that comes to nothing.                                          *)
Withdraw ==
    /\ asking' \in SUBSET asking
    /\ UNCHANGED <<life, lease>>

Take(c, m) ==
    /\ c \in asking /\ HasNone(c)
    /\ lease[m] = Nobody
    /\ lease' = [lease EXCEPT ![m] = c]
    /\ asking' = asking \ {c}
    /\ UNCHANGED life

Leave(c) ==
    /\ life[c] = "live"
    /\ life' = [life EXCEPT ![c] = "deleting"]
    /\ UNCHANGED <<lease, asking>>

Return(c, m) ==
    /\ life[c] = "deleting" /\ c \notin asking
    /\ lease[m] = c
    /\ lease' = [lease EXCEPT ![m] = Nobody]
    /\ UNCHANGED <<life, asking>>

Vanish(c) ==
    /\ life[c] \in {"live", "deleting"}
    /\ HasNone(c) /\ c \notin asking
    /\ life' = [life EXCEPT ![c] = "gone"]
    /\ UNCHANGED <<lease, asking>>

Next ==
    \/ Withdraw
    \/ \E c \in Client :
          \/ Appear(c) \/ Ask(c) \/ Leave(c) \/ Vanish(c)
          \/ \E m \in Machine : Take(c, m) \/ Return(c, m)

Spec == Init /\ [][Next]_vars
=============================================================================
