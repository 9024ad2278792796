-------------------------- MODULE DebouncedHealth --------------------------
(***************************************************************************)
(* What the Available condition of a control plane promises to those who   *)
(* read it: an outage is reported only when the API of the workload        *)
(* cluster was found unreadable several times in a row by a manager that   *)
(* kept running, and when nothing was heard of it for a whole grace        *)
(* period; and once reported it stays until the API has been read again.   *)
(* Nothing is promised once the manager has acted on outdated evidence.    *)
(***************************************************************************)
EXTENDS Naturals

CONSTANTS
    Grace,      \* availabilityGracePeriod, in ticks of the clock
    Threshold   \* availabilityFailureThreshold

VARIABLES
    verdict,    \* what the condition says
    quiet,      \* time since the API was last recorded as readable
    looks,      \* failed reads in a row this manager has seen
    void        \* the evidence is no longer to be trusted

vars == <<verdict, quiet, looks, void>>

Capped(n, max) == IF n < max THEN n ELSE max

Init ==
    /\ verdict = "Unknown"
    /\ quiet = Grace
    /\ looks = 0
    /\ void = FALSE

(* The API was read, and that is written down.                               *)
Confirm ==
    /\ looks = 0
    /\ verdict' = "True"
    /\ quiet' = 0
    /\ UNCHANGED looks

(* A read failed.                                                            *)
Miss ==
    /\ looks' = Capped(looks + 1, Threshold)
    /\ UNCHANGED <<verdict, quiet>>

(* The API was read, or the manager was restarted.                           *)
Forget ==
    /\ looks' = 0
    /\ UNCHANGED <<verdict, quiet>>

Doubt ==
    /\ verdict # "False"
    /\ verdict' = "Unknown"
    /\ UNCHANGED <<quiet, looks>>

ReportOutage ==
    /\ quiet = Grace
    /\ looks = Threshold
    /\ verdict' = "False"
    /\ UNCHANGED <<quiet, looks>>

(* The object is created anew with the status of an earlier one: what        *)
(* happened to that one is no evidence.                                      *)
Renew ==
    /\ quiet' = 0
    /\ looks' = 0
    /\ UNCHANGED verdict

Tick ==
    /\ quiet' = Capped(quiet + 1, Grace)
    /\ UNCHANGED <<verdict, looks>>

Next ==
    \/ void' = TRUE
    \/ /\ UNCHANGED void
       /\ Confirm \/ Miss \/ Forget \/ Doubt \/ ReportOutage \/ Renew \/ Tick

Spec == Init /\ [][Next]_vars
=============================================================================
