---------------------------- MODULE MCBootstrap ----------------------------
(* Two workers, on the same host one after the other or on two hosts.        *)
EXTENDS Bootstrap

Hosts == {"a", "b"}
RunPlacement == {[w \in Workers |-> "a"], [w \in Workers |-> IF w = Min(Workers) THEN "a" ELSE "b"]}

(* The behaviours in which one of the machines is never created: three       *)
(* controllers and either worker, or two controllers and both.  Nobody has   *)
(* to create a machine, so these are behaviours of FairSpec.                 *)
AllButOne == \E m \in Machine : life'[m] = "none"

RunSpec == Init /\ [][Next /\ AllButOne]_vars /\ WF_vars(System)
============================================================================
