-------------------------- MODULE MCRemoteMachine --------------------------
(* Instances of RemoteMachine: RemoteMachines are interchangeable, pooled    *)
(* machines are not (they are taken in the order of their names).            *)
EXTENDS RemoteMachine, TLC

Symmetry == Permutations(RM)
=============================================================================
