------------------------------ MODULE MCBalancers ------------------------------
(***************************************************************************)
(* Instances of Balancers.  The user is in the reserved group, where new   *)
(* balancers appear, and in g1; the connect 2 or 3 starts in group g2,     *)
(* which the user is not given.                                            *)
(***************************************************************************)
EXTENDS Balancers, TLC

CONSTANTS g1, g2, none

MCPlacing == {{none}, {g1}, {g2}}
MCPlaced == [c \in Conns |-> IF \E d \in Conns : d > c THEN {g1} ELSE {g2}]

Symmetry == Permutations(Slots) \cup Permutations(Nodes)
=============================================================================
