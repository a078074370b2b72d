----------------------------- MODULE MCFetchCycle -----------------------------
(***************************************************************************)
(* Instances of FetchCycle.                                                *)
(***************************************************************************)
EXTENDS FetchCycle, TLC

CONSTANT tick

Symmetry == Permutations(Workers) \cup Permutations(Requests)
=============================================================================
