----------------------------- MODULE MCAccessLink -----------------------------
(* Instances of AccessLink: an old user and one to be created.             *)
EXTENDS AccessLink, TLC

Symmetry == Permutations(Slots) \cup Permutations(Codes) \cup Permutations(Tokens)
=============================================================================
