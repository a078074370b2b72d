----------------------------- MODULE MCFeedAccess -----------------------------
(***************************************************************************)
(* Instances of FeedAccess.                                                *)
(***************************************************************************)
EXTENDS FeedAccess, TLC

CONSTANTS none

MCEditable == {"requireHwid", "requireNoHwid", "max"}

Symmetry == Permutations(Slots) \cup Permutations(Hwids) \cup Permutations(LogIds)
=============================================================================
