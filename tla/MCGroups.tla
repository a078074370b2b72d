------------------------------ MODULE MCGroups ------------------------------
(***************************************************************************)
(* Instances of Groups: the reserved group, two more group ids and two     *)
(* names for them, one connect, and one or two panel users.                *)
(***************************************************************************)
EXTENDS Groups, TLC

CONSTANTS g0, ungrouped

MCAll == {"delete", "update", "tag", "createUser", "updateUser", "bulk", "savePrefs"}
MCOverlapping == {"update", "createUser", "bulk", "tag", "delete"}

(* Tags of connects are explored while there are no users, users while the *)
(* connect has no tags.                                                    *)
Apart ==
    \/ /\ DOMAIN user = {}
       /\ \A o \in DOMAIN ops : ops[o].kind \in {"tag", "delete", "update"}
    \/ /\ \A c \in Conns : tags[c] = {Ungrouped}
       /\ \A o \in DOMAIN ops : ops[o].kind \notin {"tag", "delete"}

SlotSymmetry == Permutations(Slots)
=============================================================================
