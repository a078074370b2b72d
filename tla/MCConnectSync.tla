--------------------------- MODULE MCConnectSync ---------------------------
(***************************************************************************)
(* Instances of ConnectSync: a feed whose entries are two versions a1, a2  *)
(* of one VLESS node (same stable core, other UUID) and a node b of a      *)
(* protocol without a stable core.                                         *)
(***************************************************************************)
EXTENDS ConnectSync, TLC

CONSTANTS a1, a2, b, coreA, s2

(* Invocations overlap only while the second subscription has served       *)
(* nothing; two subscriptions with rows take turns.                        *)
Idle(s) == remote[s] = <<>> /\ RowsOf(s) = {} /\ \A r \in DOMAIN runs : runs[r].sub # s
OverlapInOne == nextId <= (IF serial THEN 5 ELSE 4) /\ (serial \/ Idle(s2))

RunSymmetry == Permutations(Runs)

MCUris == {a1, a2, b}
MCIdentity == [u \in MCUris |-> u]
MCStable == [u \in MCUris |-> IF u = b THEN NoCore ELSE coreA]
MCOpaque == {b}

(* An empty answer, a node renewed under another UUID, a node that comes   *)
(* and goes, and a list that names the same node twice.                    *)
MCLists == {<<>>, <<a1>>, <<a2, b>>, <<b, a2, a1>>}
MCOneNode == {<<>>, <<a1>>, <<a2>>}

============================================================================
