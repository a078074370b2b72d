--------------------------- MODULE MCConnectBoard ---------------------------
(***************************************************************************)
(* An instance of ConnectBoard: a main group, a plain one, which may be    *)
(* made main, and the reserved one; two connects, one of them stored       *)
(* before the page knew orders, status and tags, and one more to come.     *)
(***************************************************************************)
EXTENDS ConnectBoard

CONSTANTS top, side, none

Born == <<top, none, side>>
MCGroups == [g \in GroupNames |-> [main |-> g = top, order |-> 0,
                                   born |-> CHOOSE i \in DOMAIN Born : Born[i] = g]]
MCDocs == 1 :> [order |-> 1, tags |-> {top, side}, on |-> TRUE, name |-> 1, json |-> "feed"]
          @@ 2 :> [name |-> 2, json |-> "feed"]
MCSubTitle == <<1, 2, 1>>
MCFilters == {NoFilter, [NoFilter EXCEPT !.names = {1}]}
MCGestures == {"select", "filter", "drag", "sort", "bulk", "toggle", "name", "json", "remove",
               "refresh", "open"}
MCOutside == {"add", "delete", "main", "groups"}

Twins == Permutations(FlowSlots)
=============================================================================
