-------------------------------- MODULE Lists --------------------------------
(***************************************************************************)
(* Lists without recursion: an order is told by what goes before each      *)
(* element, and what is left of a list by the places that are kept.        *)
(***************************************************************************)
EXTENDS Naturals, FiniteSets, Functions

(* The elements of S, of which those in ahead[x] go before x.              *)
Sorted(S, ahead) ==
    [i \in 1 .. Cardinality(S) |-> CHOOSE x \in S : Cardinality(ahead[x]) = i - 1]

InOrder(S, place) == Sorted(S, [x \in S |-> {y \in S : place[y] < place[x]}])

Kept(s, places) ==
    LET at == InOrder(places, [i \in places |-> i]) IN [k \in DOMAIN at |-> s[at[k]]]

Those(s, T) == Kept(s, {i \in DOMAIN s : s[i] \in T})

(* Of elements with the same key the first.                                *)
Firsts(s, key) ==
    Kept(s, {i \in DOMAIN s : \A j \in 1 .. i - 1 : key[s[j]] # key[s[i]]})

(* The items of lists[1], of lists[2], and so on.                          *)
Joined(lists) ==
    LET places == UNION {{<<k, i>> : i \in DOMAIN lists[k]} : k \in DOMAIN lists}
        at == Sorted(places, [x \in places |->
                 {y \in places : y[1] < x[1] \/ (y[1] = x[1] /\ y[2] < x[2])}])
    IN [n \in DOMAIN at |-> lists[at[n][1]][at[n][2]]]
=============================================================================
