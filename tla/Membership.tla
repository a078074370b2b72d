------------------------------ MODULE Membership ------------------------------
(***************************************************************************)
(* What panel users and groups promise: a user belongs to groups, not to   *)
(* names.  Renaming a group changes its name and nothing else, deleting it *)
(* takes its members with it, and whether a user receives a group is       *)
(* decided by that user alone.  The code stores names instead; module      *)
(* Groups is shown to implement this one.                                  *)
(***************************************************************************)
EXTENDS Naturals, Functions

CONSTANTS Gids, Names, Users

VARIABLES
    name,    \* live group -> its name
    member,  \* live user  -> the groups it belongs to
    include  \* live user  -> its choices, group -> received or not

mvars == <<name, member, include>>

Nothing == [g \in {} |-> TRUE]

MInit ==
    /\ \E g \in Gids, n \in Names : name = [h \in {g} |-> n]
    /\ member = Nothing
    /\ include = Nothing

Create(g, n) ==
    /\ g \notin DOMAIN name
    /\ \A h \in DOMAIN name : name[h] # n
    /\ name' = [h \in DOMAIN name \cup {g} |-> IF h = g THEN n ELSE name[h]]
    /\ UNCHANGED <<member, include>>

Rename(g, n) ==
    /\ g \in DOMAIN name
    /\ \A h \in DOMAIN name : name[h] # n
    /\ name' = [name EXCEPT ![g] = n]
    /\ UNCHANGED <<member, include>>

Delete(g) ==
    LET left == {u \in DOMAIN member : g \notin member[u]} IN
    /\ g \in DOMAIN name
    /\ name' = Restrict(name, DOMAIN name \ {g})
    /\ member' = Restrict(member, left)
    /\ include' = Restrict(include, left)

(* Users are created, or moved to other groups.  Their choices are kept or *)
(* forgotten, never changed.                                               *)
Enrol(us, gs) ==
    /\ gs # {} /\ gs \subseteq DOMAIN name
    /\ member' = [v \in DOMAIN member \cup us |-> IF v \in us THEN gs ELSE member[v]]
    /\ \E kept \in SUBSET (us \cap DOMAIN member) :
          include' = [v \in DOMAIN member \cup us |->
                         IF v \in us \ kept THEN Nothing ELSE include[v]]
    /\ UNCHANGED name

Forget(us) ==
    /\ include' = [v \in DOMAIN include |-> IF v \in us THEN Nothing ELSE include[v]]
    /\ UNCHANGED <<name, member>>

Choose(u, p) ==
    /\ u \in DOMAIN member
    /\ include' = [include EXCEPT ![u] = p]
    /\ UNCHANGED <<name, member>>

Leave(u) ==
    /\ u \in DOMAIN member
    /\ member' = Restrict(member, DOMAIN member \ {u})
    /\ include' = Restrict(include, DOMAIN include \ {u})
    /\ UNCHANGED name

MNext ==
    \/ \E g \in Gids, n \in Names : Create(g, n) \/ Rename(g, n)
    \/ \E g \in Gids : Delete(g)
    \/ \E us \in SUBSET Users, gs \in SUBSET Gids : Enrol(us, gs)
    \/ \E us \in SUBSET Users : Forget(us)
    \/ \E u \in DOMAIN member : \E p \in [member[u] -> BOOLEAN] : Choose(u, p)
    \/ \E u \in Users : Leave(u)

MSpec == MInit /\ [][MNext]_mvars
=============================================================================
