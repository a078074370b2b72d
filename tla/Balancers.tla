------------------------------ MODULE Balancers ------------------------------
(***************************************************************************)
(* BalancersService and the JSON feed of ManagementService.  A balancer    *)
(* keeps the ids of its pool (Balancer.connectIds) and has a connect of    *)
(* its own whose rawJson, built by buildSelectorOutbound, holds a copy of  *)
(* every pool member's outbound; buildJsonFeedForPanelUser cuts that copy  *)
(* down to what the user may receive.  The pool, the copy and the rows     *)
(* they come from are written by separate calls, each a step here, and a   *)
(* feed reads the groups of the user one query after another.              *)
(*                                                                         *)
(* Ids are numbers in the order of the _id index.  Of the outbound of a    *)
(* row only its version is kept; names and the fixed part of the config    *)
(* are left out.                                                           *)
(***************************************************************************)
EXTENDS Naturals, FiniteSets, Functions

CONSTANTS
    Conns,      \* ids of ordinary connects, all there at first
    Opaque,     \* those no outbound can be made of
    Nodes,      \* versions of an outbound
    Bals,       \* ids of balancers, each handed out once
    Groups, Ungrouped,
    Assigned,   \* the groups of the user
    Placing,    \* groupNames an operator may give a connect
    Placed,     \* [Conns -> Placing]: where connects are at first
    Slots,      \* requests in progress at the same time
    MaxFeeds,   \* bound on those that build a feed, which write nothing
    Budget,     \* bound on edits of rows
    CanCrash    \* whether a request may stop half-way

ASSUME BalancersAssumption ==
    /\ Conns \subseteq Nat /\ IsFiniteSet(Conns)
    /\ Opaque \subseteq Conns
    /\ Assigned \subseteq Groups
    /\ Ungrouped \in Groups
    /\ Placing \subseteq SUBSET Groups
    /\ Placed \in [Conns -> Placing]
    /\ Nodes # {}
    /\ IsFiniteSet(Slots) /\ MaxFeeds \in Nat
    /\ Budget \in Nat
    /\ CanCrash \in BOOLEAN

VARIABLES
    conn,     \* live connect  -> [node, active, groups]
    pool,     \* live balancer -> connectIds
    entry,    \* balancer id -> its connect [active, groups, cfg]
    unused,   \* ids of balancers not handed out yet
    ops,      \* slot -> local variables of a request
    budget,
    serial,   \* history: no two requests have overlapped, and no edit a request
    crashed   \* history: a request has stopped half-way

vars == <<conn, pool, entry, unused, ops, budget, serial, crashed>>

-----------------------------------------------------------------------------
None == [x \in {} |-> TRUE]

(* connect.findMany({ id: { in: S } })                                     *)
Rows(S) == {[id |-> c, node |-> conn[c].node] : c \in S \cap DOMAIN conn}

(* buildSelectorOutbound.  balancerConnectIds lists the rows, outbounds    *)
(* those that could be converted, in the same order.                       *)
Build(rows) ==
    [ids  |-> {x.id : x \in rows},
     outs |-> {[of |-> x.id, node |-> x.node] : x \in {y \in rows : y.id \notin Opaque}}]

(* The place of c when S is listed in the order of ids.                    *)
Place(c, S) == Cardinality({d \in S : d <= c})

(* Slip: the next place is taken.                                          *)
KeptShifted(cfg, acc) ==
    IF cfg.ids \subseteq acc THEN cfg.outs
    ELSE {x \in cfg.outs : \E c \in cfg.ids \cap acc :
             Place(c, cfg.ids) + 1 = Place(x.of, {y.of : y \in cfg.outs})}

(* filterBalancerForUser: the outbounds that stay.  The outbound at place  *)
(* k is taken for that of the k-th id of the pool.                         *)
Kept(cfg, acc) ==
    IF cfg.ids \subseteq acc THEN cfg.outs
    ELSE {x \in cfg.outs : \E c \in cfg.ids \cap acc :
             Place(c, cfg.ids) = Place(x.of, {y.of : y \in cfg.outs})}

-----------------------------------------------------------------------------
(* The local variables of a request.                                       *)
NewOp(kind) ==
    [kind |-> kind, pc |-> "start",
     con |-> {},     \* the connect to be removed
     bal |-> {},     \* the balancer at hand
     ids |-> {},     \* connectIds asked for, or left
     rows |-> {},    \* existingConnects, poolConnects
     aff |-> {},     \* affected balancers, as read
     todo |-> {},    \* groups to look up
     include |-> {}, \* groups the user has switched on
     acc |-> {},     \* accessibleConnectIds
     seen |-> {},    \* balancers among seenConnectIds
     items |-> {},   \* balancers of the feed so far
     solo |-> DOMAIN ops = {}]

Init ==
    /\ \E n \in Nodes :
          conn = [c \in Conns |-> [node |-> n, active |-> TRUE, groups |-> Placed[c]]]
    /\ pool = None
    /\ entry = None
    /\ unused = Bals
    /\ ops = None
    /\ budget = Budget
    /\ serial = TRUE
    /\ crashed = FALSE

Begin(o, op) ==
    /\ o \in Slots \ DOMAIN ops
    /\ ops' = [q \in DOMAIN ops \cup {o} |->
                  IF q = o THEN op ELSE [ops[q] EXCEPT !.solo = FALSE]]
    /\ serial' = (serial /\ DOMAIN ops = {})
    /\ UNCHANGED <<conn, pool, entry, unused, budget, crashed>>

(* A request that is one write.                                            *)
AtOnce ==
    /\ budget > 0
    /\ budget' = budget - 1
    /\ ops' = [q \in DOMAIN ops |-> [ops[q] EXCEPT !.solo = FALSE]]
    /\ serial' = (serial /\ DOMAIN ops = {})
    /\ UNCHANGED crashed

Goto(o, op) == ops' = [ops EXCEPT ![o] = op] /\ UNCHANGED <<budget, serial, crashed>>
End(o) == ops' = Restrict(ops, DOMAIN ops \ {o}) /\ UNCHANGED <<budget, serial, crashed>>

(* A database call or the process fails between two steps.                 *)
Throw(o) ==
    /\ CanCrash
    /\ ops' = Restrict(ops, DOMAIN ops \ {o})
    /\ crashed' = TRUE
    /\ UNCHANGED <<conn, pool, entry, unused, budget, serial>>

-----------------------------------------------------------------------------
(* create: all connects asked for exist.                                   *)
BeginCreate(o, S) ==
    /\ S # {} /\ S \subseteq DOMAIN conn
    /\ Begin(o, [NewOp("create") EXCEPT !.pc = "createBalancer", !.rows = Rows(S)])

CreateBalancer(o, b) ==
    LET op == ops[o] IN
    /\ op.pc = "createBalancer" /\ b \in unused
    /\ pool' = [a \in DOMAIN pool \cup {b} |->
                   IF a = b THEN {x.id : x \in op.rows} ELSE pool[a]]
    /\ unused' = unused \ {b}
    /\ Goto(o, [op EXCEPT !.pc = "createEntry", !.bal = {b}])
    /\ UNCHANGED <<conn, entry>>

CreateEntry(o) ==
    LET op  == ops[o]
        row == [active |-> TRUE, groups |-> {Ungrouped}, cfg |-> Build(op.rows)]
    IN
    /\ op.pc = "createEntry"
    /\ entry' = [a \in DOMAIN entry \cup op.bal |-> IF a \in op.bal THEN row ELSE entry[a]]
    /\ End(o)
    /\ UNCHANGED <<conn, pool, unused>>

-----------------------------------------------------------------------------
(* update: without connectIds the pool stays, as read.                     *)
BeginUpdate(o, b, S) ==
    /\ b \in DOMAIN pool
    /\ Begin(o, [NewOp("update") EXCEPT !.pc = "find", !.bal = {b}, !.ids = S])

(* existingConnects of update; poolConnects of removeConnectFromAll-       *)
(* Balancers, which does not mind when none is left.                       *)
FindConnects(o) ==
    LET op == ops[o] IN
    /\ op.pc = "find"
    /\ IF op.kind = "update" /\ Rows(op.ids) = {}
       THEN End(o)
       ELSE Goto(o, [op EXCEPT !.rows = Rows(op.ids), !.ids = {},
                        !.pc = IF op.kind = "update" THEN "writePool" ELSE "writeEntry"])
    /\ UNCHANGED <<conn, pool, entry, unused>>

(* balancer.update throws when the balancer is gone.                       *)
WritePool(o) ==
    LET op == ops[o] IN
    /\ op.pc = "writePool"
    /\ pool' = [a \in DOMAIN pool |->
                   IF a \in op.bal THEN {x.id : x \in op.rows} ELSE pool[a]]
    /\ IF op.bal \subseteq DOMAIN pool THEN Goto(o, [op EXCEPT !.pc = "writeEntry"])
                                       ELSE End(o)
    /\ UNCHANGED <<conn, entry, unused>>

(* connect.updateMany({ balancerId }): no row, no error.                   *)
WriteEntry(o) ==
    LET op == ops[o] IN
    /\ op.pc = "writeEntry"
    /\ entry' = [a \in DOMAIN entry |->
                    IF a \in op.bal THEN [entry[a] EXCEPT !.cfg = Build(op.rows)]
                                    ELSE entry[a]]
    /\ IF op.kind = "update"
       THEN End(o)
       ELSE Goto(o, [op EXCEPT !.pc = "detach", !.bal = {}, !.rows = {}])
    /\ UNCHANGED <<conn, pool, unused>>

-----------------------------------------------------------------------------
(* ConnectsService.remove and removeConnectFromAllBalancers.               *)
BeginRemove(o, c) ==
    /\ c \in DOMAIN conn
    /\ Begin(o, [NewOp("remove") EXCEPT !.pc = "affected", !.con = {c}])

FindAffected(o) ==
    LET op == ops[o] IN
    /\ op.pc = "affected"
    /\ Goto(o, [op EXCEPT !.pc = "detach",
                   !.aff = {[bal |-> b, ids |-> pool[b]] :
                               b \in {b \in DOMAIN pool : op.con \subseteq pool[b]}}])
    /\ UNCHANGED <<conn, pool, entry, unused>>

(* Slip: the copy is not rebuilt.                                          *)
DetachOnly(o, a) ==
    LET op   == ops[o]
        left == a.ids \ op.con
    IN
    /\ op.pc = "detach" /\ a \in op.aff
    /\ a.bal \in DOMAIN pool /\ left # {}
    /\ pool' = [pool EXCEPT ![a.bal] = left]
    /\ Goto(o, [op EXCEPT !.aff = @ \ {a}])
    /\ UNCHANGED <<conn, entry, unused>>

(* Slip: the copy is rebuilt from the pool as it was.                      *)
DetachOld(o, a) ==
    LET op   == ops[o]
        left == a.ids \ op.con
        own  == {a.bal}
        next == [op EXCEPT !.aff = @ \ {a}]
    IN
    /\ op.pc = "detach" /\ a \in op.aff
    /\ a.bal \in DOMAIN pool /\ left # {}
    /\ pool' = [pool EXCEPT ![a.bal] = left]
    /\ Goto(o, [next EXCEPT !.pc = "find", !.bal = own, !.ids = a.ids])
    /\ UNCHANGED <<conn, entry, unused>>

(* One affected balancer loses the connect; with nothing left it goes, and *)
(* its connect with it (onDelete: Cascade).                                *)
Detach(o, a) ==
    LET op   == ops[o]
        left == a.ids \ op.con
        own  == {a.bal}
        next == [op EXCEPT !.aff = @ \ {a}]
    IN
    /\ op.pc = "detach" /\ a \in op.aff
    /\ IF a.bal \notin DOMAIN pool
       THEN End(o) /\ UNCHANGED <<pool, entry>>
       ELSE IF left = {}
       THEN /\ pool' = Restrict(pool, DOMAIN pool \ own)
            /\ entry' = Restrict(entry, DOMAIN entry \ own)
            /\ Goto(o, next)
       ELSE /\ pool' = [pool EXCEPT ![a.bal] = left]
            /\ Goto(o, [next EXCEPT !.pc = "find", !.bal = own, !.ids = left])
            /\ UNCHANGED entry
    /\ UNCHANGED <<conn, unused>>

DeleteConnect(o) ==
    LET op == ops[o] IN
    /\ op.pc = "detach" /\ op.aff = {}
    /\ conn' = Restrict(conn, DOMAIN conn \ op.con)
    /\ End(o)
    /\ UNCHANGED <<pool, entry, unused>>

-----------------------------------------------------------------------------
(* buildJsonFeedForPanelUser.  Access is collected over all groups of the  *)
(* user, switched on or not; then the connects of those switched on are    *)
(* read.                                                                   *)
BeginFeed(o, include) ==
    /\ include \subseteq Assigned
    /\ Cardinality({q \in DOMAIN ops : ops[q].kind = "feed"}) < MaxFeeds
    /\ Begin(o, [NewOp("feed") EXCEPT !.pc = "access", !.todo = Assigned, !.include = include])

(* Slip: groups switched off give no access.                               *)
AccessIncluded(o, g) ==
    LET op == ops[o] IN
    /\ op.pc = "access" /\ g \in op.todo
    /\ Goto(o, [op EXCEPT !.todo = @ \ {g},
          !.acc = @ \cup {c \in DOMAIN conn :
                             conn[c].active /\ g \in conn[c].groups \cap op.include}])
    /\ UNCHANGED <<conn, pool, entry, unused>>

Access(o, g) ==
    LET op == ops[o] IN
    /\ op.pc = "access" /\ g \in op.todo
    /\ Goto(o, [op EXCEPT !.todo = @ \ {g},
          !.acc = @ \cup {c \in DOMAIN conn : conn[c].active /\ g \in conn[c].groups}])
    /\ UNCHANGED <<conn, pool, entry, unused>>

AccessKnown(o) ==
    LET op == ops[o] IN
    /\ op.pc = "access" /\ op.todo = {}
    /\ Goto(o, [op EXCEPT !.pc = "batch", !.todo = op.include])
    /\ UNCHANGED <<conn, pool, entry, unused>>

(* Slip: a balancer in two groups is taken twice.                          *)
BatchAgain(o, g) ==
    LET op  == ops[o]
        new == {b \in DOMAIN entry : entry[b].active /\ g \in entry[b].groups}
    IN
    /\ op.pc = "batch" /\ g \in op.todo
    /\ Goto(o, [op EXCEPT !.todo = @ \ {g}, !.seen = @ \cup new,
          !.items = @ \cup {[bal |-> b, cfg |-> entry[b].cfg, outs |-> Kept(entry[b].cfg, op.acc)] :
                               b \in {b \in new : entry[b].cfg.ids \cap op.acc # {}}}])
    /\ UNCHANGED <<conn, pool, entry, unused>>

(* A balancer none of whose connects is accessible is left out.            *)
Batch(o, g) ==
    LET op  == ops[o]
        new == {b \in DOMAIN entry : entry[b].active /\ g \in entry[b].groups} \ op.seen
    IN
    /\ op.pc = "batch" /\ g \in op.todo
    /\ Goto(o, [op EXCEPT !.todo = @ \ {g}, !.seen = @ \cup new,
          !.items = @ \cup {[bal |-> b, cfg |-> entry[b].cfg, outs |-> Kept(entry[b].cfg, op.acc)] :
                               b \in {b \in new : entry[b].cfg.ids \cap op.acc # {}}}])
    /\ UNCHANGED <<conn, pool, entry, unused>>

Respond(o) ==
    /\ ops[o].pc = "batch" /\ ops[o].todo = {}
    /\ End(o)
    /\ UNCHANGED <<conn, pool, entry, unused>>

-----------------------------------------------------------------------------
(* remove: the balancer and its connect.                                   *)
RemoveBalancer(b) ==
    /\ b \in DOMAIN pool
    /\ pool' = Restrict(pool, DOMAIN pool \ {b})
    /\ entry' = Restrict(entry, DOMAIN entry \ {b})
    /\ AtOnce
    /\ UNCHANGED <<conn, unused>>

(* ConnectsService.remove of the connect of a balancer.                    *)
RemoveEntry(b) ==
    /\ b \in DOMAIN entry
    /\ entry' = Restrict(entry, DOMAIN entry \ {b})
    /\ AtOnce
    /\ UNCHANGED <<conn, pool, unused>>

(* toggleStatus, setConnectGroups, and the rawJson of a row renewed by a   *)
(* synchronisation or by updateRawJson.                                    *)
EditConnect(c) ==
    /\ c \in DOMAIN conn
    /\ \/ \E n \in Nodes : conn' = [conn EXCEPT ![c].node = n]
       \/ conn' = [conn EXCEPT ![c].active = ~ @]
       \/ \E gs \in Placing : conn' = [conn EXCEPT ![c].groups = gs]
    /\ AtOnce
    /\ UNCHANGED <<pool, entry, unused>>

EditEntry(b) ==
    /\ b \in DOMAIN entry
    /\ \/ entry' = [entry EXCEPT ![b].active = ~ @]
       \/ \E gs \in Placing : entry' = [entry EXCEPT ![b].groups = gs]
    /\ AtOnce
    /\ UNCHANGED <<conn, pool, unused>>

-----------------------------------------------------------------------------
Step(o) ==
    /\ o \in DOMAIN ops
    /\ \/ \E b \in Bals : CreateBalancer(o, b)
       \/ CreateEntry(o)
       \/ FindConnects(o) \/ WritePool(o) \/ WriteEntry(o)
       \/ FindAffected(o) \/ DeleteConnect(o)
       \/ \E a \in ops[o].aff : Detach(o, a)
       \/ \E g \in ops[o].todo : Access(o, g) \/ Batch(o, g)
       \/ AccessKnown(o) \/ Respond(o)

Request(o) ==
    \/ \E S \in SUBSET Conns : BeginCreate(o, S)
    \/ \E b \in DOMAIN pool : \E S \in {pool[b]} \cup SUBSET Conns : BeginUpdate(o, b, S)
    \/ \E c \in Conns : BeginRemove(o, c)
    \/ \E include \in SUBSET Assigned : BeginFeed(o, include)

Next ==
    \/ \E o \in Slots : Request(o) \/ Step(o)
    \/ \E o \in DOMAIN ops : Throw(o)
    \/ \E b \in Bals : RemoveBalancer(b) \/ RemoveEntry(b) \/ EditEntry(b)
    \/ \E c \in Conns : EditConnect(c)

Spec == Init /\ [][Next]_vars

-----------------------------------------------------------------------------
Out == [of: Conns, node: Nodes]

ConfigOK(cfg) ==
    /\ DOMAIN cfg = {"ids", "outs"}
    /\ cfg.ids \subseteq Conns /\ cfg.outs \subseteq Out
    /\ \A x \in cfg.outs : x.of \in cfg.ids
    /\ \A x, y \in cfg.outs : x.of = y.of => x = y

(* Types; a pool is never empty, and a config holds at most one outbound   *)
(* per id it lists.                                                        *)
Types ==
    /\ DOMAIN conn \subseteq Conns
    /\ conn \in [DOMAIN conn -> [node: Nodes, active: BOOLEAN, groups: Placing]]
    /\ DOMAIN pool \subseteq Bals \ unused
    /\ pool \in [DOMAIN pool -> (SUBSET Conns) \ {{}}]
    /\ DOMAIN entry \subseteq Bals \ unused
    /\ \A b \in DOMAIN entry : /\ entry[b].active \in BOOLEAN
                               /\ entry[b].groups \subseteq Groups
                               /\ ConfigOK(entry[b].cfg)
    /\ unused \subseteq Bals
    /\ DOMAIN ops \subseteq Slots
    /\ budget \in Nat
    /\ serial \in BOOLEAN /\ crashed \in BOOLEAN

Feeds == {ops[o] : o \in {o \in DOMAIN ops : ops[o].kind = "feed"}}

(* A balancer that is in several groups, or moves between them while the   *)
(* feed is built, is in the feed once (seenConnectIds).                    *)
OneItemEach == \A f \in Feeds : \A i, j \in f.items : i.bal = j.bal => i = j

(* Well-formed pools, copies and feeds, however requests overlap and stop. *)
TypeOK == Types /\ OneItemEach

(* Every id the config lists has its outbound.                             *)
Whole(cfg) == cfg.ids = {x.of : x \in cfg.outs}

(* However pools, copies and rows change while a feed is built, a balancer *)
(* in it connects only to what the feed found accessible, provided all of  *)
(* its pool could be converted (filterBalancerForUser).                    *)
WholePoolFiltered ==
    \A f \in Feeds : \A i \in f.items :
        Whole(i.cfg) => \A x \in i.outs : x.of \in f.acc

(* A feed nothing overlaps with holds of each balancer exactly the pool    *)
(* members the user has access to, whichever of the assigned groups the    *)
(* user has switched off (comment on assignedNames).                       *)
Accessible(c) == c \in DOMAIN conn /\ conn[c].active /\ conn[c].groups \cap Assigned # {}

SoloFeedExact ==
    \A f \in Feeds : f.solo =>
        \A b \in f.seen :
            LET cfg == entry[b].cfg
                own == {x \in cfg.outs : Accessible(x.of)}
            IN Whole(cfg) => {i.outs : i \in {i \in f.items : i.bal = b}}
                                = IF own = {} THEN {} ELSE {own}

(* Requests that neither overlap nor stop half-way leave the copies in     *)
(* step with the pools, and pools without connects that are gone.          *)
InStep ==
    /\ DOMAIN entry \subseteq DOMAIN pool
    /\ \A b \in DOMAIN entry : entry[b].cfg.ids = pool[b]
    /\ \A b \in DOMAIN pool : pool[b] # {} /\ pool[b] \subseteq DOMAIN conn

SerialInStep == serial /\ ~ crashed /\ DOMAIN ops = {} => InStep

(* A copy rebuilt by a request nothing overlaps with is made of the rows   *)
(* as they are and lists the pool, whatever was in disorder before.        *)
SoloRebuild ==
    [][\A o \in DOMAIN ops :
          ops[o].pc = "writeEntry" /\ WriteEntry(o) /\ ops[o].solo =>
              \A b \in ops[o].bal \cap DOMAIN entry :
                  /\ entry'[b].cfg = Build(Rows(pool'[b]))
                  /\ ops[o].kind = "update" => entry'[b].cfg.ids = pool'[b]]_vars

-----------------------------------------------------------------------------
(* Said by the comment on accessibleConnectIds, and not kept: a balancer   *)
(* never leads to a connect of a group the user was not given.             *)
OnlyAssigned == \A f \in Feeds : \A i \in f.items : \A x \in i.outs : x.of \in f.acc
=============================================================================
