--------------------------- MODULE Balancers_proofs ---------------------------
(***************************************************************************)
(* Type correctness of module Balancers, and that a balancer all of whose  *)
(* pool could be converted leads, in a feed, only to connects the feed     *)
(* found accessible.  The argument for the second is about places in       *)
(* lists: in a set of numbers no two elements have the same place, so the  *)
(* k-th outbound of a whole config is that of the k-th id.  Then what a    *)
(* feed and a rebuild that nothing overlaps with give, and that requests   *)
(* which take turns leave the copies in step with the pools.               *)
(***************************************************************************)
EXTENDS Balancers, FiniteSetTheorems, TLAPS

Row == [id: Conns, node: Nodes]

(* Two rows never have the same id.                                        *)
RowsOK(rows) ==
    /\ rows \subseteq Row
    /\ \A x, y \in rows : x.id = y.id => x = y

Config == [ids: SUBSET Conns, outs: SUBSET Out]
Item == [bal: Bals, cfg: Config, outs: SUBSET Out]

(* An item was cut out of a config by filterBalancerForUser.               *)
ItemOK(i, acc) ==
    /\ i \in Item
    /\ ConfigOK(i.cfg)
    /\ i.outs = Kept(i.cfg, acc)

Kinds == {"create", "update", "remove", "feed"}
Places == {"start", "createBalancer", "createEntry", "find", "writePool", "writeEntry",
           "affected", "detach", "access", "batch"}

Op == [kind: Kinds, pc: Places, con: SUBSET Conns, bal: SUBSET Bals, ids: SUBSET Conns,
       rows: SUBSET Row, aff: SUBSET [bal: Bals, ids: SUBSET Conns],
       todo: SUBSET Groups, include: SUBSET Groups, acc: SUBSET Conns,
       seen: SUBSET Bals, items: SUBSET Item, solo: BOOLEAN]

OpOK(op) ==
    /\ op \in Op
    /\ RowsOK(op.rows)
    /\ op.pc \in {"createBalancer", "createEntry", "writePool"} => op.rows # {}
    /\ op.pc = "access" => op.items = {}
    /\ \A i \in op.items : ItemOK(i, op.acc) /\ i.bal \in op.seen
    /\ \A i, j \in op.items : i.bal = j.bal => i = j

Tables ==
    /\ DOMAIN conn \subseteq Conns
    /\ conn \in [DOMAIN conn -> [node: Nodes, active: BOOLEAN, groups: Placing]]
    /\ DOMAIN pool \subseteq Bals \ unused
    /\ pool \in [DOMAIN pool -> (SUBSET Conns) \ {{}}]
    /\ DOMAIN entry \subseteq Bals \ unused
    /\ entry \in [DOMAIN entry -> [active: BOOLEAN, groups: SUBSET Groups, cfg: Config]]
    /\ \A b \in DOMAIN entry : ConfigOK(entry[b].cfg)
    /\ unused \subseteq Bals
    /\ budget \in Nat

OpsOK ==
    /\ DOMAIN ops \subseteq Slots
    /\ \A o \in DOMAIN ops : OpOK(ops[o]) /\ ops[o].bal \subseteq Bals \ unused
    /\ serial \in BOOLEAN /\ crashed \in BOOLEAN

IInv == Tables /\ OpsOK

-----------------------------------------------------------------------------
(* Places in a list of ids.                                                *)
LEMMA PlaceInjective ==
    ASSUME NEW S, S \subseteq Nat, IsFiniteSet(S),
           NEW c \in S, NEW d \in S, Place(c, S) = Place(d, S)
    PROVE  c = d
  <1>1. ASSUME NEW x \in S, NEW y \in S, x < y
        PROVE  Place(x, S) # Place(y, S)
    <2> DEFINE X == {z \in S : z <= x}
               Y == {z \in S : z <= y}
    <2>0. /\ \A z \in S : z \in Nat /\ (z <= x => z <= y)
          /\ y <= y /\ ~ (y <= x)
      BY <1>1
    <2>1. X \subseteq Y /\ y \in Y /\ y \notin X
      BY <2>0
    <2>2. IsFiniteSet(Y)
      BY FS_Subset
    <2>3. Cardinality(X) # Cardinality(Y)
      BY <2>1, <2>2, FS_Subset
    <2> QED
      BY <2>3 DEF Place
  <1>2. c \in Nat /\ d \in Nat
    OBVIOUS
  <1>3. c < d \/ d < c \/ c = d
    BY <1>2
  <1> QED
    BY <1>1, <1>3

(* filterBalancerForUser on a whole config.                                *)
LEMMA KeptAccessible ==
    ASSUME NEW cfg, ConfigOK(cfg), Whole(cfg), NEW acc, NEW x \in Kept(cfg, acc)
    PROVE  x \in cfg.outs /\ x.of \in acc
  <1>1. CASE cfg.ids \subseteq acc
    BY <1>1 DEF Kept, ConfigOK
  <1>2. CASE ~ (cfg.ids \subseteq acc)
    <2>1. x \in cfg.outs
      BY <1>2 DEF Kept
    <2>2. PICK c \in cfg.ids \cap acc : Place(c, cfg.ids) = Place(x.of, {y.of : y \in cfg.outs})
      BY <1>2 DEF Kept
    <2>3. Place(c, cfg.ids) = Place(x.of, cfg.ids)
      BY <2>2 DEF Whole
    <2>4. x.of \in cfg.ids
      BY <2>1 DEF ConfigOK
    <2>5. cfg.ids \subseteq Nat /\ IsFiniteSet(cfg.ids)
      BY BalancersAssumption, FS_Subset DEF ConfigOK
    <2>6. c = x.of
      BY <2>2, <2>3, <2>4, <2>5, PlaceInjective
    <2> QED
      BY <2>1, <2>6
  <1> QED
    BY <1>1, <1>2

(* What stays of a config is part of it.                                   *)
LEMMA KeptSubset ==
    ASSUME NEW cfg, NEW acc
    PROVE  Kept(cfg, acc) \subseteq cfg.outs
  BY DEF Kept

(* buildSelectorOutbound makes a config with one outbound at most per id.  *)
LEMMA BuildOK ==
    ASSUME NEW rows, RowsOK(rows)
    PROVE  Build(rows) \in Config /\ ConfigOK(Build(rows))
  <1> DEFINE ids  == {x.id : x \in rows}
             outs == {[of |-> x.id, node |-> x.node] : x \in {y \in rows : y.id \notin Opaque}}
  <1>1. ids \subseteq Conns /\ outs \subseteq Out
    BY DEF RowsOK, Row, Out
  <1>2. \A o \in outs : \E x \in rows : o = [of |-> x.id, node |-> x.node]
    OBVIOUS
  <1>3. \A o \in outs : o.of \in ids
    BY <1>2
  <1>4. ASSUME NEW o \in outs, NEW p \in outs, o.of = p.of
        PROVE  o = p
    <2>1. PICK x \in rows : o = [of |-> x.id, node |-> x.node]
      BY <1>2
    <2>2. PICK y \in rows : p = [of |-> y.id, node |-> y.node]
      BY <1>2
    <2>3. x.id = y.id
      BY <1>4, <2>1, <2>2
    <2> QED
      BY <2>1, <2>2, <2>3 DEF RowsOK
  <1>5. Build(rows) = [ids |-> ids, outs |-> outs]
    BY DEF Build
  <1> HIDE DEF ids, outs
  <1>6. Build(rows) \in Config
    BY <1>1, <1>5 DEF Config
  <1>7. DOMAIN Build(rows) = {"ids", "outs"} /\ Build(rows).ids = ids /\ Build(rows).outs = outs
    BY <1>5
  <1> QED
    BY <1>1, <1>3, <1>4, <1>6, <1>7 DEF ConfigOK

(* connect.findMany                                                        *)
LEMMA FoundRows ==
    ASSUME Tables, NEW S
    PROVE  /\ RowsOK(Rows(S))
           /\ S # {} /\ S \subseteq DOMAIN conn => Rows(S) # {}
  <1>1. \A c \in DOMAIN conn : c \in Conns /\ conn[c].node \in Nodes
    BY DEF Tables
  <1>2. \A x \in Rows(S) : \E c \in S \cap DOMAIN conn : x = [id |-> c, node |-> conn[c].node]
    BY DEF Rows
  <1>3. RowsOK(Rows(S))
    BY <1>1, <1>2 DEF RowsOK, Row
  <1>4. ASSUME S # {}, S \subseteq DOMAIN conn
        PROVE  Rows(S) # {}
    BY <1>4 DEF Rows
  <1> QED
    BY <1>3, <1>4

-----------------------------------------------------------------------------
(* How requests start, go on and end.                                      *)
LEMMA SoloOK ==
    ASSUME NEW op, OpOK(op)
    PROVE  OpOK([op EXCEPT !.solo = FALSE]) /\ [op EXCEPT !.solo = FALSE].bal = op.bal
  <1> DEFINE new == [op EXCEPT !.solo = FALSE]
  <1>1. op \in Op
    BY DEF OpOK
  <1>2. /\ new \in Op
        /\ new.pc = op.pc /\ new.bal = op.bal /\ new.rows = op.rows
        /\ new.acc = op.acc /\ new.seen = op.seen /\ new.items = op.items
    BY <1>1 DEF Op
  <1> HIDE DEF new
  <1>3. OpOK(new) /\ new.bal = op.bal
    BY <1>2 DEF OpOK
  <1> QED
    BY <1>3 DEF new

LEMMA GotoOK ==
    ASSUME OpsOK, unused' \subseteq unused, NEW o \in DOMAIN ops,
           NEW op, OpOK(op), op.bal \subseteq Bals \ unused', Goto(o, op)
    PROVE  OpsOK'
  BY DEF OpsOK, Goto

LEMMA EndOK ==
    ASSUME OpsOK, unused' \subseteq unused, NEW o \in DOMAIN ops, End(o)
    PROVE  OpsOK'
  BY DEF OpsOK, End, Restrict

LEMMA AtOnceOK ==
    ASSUME OpsOK, unused' = unused, AtOnce
    PROVE  OpsOK'
  <1>1. \A q \in DOMAIN ops : /\ OpOK([ops[q] EXCEPT !.solo = FALSE])
                              /\ [ops[q] EXCEPT !.solo = FALSE].bal = ops[q].bal
    BY SoloOK DEF OpsOK
  <1> QED
    BY <1>1 DEF OpsOK, AtOnce

LEMMA BeginOK ==
    ASSUME IInv, NEW o \in Slots, NEW op, OpOK(op), op.bal \subseteq Bals \ unused,
           Begin(o, op)
    PROVE  IInv'
  <1>1. \A q \in DOMAIN ops : /\ OpOK([ops[q] EXCEPT !.solo = FALSE])
                              /\ [ops[q] EXCEPT !.solo = FALSE].bal = ops[q].bal
    BY SoloOK DEF IInv, OpsOK
  <1>2. OpsOK'
    BY <1>1 DEF IInv, OpsOK, Begin
  <1>3. Tables'
    BY DEF IInv, Tables, Begin
  <1> QED
    BY <1>2, <1>3 DEF IInv

(* The fresh local variables of a request.                                 *)
LEMMA NewOpType ==
    ASSUME NEW k \in Kinds
    PROVE  /\ NewOp(k) \in Op
           /\ NewOp(k).rows = {} /\ NewOp(k).items = {} /\ NewOp(k).bal = {}
  <1> DEFINE op(b) ==
              [kind |-> k, pc |-> "start", con |-> {}, bal |-> {}, ids |-> {}, rows |-> {},
               aff |-> {}, todo |-> {}, include |-> {}, acc |-> {}, seen |-> {},
               items |-> {}, solo |-> b]
  <1>1. \A b \in BOOLEAN : op(b) \in Op /\ op(b).rows = {} /\ op(b).items = {} /\ op(b).bal = {}
    BY DEF Op, Places
  <1>2. NewOp(k) = op(DOMAIN ops = {})
    BY DEF NewOp
  <1>3. (DOMAIN ops = {}) \in BOOLEAN
    OBVIOUS
  <1> QED
    BY <1>1, <1>2, <1>3

(* Requests at their first step.                                           *)
LEMMA RequestOK ==
    ASSUME IInv, NEW o \in Slots, Request(o)
    PROVE  IInv'
  <1> USE DEF IInv
  <1>1. ASSUME NEW S \in SUBSET Conns, BeginCreate(o, S)
        PROVE  IInv'
    <2> DEFINE rows == Rows(S)
               op == [NewOp("create") EXCEPT !.pc = "createBalancer", !.rows = rows]
    <2>1. RowsOK(rows) /\ rows # {}
      BY <1>1, FoundRows DEF BeginCreate
    <2>2. NewOp("create") \in Op /\ NewOp("create").items = {} /\ NewOp("create").bal = {}
      BY NewOpType DEF Kinds
    <2>3. rows \subseteq Row
      BY <2>1 DEF RowsOK
    <2> HIDE DEF rows
    <2>4. op \in Op /\ op.pc = "createBalancer" /\ op.rows = rows /\ op.items = {} /\ op.bal = {}
      BY <2>2, <2>3 DEF Op, Places
    <2>5. Begin(o, op)
      BY <1>1 DEF BeginCreate, rows
    <2> HIDE DEF op
    <2>6. OpOK(op)
      BY <2>1, <2>4 DEF OpOK
    <2> QED
      BY <2>4, <2>5, <2>6, BeginOK
  <1>2. ASSUME NEW b \in DOMAIN pool, NEW S \in {pool[b]} \cup SUBSET Conns, BeginUpdate(o, b, S)
        PROVE  IInv'
    <2> DEFINE op == [NewOp("update") EXCEPT !.pc = "find", !.bal = {b}, !.ids = S]
    <2>1. b \in Bals \ unused /\ S \in SUBSET Conns
      BY DEF Tables
    <2>2. /\ NewOp("update") \in Op
          /\ NewOp("update").items = {} /\ NewOp("update").rows = {}
      BY NewOpType DEF Kinds
    <2>3. op \in Op /\ op.pc = "find" /\ op.rows = {} /\ op.items = {} /\ op.bal = {b}
      BY <2>1, <2>2 DEF Op, Places
    <2>4. Begin(o, op)
      BY <1>2 DEF BeginUpdate
    <2> HIDE DEF op
    <2>5. OpOK(op)
      BY <2>3 DEF OpOK, RowsOK
    <2> QED
      BY <2>1, <2>3, <2>4, <2>5, BeginOK
  <1>3. ASSUME NEW c \in Conns, BeginRemove(o, c)
        PROVE  IInv'
    <2> DEFINE op == [NewOp("remove") EXCEPT !.pc = "affected", !.con = {c}]
    <2>1. /\ NewOp("remove") \in Op /\ NewOp("remove").bal = {}
          /\ NewOp("remove").items = {} /\ NewOp("remove").rows = {}
      BY NewOpType DEF Kinds
    <2>2. op \in Op /\ op.pc = "affected" /\ op.rows = {} /\ op.items = {} /\ op.bal = {}
      BY <2>1 DEF Op, Places
    <2>3. Begin(o, op)
      BY <1>3 DEF BeginRemove
    <2> HIDE DEF op
    <2>4. OpOK(op)
      BY <2>2 DEF OpOK, RowsOK
    <2> QED
      BY <2>2, <2>3, <2>4, BeginOK
  <1>4. ASSUME NEW include \in SUBSET Assigned, BeginFeed(o, include)
        PROVE  IInv'
    <2> DEFINE op == [NewOp("feed") EXCEPT !.pc = "access", !.todo = Assigned,
                                           !.include = include]
    <2>1. /\ NewOp("feed") \in Op /\ NewOp("feed").bal = {}
          /\ NewOp("feed").items = {} /\ NewOp("feed").rows = {}
      BY NewOpType DEF Kinds
    <2>2. Assigned \in SUBSET Groups /\ include \in SUBSET Groups
      BY BalancersAssumption
    <2>3. op \in Op /\ op.pc = "access" /\ op.rows = {} /\ op.items = {} /\ op.bal = {}
      BY <2>1, <2>2 DEF Op, Places
    <2>4. Begin(o, op)
      BY <1>4 DEF BeginFeed
    <2> HIDE DEF op
    <2>5. OpOK(op)
      BY <2>3 DEF OpOK, RowsOK
    <2> QED
      BY <2>3, <2>4, <2>5, BeginOK
  <1> QED
    BY <1>1, <1>2, <1>3, <1>4 DEF Request

-----------------------------------------------------------------------------
LEMMA RowIds ==
    ASSUME NEW rows, RowsOK(rows)
    PROVE  /\ {x.id : x \in rows} \subseteq Conns
           /\ rows # {} => {x.id : x \in rows} # {}
  BY DEF RowsOK, Row

(* The steps of create.                                                    *)
LEMMA CreateOK ==
    ASSUME IInv, NEW o \in DOMAIN ops, (\E b \in Bals : CreateBalancer(o, b)) \/ CreateEntry(o)
    PROVE  IInv'
  <1> DEFINE op == ops[o]
  <1>1. Tables /\ OpsOK /\ OpOK(op) /\ op \in Op /\ op.bal \subseteq Bals \ unused
    BY DEF IInv, OpsOK, OpOK
  <1>2. ASSUME NEW b \in Bals, CreateBalancer(o, b)
        PROVE  IInv'
    <2> DEFINE new == [op EXCEPT !.pc = "createEntry", !.bal = {b}]
               ids == {x.id : x \in op.rows}
    <2>1. op.pc = "createBalancer" /\ op.rows # {} /\ RowsOK(op.rows)
      BY <1>1, <1>2 DEF CreateBalancer, OpOK
    <2>2. ids \in (SUBSET Conns) \ {{}}
      BY <2>1, RowIds
    <2>3. /\ new \in Op /\ new.pc = "createEntry" /\ new.bal = {b}
          /\ new.rows = op.rows /\ new.items = op.items /\ new.acc = op.acc /\ new.seen = op.seen
      BY <1>1 DEF Op, Places
    <2>4. /\ Goto(o, new)
          /\ pool' = [a \in DOMAIN pool \cup {b} |-> IF a = b THEN ids ELSE pool[a]]
          /\ unused' = unused \ {b} /\ conn' = conn /\ entry' = entry /\ budget' = budget
      BY <1>2 DEF CreateBalancer, Goto
    <2> HIDE DEF new, ids
    <2>5. OpOK(new)
      BY <1>1, <2>1, <2>3 DEF OpOK
    <2>6. OpsOK'
      BY <1>1, <2>3, <2>4, <2>5, GotoOK
    <2>7. Tables'
      BY <1>1, <2>2, <2>4 DEF Tables
    <2> QED
      BY <2>6, <2>7 DEF IInv
  <1>3. CASE CreateEntry(o)
    <2> DEFINE cfg == Build(op.rows)
               row == [active |-> TRUE, groups |-> {Ungrouped}, cfg |-> cfg]
    <2>1. cfg \in Config /\ ConfigOK(cfg)
      BY <1>1, BuildOK DEF OpOK
    <2> HIDE DEF cfg
    <2>2. /\ row \in [active: BOOLEAN, groups: SUBSET Groups, cfg: Config]
          /\ row.cfg = cfg
      BY <2>1, BalancersAssumption
    <2>3. /\ entry' = [a \in DOMAIN entry \cup op.bal |->
                          IF a \in op.bal THEN row ELSE entry[a]]
          /\ End(o) /\ conn' = conn /\ pool' = pool /\ unused' = unused /\ budget' = budget
      BY <1>3 DEF CreateEntry, End, cfg
    <2> HIDE DEF row
    <2>4. Tables'
      BY <1>1, <2>1, <2>2, <2>3 DEF Tables
    <2>5. OpsOK'
      BY <1>1, <2>3, EndOK
    <2> QED
      BY <2>4, <2>5 DEF IInv
  <1> QED
    BY <1>2, <1>3

(* The steps update and the removal of a connect share.                    *)
LEMMA RebuildOK ==
    ASSUME IInv, NEW o \in DOMAIN ops, FindConnects(o) \/ WritePool(o) \/ WriteEntry(o)
    PROVE  IInv'
  <1> DEFINE op == ops[o]
  <1>1. Tables /\ OpsOK /\ OpOK(op) /\ op \in Op /\ op.bal \subseteq Bals \ unused
    BY DEF IInv, OpsOK, OpOK
  <1>2. CASE FindConnects(o)
    <2> DEFINE rows == Rows(op.ids)
               pc   == IF op.kind = "update" THEN "writePool" ELSE "writeEntry"
               new  == [op EXCEPT !.rows = rows, !.ids = {}, !.pc = pc]
    <2>1. RowsOK(rows)
      BY <1>1, FoundRows
    <2>2. UNCHANGED <<conn, pool, entry, unused, budget>>
      BY <1>2 DEF FindConnects, End, Goto
    <2>3. Tables'
      BY <1>1, <2>2 DEF Tables
    <2>4. End(o) \/ (Goto(o, new) /\ (pc = "writePool" => rows # {}))
      BY <1>2 DEF FindConnects
    <2>5. pc \in {"writePool", "writeEntry"} /\ rows \subseteq Row
      BY <2>1 DEF RowsOK
    <2> HIDE DEF rows, pc
    <2>6. /\ new \in Op /\ new.pc = pc /\ new.rows = rows /\ new.bal = op.bal
          /\ new.items = op.items /\ new.acc = op.acc /\ new.seen = op.seen
      BY <1>1, <2>5 DEF Op, Places
    <2> HIDE DEF new
    <2>7. CASE End(o)
      BY <1>1, <2>2, <2>3, <2>7, EndOK DEF IInv
    <2>8. CASE Goto(o, new) /\ (pc = "writePool" => rows # {})
      <3>1. OpOK(new)
        BY <1>1, <2>1, <2>5, <2>6, <2>8 DEF OpOK
      <3> QED
        BY <1>1, <2>2, <2>3, <2>6, <2>8, <3>1, GotoOK DEF IInv
    <2> QED
      BY <2>4, <2>7, <2>8
  <1>3. CASE WritePool(o)
    <2> DEFINE new == [op EXCEPT !.pc = "writeEntry"]
               ids == {x.id : x \in op.rows}
    <2>1. op.pc = "writePool" /\ op.rows # {} /\ RowsOK(op.rows)
      BY <1>1, <1>3 DEF WritePool, OpOK
    <2>2. ids \in (SUBSET Conns) \ {{}}
      BY <2>1, RowIds
    <2>3. /\ pool' = [a \in DOMAIN pool |-> IF a \in op.bal THEN ids ELSE pool[a]]
          /\ UNCHANGED <<conn, entry, unused, budget>>
          /\ End(o) \/ Goto(o, new)
      BY <1>3 DEF WritePool, End, Goto
    <2>4. /\ new \in Op /\ new.pc = "writeEntry" /\ new.rows = op.rows /\ new.bal = op.bal
          /\ new.items = op.items /\ new.acc = op.acc /\ new.seen = op.seen
      BY <1>1 DEF Op, Places
    <2> HIDE DEF new, ids
    <2>5. OpOK(new)
      BY <1>1, <2>4 DEF OpOK
    <2>6. Tables'
      BY <1>1, <2>2, <2>3 DEF Tables
    <2> QED
      BY <1>1, <2>3, <2>4, <2>5, <2>6, GotoOK, EndOK DEF IInv
  <1>4. CASE WriteEntry(o)
    <2> DEFINE cfg == Build(op.rows)
               new == [op EXCEPT !.pc = "detach", !.bal = {}, !.rows = {}]
    <2>1. cfg \in Config /\ ConfigOK(cfg)
      BY <1>1, BuildOK DEF OpOK
    <2> HIDE DEF cfg
    <2>2. /\ entry' = [a \in DOMAIN entry |-> IF a \in op.bal THEN [entry[a] EXCEPT !.cfg = cfg]
                                                             ELSE entry[a]]
          /\ UNCHANGED <<conn, pool, unused, budget>>
          /\ End(o) \/ Goto(o, new)
      BY <1>4 DEF WriteEntry, End, Goto, cfg
    <2>3. \A a \in DOMAIN entry :
             /\ [entry[a] EXCEPT !.cfg = cfg] \in [active: BOOLEAN, groups: SUBSET Groups, cfg: Config]
             /\ [entry[a] EXCEPT !.cfg = cfg].cfg = cfg
      BY <1>1, <2>1 DEF Tables
    <2>4. Tables'
      BY <1>1, <2>1, <2>2, <2>3 DEF Tables
    <2>5. /\ new \in Op /\ new.pc = "detach" /\ new.rows = {} /\ new.bal = {}
          /\ new.items = op.items /\ new.acc = op.acc /\ new.seen = op.seen
      BY <1>1 DEF Op, Places
    <2> HIDE DEF new
    <2>6. OpOK(new)
      BY <1>1, <2>5 DEF OpOK, RowsOK
    <2> QED
      BY <1>1, <2>2, <2>4, <2>5, <2>6, GotoOK, EndOK DEF IInv
  <1> QED
    BY <1>2, <1>3, <1>4

(* The steps of ConnectsService.remove.                                    *)
LEMMA RemoveOK ==
    ASSUME IInv, NEW o \in DOMAIN ops,
           FindAffected(o) \/ DeleteConnect(o) \/ \E a \in ops[o].aff : Detach(o, a)
    PROVE  IInv'
  <1> DEFINE op == ops[o]
  <1>1. Tables /\ OpsOK /\ OpOK(op) /\ op \in Op /\ op.bal \subseteq Bals \ unused
    BY DEF IInv, OpsOK, OpOK
  <1>2. CASE FindAffected(o)
    <2> DEFINE aff == {[bal |-> b, ids |-> pool[b]] : b \in {b \in DOMAIN pool : op.con \subseteq pool[b]}}
               new == [op EXCEPT !.pc = "detach", !.aff = aff]
    <2>1. aff \subseteq [bal: Bals, ids: SUBSET Conns]
      <3>1. \A b \in DOMAIN pool : b \in Bals /\ pool[b] \in SUBSET Conns
        BY <1>1 DEF Tables
      <3> QED
        BY <3>1
    <2>2. Goto(o, new) /\ UNCHANGED <<conn, pool, entry, unused, budget>>
      BY <1>2 DEF FindAffected, Goto
    <2> HIDE DEF aff
    <2>3. /\ new \in Op /\ new.pc = "detach" /\ new.rows = op.rows /\ new.bal = op.bal
          /\ new.items = op.items /\ new.acc = op.acc /\ new.seen = op.seen
      BY <1>1, <2>1 DEF Op, Places
    <2> HIDE DEF new
    <2>4. OpOK(new)
      BY <1>1, <2>3 DEF OpOK
    <2>5. Tables'
      BY <1>1, <2>2 DEF Tables
    <2> QED
      BY <1>1, <2>2, <2>3, <2>4, <2>5, GotoOK DEF IInv
  <1>3. CASE DeleteConnect(o)
    <2>1. /\ conn' = Restrict(conn, DOMAIN conn \ op.con) /\ End(o)
          /\ UNCHANGED <<pool, entry, unused, budget>>
      BY <1>3 DEF DeleteConnect, End
    <2>2. Tables'
      BY <1>1, <2>1 DEF Tables, Restrict
    <2> QED
      BY <1>1, <2>1, <2>2, EndOK DEF IInv
  <1>4. ASSUME NEW a \in op.aff, Detach(o, a)
        PROVE  IInv'
    <2> DEFINE left == a.ids \ op.con
               own  == {a.bal}
               next == [op EXCEPT !.aff = op.aff \ {a}]
               new  == [op EXCEPT !.aff = op.aff \ {a}, !.pc = "find", !.bal = own, !.ids = left]
    <2>1. a.bal \in Bals /\ a.ids \in SUBSET Conns
      BY <1>1 DEF Op
    <2>2. left \in SUBSET Conns /\ own \in SUBSET Bals
      BY <2>1
    <2>3. UNCHANGED <<conn, unused, budget>>
      BY <1>4 DEF Detach, End, Goto
    <2>4. CASE a.bal \notin DOMAIN pool
      <3>1. End(o) /\ UNCHANGED <<pool, entry>>
        BY <1>4, <2>4 DEF Detach
      <3>2. Tables'
        BY <1>1, <2>3, <3>1 DEF Tables
      <3> QED
        BY <1>1, <2>3, <3>1, <3>2, EndOK DEF IInv
    <2>5. CASE a.bal \in DOMAIN pool /\ left = {}
      <3>1. /\ pool' = Restrict(pool, DOMAIN pool \ own)
            /\ entry' = Restrict(entry, DOMAIN entry \ own)
            /\ Goto(o, next)
        BY <1>4, <2>5 DEF Detach
      <3>2. /\ next \in Op /\ next.pc = op.pc /\ next.rows = op.rows /\ next.bal = op.bal
            /\ next.items = op.items /\ next.acc = op.acc /\ next.seen = op.seen
        BY <1>1 DEF Op
      <3> HIDE DEF next
      <3>3. OpOK(next)
        BY <1>1, <3>2 DEF OpOK
      <3>4. Tables'
        BY <1>1, <2>3, <3>1 DEF Tables, Restrict
      <3> QED
        BY <1>1, <2>3, <3>1, <3>2, <3>3, <3>4, GotoOK DEF IInv
    <2>6. CASE a.bal \in DOMAIN pool /\ left # {}
      <3>1. pool' = [pool EXCEPT ![a.bal] = left] /\ Goto(o, new) /\ entry' = entry
        BY <1>4, <2>6 DEF Detach
      <3>2. a.bal \in Bals \ unused
        BY <1>1, <2>6 DEF Tables
      <3> HIDE DEF left
      <3>3. Tables'
        BY <1>1, <2>2, <2>3, <2>6, <3>1 DEF Tables
      <3>4. /\ new \in Op /\ new.pc = "find" /\ new.rows = op.rows /\ new.bal = {a.bal}
            /\ new.items = op.items /\ new.acc = op.acc /\ new.seen = op.seen
        BY <1>1, <2>2 DEF Op, Places
      <3> HIDE DEF new
      <3>5. OpOK(new)
        BY <1>1, <3>4 DEF OpOK
      <3> QED
        BY <1>1, <2>3, <3>1, <3>2, <3>3, <3>4, <3>5, GotoOK DEF IInv
    <2> QED
      BY <2>4, <2>5, <2>6
  <1> QED
    BY <1>2, <1>3, <1>4

(* The steps of a feed.                                                    *)
LEMMA FeedOK ==
    ASSUME IInv, NEW o \in DOMAIN ops,
           \/ \E g \in ops[o].todo : Access(o, g) \/ Batch(o, g)
           \/ AccessKnown(o) \/ Respond(o)
    PROVE  IInv'
  <1> DEFINE op == ops[o]
  <1>1. Tables /\ OpsOK /\ OpOK(op) /\ op \in Op /\ op.bal \subseteq Bals \ unused
    BY DEF IInv, OpsOK, OpOK
  <1>2. UNCHANGED <<conn, pool, entry, unused, budget>>
    BY DEF Access, Batch, AccessKnown, Respond, Goto, End
  <1>3. Tables'
    BY <1>1, <1>2 DEF Tables
  <1>4. ASSUME NEW g \in op.todo, Access(o, g)
        PROVE  IInv'
    <2> DEFINE more == {c \in DOMAIN conn : conn[c].active /\ g \in conn[c].groups}
               new  == [op EXCEPT !.todo = op.todo \ {g}, !.acc = op.acc \cup more]
    <2>1. more \subseteq Conns
      BY <1>1 DEF Tables
    <2>2. op.pc = "access" /\ Goto(o, new)
      BY <1>4 DEF Access
    <2> HIDE DEF more
    <2>3. /\ new \in Op /\ new.pc = op.pc /\ new.rows = op.rows /\ new.bal = op.bal
          /\ new.items = op.items
      BY <1>1, <2>1 DEF Op
    <2> HIDE DEF new
    <2>4. OpOK(new)
      BY <1>1, <2>2, <2>3 DEF OpOK
    <2> QED
      BY <1>1, <1>2, <1>3, <2>2, <2>3, <2>4, GotoOK DEF IInv
  <1>5. ASSUME NEW g \in op.todo, Batch(o, g)
        PROVE  IInv'
    <2> DEFINE seen  == {b \in DOMAIN entry : entry[b].active /\ g \in entry[b].groups} \ op.seen
               item(b) == [bal |-> b, cfg |-> entry[b].cfg, outs |-> Kept(entry[b].cfg, op.acc)]
               more  == {item(b) : b \in {b \in seen : entry[b].cfg.ids \cap op.acc # {}}}
               new   == [op EXCEPT !.todo = op.todo \ {g}, !.seen = op.seen \cup seen,
                                   !.items = op.items \cup more]
    <2>1. seen \subseteq DOMAIN entry /\ DOMAIN entry \subseteq Bals
      BY <1>1 DEF Tables
    <2>2. ASSUME NEW b \in DOMAIN entry
          PROVE  ItemOK(item(b), op.acc)
      <3>1. entry[b].cfg \in Config /\ ConfigOK(entry[b].cfg) /\ b \in Bals
        BY <1>1, <2>1 DEF Tables
      <3>2. Kept(entry[b].cfg, op.acc) \in SUBSET Out
        BY <3>1, KeptSubset DEF ConfigOK
      <3>3. item(b) \in Item /\ item(b).cfg = entry[b].cfg
            /\ item(b).outs = Kept(entry[b].cfg, op.acc)
        BY <3>1, <3>2 DEF Item
      <3> HIDE DEF item
      <3> QED
        BY <3>1, <3>3 DEF ItemOK
    <2>3. \A i \in more : ItemOK(i, op.acc)
      BY <2>1, <2>2
    <2>4. \A i \in more : i.bal \in seen
      OBVIOUS
    <2>5. \A i, j \in more : i.bal = j.bal => i = j
      OBVIOUS
    <2>6. seen \cap op.seen = {}
      OBVIOUS
    <2>7. op.pc = "batch" /\ Goto(o, new)
      BY <1>5 DEF Batch
    <2> HIDE DEF more, seen, item
    <2>8. more \subseteq Item /\ seen \subseteq Bals
      BY <2>1, <2>3 DEF ItemOK
    <2>9. /\ new \in Op /\ new.pc = op.pc /\ new.rows = op.rows /\ new.bal = op.bal
          /\ new.items = op.items \cup more /\ new.acc = op.acc /\ new.seen = op.seen \cup seen
      BY <1>1, <2>8 DEF Op
    <2> HIDE DEF new
    <2>10. OpOK(new)
      BY <1>1, <2>3, <2>7, <2>9, <2>4, <2>5, <2>6 DEF OpOK
    <2> QED
      BY <1>1, <1>2, <1>3, <2>7, <2>9, <2>10, GotoOK DEF IInv
  <1>6. CASE AccessKnown(o)
    <2> DEFINE new == [op EXCEPT !.pc = "batch", !.todo = op.include]
    <2>1. op.pc = "access" /\ Goto(o, new)
      BY <1>6 DEF AccessKnown
    <2>2. /\ new \in Op /\ new.pc = "batch" /\ new.rows = op.rows /\ new.bal = op.bal
          /\ new.items = op.items /\ new.acc = op.acc /\ new.seen = op.seen
      BY <1>1 DEF Op, Places
    <2> HIDE DEF new
    <2>3. OpOK(new)
      BY <1>1, <2>2 DEF OpOK
    <2> QED
      BY <1>1, <1>2, <1>3, <2>1, <2>2, <2>3, GotoOK DEF IInv
  <1>7. CASE Respond(o)
    <2>1. End(o)
      BY <1>7 DEF Respond
    <2> QED
      BY <1>1, <1>2, <1>3, <2>1, EndOK DEF IInv
  <1> QED
    BY <1>4, <1>5, <1>6, <1>7

(* The operator's edits and failures.                                      *)
LEMMA EditOK ==
    ASSUME IInv,
           \/ \E b \in Bals : RemoveBalancer(b) \/ RemoveEntry(b) \/ EditEntry(b)
           \/ \E c \in Conns : EditConnect(c)
    PROVE  IInv'
  <1>1. Tables /\ OpsOK /\ AtOnce /\ unused' = unused
    BY DEF IInv, RemoveBalancer, RemoveEntry, EditEntry, EditConnect
  <1>2. OpsOK'
    BY <1>1, AtOnceOK
  <1>3. budget' \in Nat
    BY <1>1 DEF Tables, AtOnce
  <1>4. ASSUME NEW b \in Bals, RemoveBalancer(b) \/ RemoveEntry(b)
        PROVE  Tables'
    <2>1. /\ DOMAIN pool' \subseteq DOMAIN pool /\ DOMAIN entry' \subseteq DOMAIN entry
          /\ pool' = [x \in DOMAIN pool' |-> pool[x]]
          /\ entry' = [x \in DOMAIN entry' |-> entry[x]]
          /\ conn' = conn
      <3>1. CASE RemoveBalancer(b)
        BY <1>1, <3>1 DEF RemoveBalancer, Restrict, Tables
      <3>2. CASE RemoveEntry(b)
        BY <1>1, <3>2 DEF RemoveEntry, Restrict, Tables
      <3> QED
        BY <1>4, <3>1, <3>2
    <2> QED
      BY <1>1, <1>3, <2>1 DEF Tables
  <1> DEFINE EntryRow == [active: BOOLEAN, groups: SUBSET Groups, cfg: Config]
             ConnRow == [node: Nodes, active: BOOLEAN, groups: Placing]
  <1>5. ASSUME NEW b \in Bals, EditEntry(b)
        PROVE  Tables'
    <2>1. b \in DOMAIN entry /\ entry[b] \in EntryRow /\ UNCHANGED <<conn, pool>>
      BY <1>1, <1>5 DEF Tables, EditEntry
    <2>2. PICK row \in EntryRow : row.cfg = entry[b].cfg /\ entry' = [entry EXCEPT ![b] = row]
      <3>1. CASE entry' = [entry EXCEPT ![b].active = ~ @]
        <4>1. /\ [entry[b] EXCEPT !.active = ~ @] \in EntryRow
              /\ [entry[b] EXCEPT !.active = ~ @].cfg = entry[b].cfg
          BY <2>1
        <4> QED
          BY <3>1, <4>1, <2>1
      <3>2. ASSUME NEW gs \in Placing, entry' = [entry EXCEPT ![b].groups = gs]
            PROVE  \E row \in EntryRow : row.cfg = entry[b].cfg /\ entry' = [entry EXCEPT ![b] = row]
        <4>1. /\ [entry[b] EXCEPT !.groups = gs] \in EntryRow
              /\ [entry[b] EXCEPT !.groups = gs].cfg = entry[b].cfg
          BY <2>1, BalancersAssumption
        <4> QED
          BY <3>2, <4>1, <2>1
      <3> QED
        BY <1>5, <3>1, <3>2 DEF EditEntry
    <2> QED
      BY <1>1, <1>3, <2>1, <2>2 DEF Tables
  <1>6. ASSUME NEW c \in Conns, EditConnect(c)
        PROVE  Tables'
    <2>1. c \in DOMAIN conn /\ conn[c] \in ConnRow /\ UNCHANGED <<pool, entry>>
      BY <1>1, <1>6 DEF Tables, EditConnect
    <2>2. PICK row \in ConnRow : conn' = [conn EXCEPT ![c] = row]
      <3>1. ASSUME NEW n \in Nodes, conn' = [conn EXCEPT ![c].node = n]
            PROVE  \E row \in ConnRow : conn' = [conn EXCEPT ![c] = row]
        BY <2>1, <3>1
      <3>2. CASE conn' = [conn EXCEPT ![c].active = ~ @]
        <4>1. [conn[c] EXCEPT !.active = ~ @] \in ConnRow
          BY <2>1
        <4> QED
          BY <2>1, <3>2, <4>1
      <3>3. ASSUME NEW gs \in Placing, conn' = [conn EXCEPT ![c].groups = gs]
            PROVE  \E row \in ConnRow : conn' = [conn EXCEPT ![c] = row]
        BY <2>1, <3>3
      <3> QED
        BY <1>6, <3>1, <3>2, <3>3 DEF EditConnect
    <2> QED
      BY <1>1, <1>3, <2>1, <2>2 DEF Tables
  <1> QED
    BY <1>2, <1>4, <1>5, <1>6 DEF IInv

LEMMA ThrowOK ==
    ASSUME IInv, NEW o \in DOMAIN ops, Throw(o)
    PROVE  IInv'
  <1>1. /\ DOMAIN ops' \subseteq DOMAIN ops
        /\ \A q \in DOMAIN ops' : ops'[q] = ops[q]
    BY DEF Throw, Restrict
  <1>2. UNCHANGED <<conn, pool, entry, unused, budget, serial>> /\ crashed' = TRUE
    BY DEF Throw
  <1>3. Tables'
    BY <1>2 DEF IInv, Tables
  <1>4. OpsOK'
    BY <1>1, <1>2 DEF IInv, OpsOK
  <1> QED
    BY <1>3, <1>4 DEF IInv

-----------------------------------------------------------------------------
LEMMA InitOK ==
    ASSUME Init
    PROVE  IInv
  <1>1. DOMAIN pool = {} /\ DOMAIN entry = {} /\ DOMAIN ops = {} /\ unused = Bals
    BY DEF Init, None
  <1>2. PICK n \in Nodes : conn = [c \in Conns |-> [node |-> n, active |-> TRUE,
                                                    groups |-> Placed[c]]]
    BY DEF Init
  <1>3. conn \in [Conns -> [node: Nodes, active: BOOLEAN, groups: Placing]]
    BY <1>2, BalancersAssumption
  <1>4. pool = [x \in {} |-> TRUE] /\ entry = [x \in {} |-> TRUE]
    BY DEF Init, None
  <1>5. Tables
    BY <1>1, <1>3, <1>4, BalancersAssumption DEF Tables, Init
  <1>6. OpsOK
    BY <1>1 DEF OpsOK, Init
  <1> QED
    BY <1>5, <1>6 DEF IInv

LEMMA NextOK ==
    ASSUME IInv, [Next]_vars
    PROVE  IInv'
  <1>1. ASSUME NEW o \in Slots, Request(o)
        PROVE  IInv'
    BY <1>1, RequestOK
  <1>2. ASSUME NEW o \in Slots, Step(o)
        PROVE  IInv'
    BY <1>2, CreateOK, RebuildOK, RemoveOK, FeedOK DEF Step
  <1>3. ASSUME NEW o \in DOMAIN ops, Throw(o)
        PROVE  IInv'
    BY <1>3, ThrowOK
  <1>4. CASE UNCHANGED vars
    BY <1>4 DEF vars, IInv, Tables, OpsOK
  <1> QED
    BY <1>1, <1>2, <1>3, <1>4, EditOK DEF Next

LEMMA Invariance == Spec => []IInv
  <1>1. Init => IInv
    BY InitOK
  <1>2. IInv /\ [Next]_vars => IInv'
    BY NextOK
  <1> QED
    BY <1>1, <1>2, PTL DEF Spec

(* However often a balancer changes groups while a feed is built, the feed *)
(* holds it once (seenConnectIds).                                         *)
THEOREM OneItemEachCorrect == Spec => []OneItemEach
  <1>1. IInv => OneItemEach
    BY DEF IInv, OpsOK, OpOK, Feeds, OneItemEach
  <1> QED
    BY <1>1, Invariance, PTL

(* The collections keep their types, pools are never empty, and a config   *)
(* holds one outbound at most per id it lists, for any number of connects, *)
(* balancers and concurrent requests, stopping anywhere.                   *)
THEOREM TypeCorrect == Spec => []TypeOK
  <1>1. IInv => Types
    BY DEF IInv, Tables, OpsOK, Types
  <1>2. Types /\ OneItemEach => TypeOK
    BY DEF TypeOK
  <1> QED
    BY <1>1, <1>2, OneItemEachCorrect, Invariance, PTL

(* However pools, configs and rows change while a feed is built, a         *)
(* balancer whose whole pool was converted leads only to connects the feed *)
(* found accessible (filterBalancerForUser).                               *)
THEOREM WholePoolFilteredCorrect == Spec => []WholePoolFiltered
  <1>1. IInv => WholePoolFiltered
    <2> SUFFICES ASSUME IInv, NEW f \in Feeds, NEW i \in f.items, Whole(i.cfg),
                        NEW x \in i.outs
                 PROVE  x.of \in f.acc
      BY DEF WholePoolFiltered
    <2>1. ItemOK(i, f.acc)
      BY DEF IInv, OpsOK, OpOK, Feeds
    <2> QED
      BY <2>1, KeptAccessible DEF ItemOK
  <1> QED
    BY <1>1, Invariance, PTL

-----------------------------------------------------------------------------
(* As long as requests take turns and none stops half-way, the one in      *)
(* progress is alone and what it holds fits the tables: connects it found  *)
(* are there, pools it read are as it read them, every pool with the       *)
(* connect it removes is still among those it will write.                  *)
Ids(rows) == {x.id : x \in rows}

(* The requests that take a connect out of the pools, on their way through.*)
Detaching(op) ==
    \/ op.pc = "detach"
    \/ op.pc \in {"find", "writeEntry"} /\ op.kind # "update"

Aligned(op, live, pools) ==
    /\ op.pc \in {"createBalancer", "writePool"} => Ids(op.rows) \subseteq live
    /\ op.pc = "writePool" => op.kind = "update"
    /\ op.pc \in {"affected", "detach"} => op.kind # "update"
    /\ op.pc \in {"createEntry", "find", "writePool", "writeEntry"} =>
          op.bal \subseteq DOMAIN pools
    /\ op.pc \in {"createEntry", "writeEntry"} => \A b \in op.bal : pools[b] = Ids(op.rows)
    /\ op.pc = "find" /\ op.kind # "update" => \A b \in op.bal : pools[b] = op.ids
    /\ op.pc = "affected" \/ Detaching(op) => \E c : op.con = {c}
    /\ Detaching(op) =>
          /\ \A a \in op.aff : a.bal \in DOMAIN pools /\ a.ids = pools[a.bal]
          /\ \A b \in DOMAIN pools : op.con \subseteq pools[b] => \E a \in op.aff : a.bal = b

(* The balancers whose copy is behind their pool for the moment.           *)
Pending(op) ==
    IF op.pc = "writeEntry" \/ (op.pc = "find" /\ op.kind # "update") THEN op.bal ELSE {}

AllAligned == \A o \in DOMAIN ops : Aligned(ops[o], DOMAIN conn, pool)

Behind == UNION {Pending(ops[o]) : o \in DOMAIN ops}

InStepBut(late) ==
    /\ DOMAIN entry \subseteq DOMAIN pool
    /\ \A b \in DOMAIN entry \ late : entry[b].cfg.ids = pool[b]
    /\ \A b \in DOMAIN pool : pool[b] \subseteq DOMAIN conn

Single == \A o, q \in DOMAIN ops : o = q

TurnsInv == serial /\ ~ crashed => Single /\ AllAligned /\ InStepBut(Behind)

(* With a single request it suffices to look at what that one holds.       *)
LEMMA TurnGoes ==
    ASSUME Single, NEW o \in DOMAIN ops, NEW op, Goto(o, op),
           Aligned(op, DOMAIN conn', pool'),
           DOMAIN entry' \subseteq DOMAIN pool',
           \A b \in DOMAIN entry' \ Pending(op) : entry'[b].cfg.ids = pool'[b],
           \A b \in DOMAIN pool' : pool'[b] \subseteq DOMAIN conn'
    PROVE  TurnsInv'
  <1>1. DOMAIN ops' = {o} /\ ops'[o] = op
    BY DEF Single, Goto
  <1>2. Behind' = Pending(op)
    BY <1>1 DEF Behind
  <1>3. Single' /\ AllAligned'
    BY <1>1 DEF Single, AllAligned
  <1>4. InStepBut(Behind)'
    BY <1>2 DEF InStepBut
  <1> QED
    BY <1>3, <1>4 DEF TurnsInv

LEMMA TurnEnds ==
    ASSUME Single, NEW o \in DOMAIN ops, DOMAIN ops' = DOMAIN ops \ {o},
           DOMAIN entry' \subseteq DOMAIN pool',
           \A b \in DOMAIN entry' : entry'[b].cfg.ids = pool'[b],
           \A b \in DOMAIN pool' : pool'[b] \subseteq DOMAIN conn'
    PROVE  TurnsInv'
  <1>1. DOMAIN ops' = {}
    BY DEF Single
  <1>2. Single' /\ AllAligned'
    BY <1>1 DEF Single, AllAligned
  <1>3. InStepBut(Behind)'
    BY DEF InStepBut
  <1> QED
    BY <1>2, <1>3 DEF TurnsInv

(* A request that starts, or a single write, while none is in progress.    *)
LEMMA TurnBegins ==
    ASSUME IInv, TurnsInv, serial', NEW o, NEW op, Begin(o, op),
           serial /\ DOMAIN ops = {} => Aligned(op, DOMAIN conn, pool) /\ Pending(op) = {}
    PROVE  TurnsInv'
  <1> SUFFICES ASSUME ~ crashed'
               PROVE  TurnsInv'
    BY DEF TurnsInv
  <1>1. serial /\ ~ crashed /\ DOMAIN ops = {} /\ UNCHANGED <<conn, pool, entry>>
    BY DEF Begin, IInv, OpsOK
  <1>2. InStepBut({})
    BY <1>1 DEF TurnsInv, Behind
  <1>3. DOMAIN ops' = {o} /\ ops'[o] = op
    BY <1>1 DEF Begin
  <1>4. Behind' = {}
    BY <1>1, <1>3 DEF Behind
  <1>5. Single' /\ AllAligned'
    BY <1>1, <1>3 DEF Single, AllAligned
  <1>6. InStepBut(Behind)'
    BY <1>1, <1>2, <1>4 DEF InStepBut
  <1> QED
    BY <1>5, <1>6 DEF TurnsInv

LEMMA TurnAtOnce ==
    ASSUME IInv, TurnsInv, serial', AtOnce,
           serial /\ ~ crashed /\ InStepBut({}) =>
              /\ DOMAIN entry' \subseteq DOMAIN pool'
              /\ \A b \in DOMAIN entry' : entry'[b].cfg.ids = pool'[b]
              /\ \A b \in DOMAIN pool' : pool'[b] \subseteq DOMAIN conn'
    PROVE  TurnsInv'
  <1> SUFFICES ASSUME ~ crashed'
               PROVE  TurnsInv'
    BY DEF TurnsInv
  <1>1. serial /\ ~ crashed /\ DOMAIN ops = {} /\ DOMAIN ops' = {}
    BY DEF AtOnce, IInv, OpsOK
  <1>2. InStepBut({})
    BY <1>1 DEF TurnsInv, Behind
  <1>3. Single' /\ AllAligned'
    BY <1>1 DEF Single, AllAligned
  <1>4. InStepBut(Behind)'
    BY <1>1, <1>2 DEF InStepBut
  <1> QED
    BY <1>3, <1>4 DEF TurnsInv

(* buildSelectorOutbound lists the rows it was given.                      *)
LEMMA BuildIds ==
    ASSUME NEW rows
    PROVE  Build(rows).ids = Ids(rows)
  BY DEF Build, Ids

LEMMA RowsIds ==
    ASSUME NEW S
    PROVE  Ids(Rows(S)) = S \cap DOMAIN conn
  <1>1. \A x \in Rows(S) : x.id \in S \cap DOMAIN conn
    BY DEF Rows
  <1>2. \A c \in S \cap DOMAIN conn : [id |-> c, node |-> conn[c].node] \in Rows(S)
    BY DEF Rows
  <1>3. \A c : [id |-> c, node |-> conn[c].node].id = c
    OBVIOUS
  <1>4. \A c \in S \cap DOMAIN conn : c \in Ids(Rows(S))
    BY <1>2, <1>3 DEF Ids
  <1> QED
    BY <1>1, <1>4 DEF Ids

(* The steps of create.                                                    *)
LEMMA TurnCreates ==
    ASSUME IInv, TurnsInv, serial, ~ crashed, NEW o \in DOMAIN ops,
           CreateEntry(o) \/ \E b \in Bals : CreateBalancer(o, b)
    PROVE  TurnsInv'
  <1> DEFINE op == ops[o]
  <1>1. /\ op \in Op /\ Aligned(op, DOMAIN conn, pool) /\ Single
        /\ InStepBut(Pending(op))
    <2>1. Behind = Pending(op)
      BY DEF TurnsInv, Single, Behind
    <2> QED
      BY <2>1 DEF TurnsInv, AllAligned, IInv, OpsOK, OpOK
  <1>2. CASE \E b \in Bals : CreateBalancer(o, b)
    <2>1. PICK b \in Bals : CreateBalancer(o, b)
      BY <1>2
    <2> DEFINE new == [op EXCEPT !.pc = "createEntry", !.bal = {b}]
    <2>2. /\ op.pc = "createBalancer" /\ b \in unused /\ Goto(o, new)
          /\ pool' = [a \in DOMAIN pool \cup {b} |-> IF a = b THEN Ids(op.rows) ELSE pool[a]]
          /\ UNCHANGED <<conn, entry>>
      BY <2>1 DEF CreateBalancer, Ids
    <2>3. b \notin DOMAIN pool /\ b \notin DOMAIN entry
      BY <2>2 DEF IInv, Tables
    <2>4. new.pc = "createEntry" /\ new.bal = {b} /\ new.rows = op.rows
      BY <1>1 DEF Op
    <2> HIDE DEF new
    <2>5. Ids(op.rows) \subseteq DOMAIN conn /\ Pending(op) = {}
      BY <1>1, <2>2 DEF Aligned, Pending
    <2>6. Aligned(new, DOMAIN conn', pool')
      BY <2>2, <2>4 DEF Aligned, Detaching
    <2>7. /\ DOMAIN entry' \subseteq DOMAIN pool'
          /\ \A a \in DOMAIN entry' : entry'[a].cfg.ids = pool'[a]
          /\ \A a \in DOMAIN pool' : pool'[a] \subseteq DOMAIN conn'
      BY <1>1, <2>2, <2>3, <2>5 DEF InStepBut
    <2> QED
      BY <1>1, <2>2, <2>6, <2>7, TurnGoes DEF new
  <1>3. CASE CreateEntry(o)
    <2> DEFINE row == [active |-> TRUE, groups |-> {Ungrouped}, cfg |-> Build(op.rows)]
    <2>1. /\ op.pc = "createEntry" /\ DOMAIN ops' = DOMAIN ops \ {o}
          /\ entry' = [a \in DOMAIN entry \cup op.bal |->
                          IF a \in op.bal THEN row ELSE entry[a]]
          /\ UNCHANGED <<conn, pool>>
      BY <1>3 DEF CreateEntry, End, Restrict
    <2>2. row.cfg.ids = Ids(op.rows)
      BY BuildIds
    <2>3. Pending(op) = {} /\ op.bal \subseteq DOMAIN pool /\ \A b \in op.bal : pool[b] = Ids(op.rows)
      BY <1>1, <2>1 DEF Aligned, Pending
    <2> HIDE DEF row
    <2>4. /\ DOMAIN entry' \subseteq DOMAIN pool'
          /\ \A a \in DOMAIN entry' : entry'[a].cfg.ids = pool'[a]
          /\ \A a \in DOMAIN pool' : pool'[a] \subseteq DOMAIN conn'
      BY <1>1, <2>1, <2>2, <2>3 DEF InStepBut
    <2> QED
      BY <1>1, <2>1, <2>4, TurnEnds
  <1> QED
    BY <1>2, <1>3

(* The steps that write a pool and then its copy.                          *)
LEMMA TurnRebuilds ==
    ASSUME IInv, TurnsInv, serial, ~ crashed, NEW o \in DOMAIN ops,
           FindConnects(o) \/ WritePool(o) \/ WriteEntry(o)
    PROVE  TurnsInv'
  <1> DEFINE op == ops[o]
  <1>1. /\ op \in Op /\ Aligned(op, DOMAIN conn, pool) /\ Single
        /\ InStepBut(Pending(op))
    <2>1. Behind = Pending(op)
      BY DEF TurnsInv, Single, Behind
    <2> QED
      BY <2>1 DEF TurnsInv, AllAligned, IInv, OpsOK, OpOK
  <1>2. CASE FindConnects(o)
    <2> DEFINE pc == IF op.kind = "update" THEN "writePool" ELSE "writeEntry"
               new == [op EXCEPT !.rows = Rows(op.ids), !.ids = {}, !.pc = pc]
    <2>1. /\ op.pc = "find" /\ UNCHANGED <<conn, pool, entry>>
          /\ \/ op.kind = "update" /\ DOMAIN ops' = DOMAIN ops \ {o}
             \/ Goto(o, new)
      BY <1>2 DEF FindConnects, End, Restrict
    <2>2. Ids(Rows(op.ids)) = op.ids \cap DOMAIN conn
      BY RowsIds
    <2>3. /\ new.pc = pc /\ new.rows = Rows(op.ids) /\ new.kind = op.kind
          /\ new.bal = op.bal /\ new.aff = op.aff /\ new.con = op.con
      BY <1>1 DEF Op
    <2> HIDE DEF new
    <2>4. CASE op.kind = "update"
      <3>1. Pending(op) = {} /\ Pending(new) = {} /\ op.bal \subseteq DOMAIN pool
        BY <1>1, <2>1, <2>3, <2>4 DEF Pending, Aligned
      <3>2. /\ DOMAIN entry \subseteq DOMAIN pool
            /\ \A b \in DOMAIN entry : entry[b].cfg.ids = pool[b]
            /\ \A b \in DOMAIN pool : pool[b] \subseteq DOMAIN conn
        BY <1>1, <3>1 DEF InStepBut
      <3>3. Aligned(new, DOMAIN conn, pool)
        BY <2>2, <2>3, <2>4, <3>1 DEF Aligned, Detaching
      <3> QED
        BY <1>1, <2>1, <3>1, <3>2, <3>3, TurnGoes, TurnEnds DEF new
    <2>5. CASE op.kind # "update"
      <3>1. /\ Pending(op) = op.bal /\ Pending(new) = op.bal /\ op.bal \subseteq DOMAIN pool
            /\ \A b \in op.bal : pool[b] = op.ids
            /\ Detaching(op) /\ Detaching(new)
        BY <1>1, <2>1, <2>3, <2>5 DEF Pending, Aligned, Detaching
      <3>2. /\ DOMAIN entry \subseteq DOMAIN pool
            /\ \A b \in DOMAIN entry \ op.bal : entry[b].cfg.ids = pool[b]
            /\ \A b \in DOMAIN pool : pool[b] \subseteq DOMAIN conn
        BY <1>1, <3>1 DEF InStepBut
      <3>3. \A b \in op.bal : pool[b] = Ids(new.rows)
        BY <2>2, <2>3, <3>1, <3>2
      <3>4. Aligned(new, DOMAIN conn, pool)
        BY <1>1, <2>3, <2>5, <3>1, <3>3 DEF Aligned
      <3> QED
        BY <1>1, <2>1, <2>5, <3>1, <3>2, <3>4, TurnGoes DEF new
    <2> QED
      BY <2>4, <2>5
  <1>3. CASE WritePool(o)
    <2> DEFINE new == [op EXCEPT !.pc = "writeEntry"]
    <2>1. op.pc = "writePool"
      BY <1>3 DEF WritePool
    <2>2. /\ op.kind = "update" /\ op.bal \subseteq DOMAIN pool
          /\ Ids(op.rows) \subseteq DOMAIN conn /\ Pending(op) = {}
      BY <1>1, <2>1 DEF Aligned, Pending
    <2>3. /\ pool' = [a \in DOMAIN pool |-> IF a \in op.bal THEN Ids(op.rows) ELSE pool[a]]
          /\ Goto(o, new) /\ UNCHANGED <<conn, entry>>
      BY <1>3, <2>2 DEF WritePool, Ids
    <2>4. /\ new.pc = "writeEntry" /\ new.rows = op.rows /\ new.kind = "update"
          /\ new.bal = op.bal
      BY <1>1, <2>2 DEF Op
    <2> HIDE DEF new
    <2>5. Aligned(new, DOMAIN conn', pool')
      BY <2>2, <2>3, <2>4 DEF Aligned, Detaching
    <2>6. Pending(new) = op.bal
      BY <2>4 DEF Pending
    <2>7. /\ DOMAIN entry' \subseteq DOMAIN pool'
          /\ \A a \in DOMAIN entry' \ op.bal : entry'[a].cfg.ids = pool'[a]
          /\ \A a \in DOMAIN pool' : pool'[a] \subseteq DOMAIN conn'
      BY <1>1, <2>2, <2>3 DEF InStepBut
    <2> QED
      BY <1>1, <2>3, <2>5, <2>6, <2>7, TurnGoes DEF new
  <1>4. CASE WriteEntry(o)
    <2> DEFINE new == [op EXCEPT !.pc = "detach", !.bal = {}, !.rows = {}]
    <2>1. /\ op.pc = "writeEntry" /\ UNCHANGED <<conn, pool>>
          /\ entry' = [a \in DOMAIN entry |->
                          IF a \in op.bal THEN [entry[a] EXCEPT !.cfg = Build(op.rows)]
                                          ELSE entry[a]]
          /\ \/ DOMAIN ops' = DOMAIN ops \ {o}
             \/ op.kind # "update" /\ Goto(o, new)
      BY <1>4 DEF WriteEntry, End, Restrict
    <2>2. Pending(op) = op.bal /\ \A b \in op.bal : pool[b] = Ids(op.rows)
      BY <1>1, <2>1 DEF Pending, Aligned
    <2>3. \A b \in DOMAIN entry : "cfg" \in DOMAIN entry[b]
      BY DEF IInv, Tables
    <2>4. \A b \in DOMAIN entry \cap op.bal : entry'[b].cfg.ids = Ids(op.rows)
      BY <2>1, <2>3, BuildIds
    <2>5. /\ DOMAIN entry' \subseteq DOMAIN pool'
          /\ \A a \in DOMAIN entry' : entry'[a].cfg.ids = pool'[a]
          /\ \A a \in DOMAIN pool' : pool'[a] \subseteq DOMAIN conn'
      BY <1>1, <2>1, <2>2, <2>4 DEF InStepBut
    <2>6. /\ new.pc = "detach" /\ new.con = op.con /\ new.aff = op.aff
          /\ new.kind = op.kind
      BY <1>1 DEF Op
    <2> HIDE DEF new
    <2>7. op.kind # "update" => Aligned(new, DOMAIN conn', pool')
      BY <1>1, <2>1, <2>6 DEF Aligned, Detaching
    <2> QED
      BY <1>1, <2>1, <2>5, <2>7, TurnGoes, TurnEnds DEF new
  <1> QED
    BY <1>2, <1>3, <1>4

(* The steps of a removal: the pools with the connect, one after another,  *)
(* and the connect once none is left.                                      *)
LEMMA TurnRemoves ==
    ASSUME IInv, TurnsInv, serial, ~ crashed, NEW o \in DOMAIN ops,
           \/ FindAffected(o) \/ DeleteConnect(o)
           \/ \E a \in ops[o].aff : Detach(o, a)
    PROVE  TurnsInv'
  <1> DEFINE op == ops[o]
  <1>1. op \in Op /\ Aligned(op, DOMAIN conn, pool) /\ Single
    BY DEF TurnsInv, AllAligned, IInv, OpsOK, OpOK
  <1>2. op.pc \in {"affected", "detach"}
    BY DEF FindAffected, DeleteConnect, Detach
  <1>3. /\ DOMAIN entry \subseteq DOMAIN pool
        /\ \A b \in DOMAIN entry : entry[b].cfg.ids = pool[b]
        /\ \A b \in DOMAIN pool : pool[b] \subseteq DOMAIN conn
    <2>1. Behind = Pending(op)
      BY DEF TurnsInv, Single, Behind
    <2> QED
      BY <1>2, <2>1 DEF TurnsInv, InStepBut, Pending
  <1>4. PICK c : op.con = {c}
    BY <1>1, <1>2 DEF Aligned, Detaching
  <1>5. CASE FindAffected(o)
    <2> DEFINE ids == {b \in DOMAIN pool : op.con \subseteq pool[b]}
               aff == {[bal |-> b, ids |-> pool[b]] : b \in ids}
               new == [op EXCEPT !.pc = "detach", !.aff = aff]
    <2>1. op.pc = "affected" /\ Goto(o, new) /\ UNCHANGED <<conn, pool, entry>>
      BY <1>5 DEF FindAffected
    <2>2. /\ \A a \in aff : a.bal \in DOMAIN pool /\ a.ids = pool[a.bal]
          /\ \A b \in DOMAIN pool : op.con \subseteq pool[b] => \E a \in aff : a.bal = b
      <3>1. \A b \in ids : [bal |-> b, ids |-> pool[b]] \in aff
        OBVIOUS
      <3>2. \A a \in aff : \E b \in ids : a = [bal |-> b, ids |-> pool[b]]
        OBVIOUS
      <3> HIDE DEF aff
      <3>3. ASSUME NEW a \in aff
            PROVE  a.bal \in DOMAIN pool /\ a.ids = pool[a.bal]
        <4>1. PICK b \in ids : a = [bal |-> b, ids |-> pool[b]]
          BY <3>2
        <4>2. a.bal = b /\ a.ids = pool[b]
          BY <4>1
        <4> QED
          BY <4>2
      <3>4. ASSUME NEW b \in DOMAIN pool, op.con \subseteq pool[b]
            PROVE  \E a \in aff : a.bal = b
        <4>1. [bal |-> b, ids |-> pool[b]] \in aff
          BY <3>1, <3>4
        <4>2. [bal |-> b, ids |-> pool[b]].bal = b
          OBVIOUS
        <4> QED
          BY <4>1, <4>2
      <3> QED
        BY <3>3, <3>4
    <2> HIDE DEF aff
    <2>3. new.pc = "detach" /\ new.con = op.con /\ new.aff = aff /\ new.kind = op.kind
      BY <1>1 DEF Op
    <2> HIDE DEF new
    <2>4. Aligned(new, DOMAIN conn, pool)
      BY <1>1, <1>4, <2>1, <2>2, <2>3 DEF Aligned, Detaching
    <2> QED
      BY <1>1, <1>3, <2>1, <2>4, TurnGoes DEF new
  <1>6. CASE \E a \in op.aff : Detach(o, a)
    <2>0. PICK a \in op.aff : Detach(o, a)
      BY <1>6
    <2> DEFINE left == a.ids \ op.con
               rest == op.aff \ {a}
               gone == [op EXCEPT !.aff = rest]
               kept == [gone EXCEPT !.pc = "find", !.bal = {a.bal}, !.ids = left]
    <2>1. op.pc = "detach" /\ UNCHANGED conn
      BY <2>0 DEF Detach
    <2>2. /\ \A d \in op.aff : d.bal \in DOMAIN pool /\ d.ids = pool[d.bal]
          /\ \A b \in DOMAIN pool : op.con \subseteq pool[b] => \E d \in op.aff : d.bal = b
      BY <1>1, <2>1 DEF Aligned, Detaching
    <2>3. \A d \in op.aff : d.bal = a.bal => d = a
      <3>1. \A d \in op.aff : d = [bal |-> d.bal, ids |-> d.ids]
        BY <1>1 DEF Op
      <3> QED
        BY <2>2, <3>1
    <2>4. op.kind # "update"
      BY <1>1, <2>1 DEF Aligned
    <2>5. CASE left = {}
      <3>1. /\ Goto(o, gone)
            /\ pool' = Restrict(pool, DOMAIN pool \ {a.bal})
            /\ entry' = Restrict(entry, DOMAIN entry \ {a.bal})
        BY <2>0, <2>2, <2>5 DEF Detach
      <3>2. /\ DOMAIN pool' = DOMAIN pool \ {a.bal} /\ DOMAIN entry' = DOMAIN entry \ {a.bal}
            /\ \A b \in DOMAIN pool' : pool'[b] = pool[b]
            /\ \A b \in DOMAIN entry' : entry'[b] = entry[b]
        BY <3>1 DEF Restrict
      <3>3. gone.pc = "detach" /\ gone.con = op.con /\ gone.aff = rest /\ gone.kind = op.kind
        BY <1>1, <2>1 DEF Op
      <3> HIDE DEF gone
      <3>4. /\ \A d \in rest : d.bal \in DOMAIN pool' /\ d.ids = pool'[d.bal]
            /\ \A b \in DOMAIN pool' : op.con \subseteq pool'[b] => \E d \in rest : d.bal = b
        BY <2>2, <2>3, <3>2
      <3>5. Aligned(gone, DOMAIN conn', pool')
        BY <1>4, <2>4, <3>3, <3>4 DEF Aligned, Detaching
      <3>6. /\ DOMAIN entry' \subseteq DOMAIN pool'
            /\ \A b \in DOMAIN entry' : entry'[b].cfg.ids = pool'[b]
            /\ \A b \in DOMAIN pool' : pool'[b] \subseteq DOMAIN conn'
        BY <1>3, <2>1, <3>2
      <3> QED
        BY <1>1, <3>1, <3>5, <3>6, TurnGoes DEF gone
    <2>6. CASE left # {}
      <3>1. /\ Goto(o, kept)
            /\ pool' = [pool EXCEPT ![a.bal] = left]
            /\ entry' = entry
        BY <2>0, <2>2, <2>6 DEF Detach
      <3>2. /\ DOMAIN pool' = DOMAIN pool /\ pool'[a.bal] = left
            /\ \A b \in DOMAIN pool \ {a.bal} : pool'[b] = pool[b]
        BY <2>2, <3>1
      <3>3. /\ kept.pc = "find" /\ kept.con = op.con /\ kept.aff = rest
            /\ kept.kind = op.kind /\ kept.bal = {a.bal} /\ kept.ids = left
        BY <1>1 DEF Op
      <3> HIDE DEF kept
      <3>4. /\ \A d \in rest : d.bal \in DOMAIN pool' /\ d.ids = pool'[d.bal]
            /\ \A b \in DOMAIN pool' : op.con \subseteq pool'[b] => \E d \in rest : d.bal = b
        <4>1. ~ op.con \subseteq left
          BY <1>4
        <4> HIDE DEF left
        <4> QED
          BY <2>2, <2>3, <3>2, <4>1
      <3>5. a.bal \in DOMAIN pool /\ left \subseteq pool[a.bal]
        BY <2>2
      <3> HIDE DEF left, rest
      <3>6. Aligned(kept, DOMAIN conn', pool')
        BY <1>4, <2>4, <3>2, <3>3, <3>4, <3>5 DEF Aligned, Detaching
      <3>7. Pending(kept) = {a.bal}
        BY <2>4, <3>3 DEF Pending
      <3>8. /\ DOMAIN entry' \subseteq DOMAIN pool'
            /\ \A b \in DOMAIN entry' \ {a.bal} : entry'[b].cfg.ids = pool'[b]
            /\ \A b \in DOMAIN pool' : pool'[b] \subseteq DOMAIN conn'
        BY <1>3, <2>1, <3>1, <3>2, <3>5
      <3> QED
        BY <1>1, <3>1, <3>6, <3>7, <3>8, TurnGoes DEF kept, rest, left
    <2> QED
      BY <2>5, <2>6
  <1>7. CASE DeleteConnect(o)
    <2>1. /\ op.pc = "detach" /\ op.aff = {} /\ DOMAIN ops' = DOMAIN ops \ {o}
          /\ DOMAIN conn' = DOMAIN conn \ op.con /\ UNCHANGED <<pool, entry>>
      BY <1>7 DEF DeleteConnect, End, Restrict
    <2>2. \A b \in DOMAIN pool : ~ op.con \subseteq pool[b]
      BY <1>1, <2>1 DEF Aligned, Detaching
    <2>3. \A b \in DOMAIN pool' : pool'[b] \subseteq DOMAIN conn'
      BY <1>3, <1>4, <2>1, <2>2
    <2> QED
      BY <1>1, <1>3, <2>1, <2>3, TurnEnds
  <1> QED
    BY <1>5, <1>6, <1>7

(* A feed writes nothing.                                                  *)
LEMMA TurnFeeds ==
    ASSUME IInv, TurnsInv, serial, ~ crashed, NEW o \in DOMAIN ops,
           \/ \E g \in ops[o].todo : Access(o, g) \/ Batch(o, g)
           \/ AccessKnown(o) \/ Respond(o)
    PROVE  TurnsInv'
  <1> DEFINE op == ops[o]
  <1>1. op \in Op /\ Single
    BY DEF TurnsInv, IInv, OpsOK, OpOK
  <1>2. op.pc \in {"access", "batch"} /\ UNCHANGED <<conn, pool, entry>>
    BY DEF Access, Batch, AccessKnown, Respond
  <1>3. /\ DOMAIN entry \subseteq DOMAIN pool
        /\ \A b \in DOMAIN entry : entry[b].cfg.ids = pool[b]
        /\ \A b \in DOMAIN pool : pool[b] \subseteq DOMAIN conn
    <2>1. Behind = Pending(op)
      BY DEF TurnsInv, Single, Behind
    <2> QED
      BY <1>2, <2>1 DEF TurnsInv, InStepBut, Pending
  <1>4. CASE Respond(o)
    <2>1. DOMAIN ops' = DOMAIN ops \ {o}
      BY <1>4 DEF Respond, End, Restrict
    <2> QED
      BY <1>1, <1>2, <1>3, <2>1, TurnEnds
  <1>5. ASSUME NEW new, new.pc \in {"access", "batch"}, Goto(o, new)
        PROVE  TurnsInv'
    <2>1. Aligned(new, DOMAIN conn, pool)
      BY <1>5 DEF Aligned, Detaching
    <2> QED
      BY <1>1, <1>2, <1>3, <1>5, <2>1, TurnGoes
  <1>6. CASE \E g \in op.todo : Access(o, g)
    <2>1. PICK todo, acc : Goto(o, [op EXCEPT !.todo = todo, !.acc = acc])
      BY <1>6 DEF Access
    <2> DEFINE new == [op EXCEPT !.todo = todo, !.acc = acc]
    <2>2. new.pc = op.pc /\ Goto(o, new)
      BY <1>1, <2>1 DEF Op
    <2> HIDE DEF new
    <2> QED
      BY <1>2, <1>5, <2>2
  <1>7. CASE \E g \in op.todo : Batch(o, g)
    <2>1. PICK todo, seen, items :
             Goto(o, [op EXCEPT !.todo = todo, !.seen = seen, !.items = items])
      BY <1>7 DEF Batch
    <2> DEFINE new == [op EXCEPT !.todo = todo, !.seen = seen, !.items = items]
    <2>2. new.pc = op.pc /\ Goto(o, new)
      BY <1>1, <2>1 DEF Op
    <2> HIDE DEF new
    <2> QED
      BY <1>2, <1>5, <2>2
  <1>8. CASE AccessKnown(o)
    <2> DEFINE new == [op EXCEPT !.pc = "batch", !.todo = op.include]
    <2>1. new.pc = "batch" /\ Goto(o, new)
      BY <1>1, <1>8 DEF Op, AccessKnown
    <2> HIDE DEF new
    <2> QED
      BY <1>5, <2>1
  <1> QED
    BY <1>4, <1>6, <1>7, <1>8

(* Single writes to balancers, their connects and the connects.            *)
LEMMA TurnEdits ==
    ASSUME IInv, TurnsInv, serial',
           \/ \E b \in Bals : RemoveBalancer(b) \/ RemoveEntry(b) \/ EditEntry(b)
           \/ \E c \in Conns : EditConnect(c)
    PROVE  TurnsInv'
  <1>1. \A b \in DOMAIN entry : "cfg" \in DOMAIN entry[b]
    BY DEF IInv, Tables
  <1>2. ASSUME NEW b \in Bals, RemoveBalancer(b) \/ RemoveEntry(b)
        PROVE  TurnsInv'
    BY <1>2, TurnAtOnce DEF RemoveBalancer, RemoveEntry, Restrict, InStepBut
  <1>3. ASSUME NEW b \in Bals, EditEntry(b)
        PROVE  TurnsInv'
    <2>1. entry \in [DOMAIN entry -> [active: BOOLEAN, groups: SUBSET Groups, cfg: Config]]
      BY DEF IInv, Tables
    <2>2. DOMAIN entry' = DOMAIN entry /\ \A a \in DOMAIN entry : entry'[a].cfg = entry[a].cfg
      BY <1>3, <2>1 DEF EditEntry
    <2> QED
      BY <1>3, <2>2, TurnAtOnce DEF EditEntry, InStepBut
  <1>4. ASSUME NEW c \in Conns, EditConnect(c)
        PROVE  TurnsInv'
    <2>1. DOMAIN conn' = DOMAIN conn
      BY <1>4 DEF EditConnect
    <2> QED
      BY <1>4, <2>1, TurnAtOnce DEF EditConnect, InStepBut
  <1> QED
    BY <1>2, <1>3, <1>4

LEMMA TurnRequests ==
    ASSUME IInv, TurnsInv, serial', NEW o \in Slots, Request(o)
    PROVE  TurnsInv'
  <1>1. ASSUME NEW S, BeginCreate(o, S)
        PROVE  TurnsInv'
    <2> DEFINE op == [NewOp("create") EXCEPT !.pc = "createBalancer", !.rows = Rows(S)]
    <2>1. Begin(o, op) /\ op.pc = "createBalancer" /\ op.rows = Rows(S)
      BY <1>1 DEF BeginCreate, NewOp
    <2> HIDE DEF op
    <2>2. Aligned(op, DOMAIN conn, pool) /\ Pending(op) = {}
      BY <2>1, RowsIds DEF Aligned, Detaching, Pending
    <2> QED
      BY <2>1, <2>2, TurnBegins
  <1>2. ASSUME NEW b, NEW S, BeginUpdate(o, b, S)
        PROVE  TurnsInv'
    <2> DEFINE op == [NewOp("update") EXCEPT !.pc = "find", !.bal = {b}, !.ids = S]
    <2>1. Begin(o, op) /\ op.pc = "find" /\ op.kind = "update" /\ op.bal = {b} /\ b \in DOMAIN pool
      BY <1>2 DEF BeginUpdate, NewOp
    <2> HIDE DEF op
    <2>2. Aligned(op, DOMAIN conn, pool) /\ Pending(op) = {}
      BY <2>1 DEF Aligned, Detaching, Pending
    <2> QED
      BY <2>1, <2>2, TurnBegins
  <1>3. ASSUME NEW c, BeginRemove(o, c)
        PROVE  TurnsInv'
    <2> DEFINE op == [NewOp("remove") EXCEPT !.pc = "affected", !.con = {c}]
    <2>1. Begin(o, op) /\ op.pc = "affected" /\ op.kind = "remove" /\ op.con = {c}
      BY <1>3 DEF BeginRemove, NewOp
    <2> HIDE DEF op
    <2>2. Aligned(op, DOMAIN conn, pool) /\ Pending(op) = {}
      BY <2>1 DEF Aligned, Detaching, Pending
    <2> QED
      BY <2>1, <2>2, TurnBegins
  <1>4. ASSUME NEW include, BeginFeed(o, include)
        PROVE  TurnsInv'
    <2> DEFINE op == [NewOp("feed") EXCEPT !.pc = "access", !.todo = Assigned, !.include = include]
    <2>1. Begin(o, op) /\ op.pc = "access"
      BY <1>4 DEF BeginFeed, NewOp
    <2> HIDE DEF op
    <2>2. Aligned(op, DOMAIN conn, pool) /\ Pending(op) = {}
      BY <2>1 DEF Aligned, Detaching, Pending
    <2> QED
      BY <2>1, <2>2, TurnBegins
  <1> QED
    BY <1>1, <1>2, <1>3, <1>4 DEF Request

LEMMA TurnNext == IInv /\ TurnsInv /\ [Next]_vars => TurnsInv'
  <1> SUFFICES ASSUME IInv, TurnsInv, [Next]_vars, serial', ~ crashed'
               PROVE  TurnsInv'
    BY DEF TurnsInv
  <1>1. CASE \E o \in Slots : Step(o)
    <2>1. PICK o \in DOMAIN ops : Step(o)
      BY <1>1 DEF Step
    <2> DEFINE Same == UNCHANGED <<serial, crashed>>
    <2>2. \A new : Goto(o, new) => Same
      BY DEF Goto
    <2>3. End(o) => Same
      BY DEF End
    <2>4. (\E b \in Bals : CreateBalancer(o, b)) \/ CreateEntry(o) => Same
      BY <2>2, <2>3 DEF CreateBalancer, CreateEntry
    <2>5. FindConnects(o) \/ WritePool(o) \/ WriteEntry(o) => Same
      BY <2>2, <2>3 DEF FindConnects, WritePool, WriteEntry
    <2>6. FindAffected(o) \/ DeleteConnect(o) => Same
      BY <2>2, <2>3 DEF FindAffected, DeleteConnect
    <2>7. (\E a \in ops[o].aff : Detach(o, a)) => Same
      BY <2>2, <2>3 DEF Detach
    <2>8. (\E g \in ops[o].todo : Access(o, g) \/ Batch(o, g)) \/ AccessKnown(o) \/ Respond(o)
             => Same
      BY <2>2, <2>3 DEF Access, Batch, AccessKnown, Respond
    <2> HIDE DEF Same
    <2>9. Same
      BY <2>1, <2>4, <2>5, <2>6, <2>7, <2>8 DEF Step
    <2>10. serial /\ ~ crashed
      BY <2>9 DEF Same
    <2> QED
      BY <2>1, <2>10, TurnCreates, TurnRebuilds, TurnRemoves, TurnFeeds DEF Step
  <1>2. CASE \E o \in DOMAIN ops : Throw(o)
    BY <1>2 DEF Throw
  <1>3. CASE UNCHANGED vars
    BY <1>3 DEF vars, TurnsInv, Single, AllAligned, InStepBut, Behind
  <1> QED
    BY <1>1, <1>2, <1>3, TurnRequests, TurnEdits DEF Next

(* Requests that take turns and do not stop half-way leave the copies in   *)
(* step with the pools, each pool with a connect, and none with one that   *)
(* is gone (create, update, removeConnectFromAllBalancers).                *)
THEOREM SerialInStepCorrect == Spec => []SerialInStep
  <1>1. Init => TurnsInv
    BY DEF Init, None, TurnsInv, Single, AllAligned, InStepBut
  <1>2. IInv /\ TurnsInv => SerialInStep
    <2> SUFFICES ASSUME IInv, TurnsInv, serial, ~ crashed, DOMAIN ops = {}
                 PROVE  InStep
      BY DEF SerialInStep
    <2>1. InStepBut({})
      BY DEF TurnsInv, Behind
    <2>2. \A b \in DOMAIN pool : pool[b] # {}
      BY DEF IInv, Tables
    <2> QED
      BY <2>1, <2>2 DEF InStepBut, InStep
  <1> QED
    BY <1>1, <1>2, TurnNext, Invariance, PTL DEF Spec

-----------------------------------------------------------------------------
(* What a request that nothing overlaps with holds is still so: a feed's   *)
(* access is that of the rows as they are and its items are cut out of the *)
(* copies as they are; rows found for a pool are the rows of that pool.    *)
RowsIn(S, table) == {[id |-> c, node |-> table[c].node] : c \in S \cap DOMAIN table}

AccessibleIn(table, gs) == {c \in DOMAIN table : table[c].active /\ table[c].groups \cap gs # {}}

ItemsOf(op, b) == {i.outs : i \in {i \in op.items : i.bal = b}}

CutOut(cfg, acc) == IF cfg.ids \cap acc = {} THEN {} ELSE {Kept(cfg, acc)}

Fresh(op, table, pools, copies) ==
    /\ op.kind = "feed" => op.pc \in {"access", "batch"}
    /\ op.pc = "access" =>
          /\ op.todo \subseteq Assigned /\ op.seen = {}
          /\ op.acc = AccessibleIn(table, Assigned \ op.todo)
    /\ op.pc = "batch" =>
          /\ op.acc = AccessibleIn(table, Assigned)
          /\ op.seen \subseteq DOMAIN copies
          /\ \A b \in op.seen : ItemsOf(op, b) = CutOut(copies[b].cfg, op.acc)
    /\ op.pc = "find" /\ op.kind # "update" => \A b \in op.bal : pools[b] = op.ids
    /\ op.pc = "writePool" => op.kind = "update" /\ op.rows = RowsIn(Ids(op.rows), table)
    /\ op.pc = "writeEntry" =>
          \A b \in op.bal : /\ op.rows = RowsIn(pools[b], table)
                            /\ op.kind = "update" => Ids(op.rows) = pools[b]

SoloInv ==
    /\ \A o, q \in DOMAIN ops : ops[o].solo => o = q
    /\ \A o \in DOMAIN ops : ops[o].solo => Fresh(ops[o], conn, pool, entry)

(* It suffices to look at the request that moves, and only if it is alone. *)
LEMMA SoloGoes ==
    ASSUME SoloInv, NEW o \in DOMAIN ops, NEW op, Goto(o, op), op.solo = ops[o].solo,
           op.solo => Fresh(op, conn', pool', entry')
    PROVE  SoloInv'
  <1>1. /\ DOMAIN ops' = DOMAIN ops /\ ops'[o] = op
        /\ \A q \in DOMAIN ops \ {o} : ops'[q] = ops[q]
    BY DEF Goto
  <1>2. \A q \in DOMAIN ops \ {o} : ~ ops[q].solo
    BY DEF SoloInv
  <1> QED
    BY <1>1, <1>2 DEF SoloInv

LEMMA SoloEnds ==
    ASSUME SoloInv, NEW o \in DOMAIN ops, ops' = Restrict(ops, DOMAIN ops \ {o})
    PROVE  SoloInv'
  <1>1. /\ DOMAIN ops' = DOMAIN ops \ {o}
        /\ \A q \in DOMAIN ops' : ops'[q] = ops[q]
    BY DEF Restrict
  <1>2. \A q \in DOMAIN ops \ {o} : ~ ops[q].solo
    BY DEF SoloInv
  <1> QED
    BY <1>1, <1>2 DEF SoloInv

LEMMA SoloBegins ==
    ASSUME IInv, SoloInv, NEW o, NEW op, Begin(o, op), op.solo = (DOMAIN ops = {}),
           Fresh(op, conn, pool, entry)
    PROVE  SoloInv'
  <1>1. /\ DOMAIN ops' = DOMAIN ops \cup {o} /\ ops'[o] = op /\ o \notin DOMAIN ops
        /\ \A q \in DOMAIN ops : ops'[q] = [ops[q] EXCEPT !.solo = FALSE]
        /\ UNCHANGED <<conn, pool, entry>>
    BY DEF Begin
  <1>2. \A q \in DOMAIN ops : ~ [ops[q] EXCEPT !.solo = FALSE].solo
    BY DEF IInv, OpsOK, OpOK, Op
  <1> QED
    BY <1>1, <1>2 DEF SoloInv

LEMMA SoloAtOnce ==
    ASSUME IInv, AtOnce
    PROVE  SoloInv'
  <1>1. /\ DOMAIN ops' = DOMAIN ops
        /\ \A q \in DOMAIN ops : ops'[q] = [ops[q] EXCEPT !.solo = FALSE]
    BY DEF AtOnce
  <1>2. \A q \in DOMAIN ops : ~ [ops[q] EXCEPT !.solo = FALSE].solo
    BY DEF IInv, OpsOK, OpOK, Op
  <1> QED
    BY ZenonT(40), <1>1, <1>2 DEF SoloInv

LEMMA RowsAgain ==
    ASSUME NEW S
    PROVE  Rows(S) = RowsIn(S, conn) /\ Rows(S) = RowsIn(Ids(Rows(S)), conn)
  <1>1. Rows(S) = RowsIn(S, conn)
    BY DEF Rows, RowsIn
  <1>2. RowsIn(S, conn) = RowsIn(S \cap DOMAIN conn, conn)
    BY DEF RowsIn
  <1> QED
    BY <1>1, <1>2, RowsIds

(* The steps of a feed.                                                    *)
LEMMA SoloAccess ==
    ASSUME IInv, SoloInv, NEW o \in DOMAIN ops, NEW g \in ops[o].todo, Access(o, g)
    PROVE  SoloInv'
  <1> DEFINE op  == ops[o]
             acc == op.acc \cup {c \in DOMAIN conn : conn[c].active /\ g \in conn[c].groups}
             new == [op EXCEPT !.todo = op.todo \ {g}, !.acc = acc]
  <1>1. op \in Op /\ op.pc = "access" /\ Goto(o, new) /\ UNCHANGED <<conn, pool, entry>>
    BY DEF IInv, OpsOK, OpOK, Access
  <1>2. /\ new.kind = op.kind /\ new.pc = "access" /\ new.todo = op.todo \ {g}
        /\ new.acc = acc /\ new.seen = op.seen /\ new.solo = op.solo
    BY <1>1 DEF Op
  <1> HIDE DEF new
  <1>3. ASSUME op.solo
        PROVE  Fresh(new, conn', pool', entry')
    <2>1. /\ op.todo \subseteq Assigned /\ op.seen = {}
          /\ op.acc = AccessibleIn(conn, Assigned \ op.todo)
      BY <1>1, <1>3 DEF SoloInv, Fresh
    <2>2. \A c \in DOMAIN conn :
             conn[c].groups \cap (Assigned \ (op.todo \ {g})) # {}
                <=> conn[c].groups \cap (Assigned \ op.todo) # {} \/ g \in conn[c].groups
      BY <2>1
    <2>3. acc = AccessibleIn(conn, Assigned \ (op.todo \ {g}))
      BY <2>1, <2>2 DEF AccessibleIn
    <2> HIDE DEF acc
    <2> QED
      BY <1>1, <1>2, <2>1, <2>3 DEF Fresh
  <1> QED
    BY <1>1, <1>2, <1>3, SoloGoes DEF new

LEMMA SoloAccessKnown ==
    ASSUME IInv, SoloInv, NEW o \in DOMAIN ops, AccessKnown(o)
    PROVE  SoloInv'
  <1> DEFINE op  == ops[o]
             new == [op EXCEPT !.pc = "batch", !.todo = op.include]
  <1>1. /\ op \in Op /\ op.pc = "access" /\ op.todo = {} /\ Goto(o, new)
        /\ UNCHANGED <<conn, pool, entry>>
    BY DEF IInv, OpsOK, OpOK, AccessKnown
  <1>2. /\ new.pc = "batch" /\ new.acc = op.acc /\ new.seen = op.seen /\ new.solo = op.solo
    BY <1>1 DEF Op
  <1> HIDE DEF new
  <1>3. ASSUME op.solo
        PROVE  Fresh(new, conn', pool', entry')
    <2>1. op.seen = {} /\ op.acc = AccessibleIn(conn, Assigned \ op.todo)
      BY <1>1, <1>3 DEF SoloInv, Fresh
    <2>2. Assigned \ op.todo = Assigned
      BY <1>1
    <2> QED
      BY <1>1, <1>2, <2>1, <2>2 DEF Fresh
  <1> QED
    BY <1>1, <1>2, <1>3, SoloGoes DEF new

LEMMA SoloBatch ==
    ASSUME IInv, SoloInv, NEW o \in DOMAIN ops, NEW g \in ops[o].todo, Batch(o, g)
    PROVE  SoloInv'
  <1> DEFINE op    == ops[o]
             fresh == {b \in DOMAIN entry : entry[b].active /\ g \in entry[b].groups} \ op.seen
             some  == {b \in fresh : entry[b].cfg.ids \cap op.acc # {}}
             item(b) == [bal |-> b, cfg |-> entry[b].cfg, outs |-> Kept(entry[b].cfg, op.acc)]
             items == op.items \cup {item(b) : b \in some}
             new   == [op EXCEPT !.todo = op.todo \ {g}, !.seen = op.seen \cup fresh,
                                 !.items = items]
  <1>1. /\ op \in Op /\ op.pc = "batch" /\ Goto(o, new)
        /\ UNCHANGED <<conn, pool, entry>>
        /\ \A i \in op.items : i.bal \in op.seen
    BY DEF IInv, OpsOK, OpOK, Batch
  <1>2. /\ new.pc = "batch" /\ new.acc = op.acc /\ new.solo = op.solo
        /\ new.seen = op.seen \cup fresh /\ new.items = items
    BY <1>1 DEF Op
  <1> HIDE DEF new
  <1>3. \A b : item(b).bal = b /\ item(b).outs = Kept(entry[b].cfg, op.acc)
    OBVIOUS
  <1>4. fresh \subseteq DOMAIN entry /\ fresh \cap op.seen = {}
    OBVIOUS
  <1>5. ASSUME op.solo
        PROVE  Fresh(new, conn', pool', entry')
    <2>1. /\ op.acc = AccessibleIn(conn, Assigned) /\ op.seen \subseteq DOMAIN entry
          /\ \A b \in op.seen : ItemsOf(op, b) = CutOut(entry[b].cfg, op.acc)
      BY <1>1, <1>5 DEF SoloInv, Fresh
    <2>2. ASSUME NEW b \in op.seen
          PROVE  ItemsOf(new, b) = CutOut(entry[b].cfg, op.acc)
      <3>1. \A x \in {item(a) : a \in some} : x.bal # b
        BY <1>3, <1>4
      <3>2. {i \in items : i.bal = b} = {i \in op.items : i.bal = b}
        BY <3>1
      <3> QED
        BY <1>2, <2>1, <3>2 DEF ItemsOf
    <2>3. ASSUME NEW b \in fresh
          PROVE  ItemsOf(new, b) = CutOut(entry[b].cfg, op.acc)
      <3>1. \A i \in op.items : i.bal # b
        BY <1>1, <1>4
      <3>2. {i \in items : i.bal = b} = {i \in {item(a) : a \in some} : i.bal = b}
        BY <3>1
      <3>3. {i \in {item(a) : a \in some} : i.bal = b} = IF b \in some THEN {item(b)} ELSE {}
        BY <1>3
      <3>4. b \in some <=> entry[b].cfg.ids \cap op.acc # {}
        OBVIOUS
      <3> HIDE DEF items, some, item, fresh
      <3>5. ItemsOf(new, b) = IF b \in some THEN {item(b).outs} ELSE {}
        BY <1>2, <3>2, <3>3 DEF ItemsOf
      <3> QED
        BY <1>3, <3>4, <3>5 DEF CutOut
    <2> HIDE DEF fresh, items
    <2> QED
      BY <1>1, <1>2, <1>4, <2>1, <2>2, <2>3 DEF Fresh
  <1> QED
    BY <1>1, <1>2, <1>5, SoloGoes DEF new

(* The steps that find rows and write pools and copies.                    *)
LEMMA SoloCreates ==
    ASSUME IInv, SoloInv, NEW o \in DOMAIN ops, NEW b \in Bals, CreateBalancer(o, b)
    PROVE  SoloInv'
  <1> DEFINE op  == ops[o]
             new == [op EXCEPT !.pc = "createEntry", !.bal = {b}]
  <1>1. op \in Op /\ op.pc = "createBalancer" /\ Goto(o, new)
    BY DEF IInv, OpsOK, OpOK, CreateBalancer
  <1>2. new.pc = "createEntry" /\ new.kind = op.kind /\ new.solo = op.solo
    BY <1>1 DEF Op
  <1> HIDE DEF new
  <1>3. op.solo => Fresh(new, conn', pool', entry')
    BY <1>1, <1>2 DEF SoloInv, Fresh
  <1> QED
    BY <1>1, <1>2, <1>3, SoloGoes DEF new

LEMMA SoloFinds ==
    ASSUME IInv, SoloInv, NEW o \in DOMAIN ops, FindConnects(o)
    PROVE  SoloInv'
  <1> DEFINE op  == ops[o]
             pc  == IF op.kind = "update" THEN "writePool" ELSE "writeEntry"
             new == [op EXCEPT !.rows = Rows(op.ids), !.ids = {}, !.pc = pc]
  <1>1. /\ op \in Op /\ op.pc = "find" /\ UNCHANGED <<conn, pool, entry>>
        /\ End(o) \/ Goto(o, new)
    BY DEF IInv, OpsOK, OpOK, FindConnects
  <1>2. /\ new.pc = pc /\ new.rows = Rows(op.ids) /\ new.kind = op.kind
        /\ new.bal = op.bal /\ new.solo = op.solo
    BY <1>1 DEF Op
  <1>3. pc \in {"writePool", "writeEntry"} /\ (pc = "writePool" <=> op.kind = "update")
    OBVIOUS
  <1> HIDE DEF new, pc
  <1>4. ASSUME op.solo
        PROVE  Fresh(new, conn', pool', entry')
    <2>1. op.kind # "feed" /\ (op.kind # "update" => \A b \in op.bal : pool[b] = op.ids)
      BY <1>1, <1>4 DEF SoloInv, Fresh
    <2> QED
      BY <1>1, <1>2, <1>3, <2>1, RowsAgain DEF Fresh
  <1> QED
    BY <1>1, <1>2, <1>4, SoloGoes, SoloEnds DEF new, End

LEMMA SoloWrites ==
    ASSUME IInv, SoloInv, NEW o \in DOMAIN ops, WritePool(o) \/ WriteEntry(o)
    PROVE  SoloInv'
  <1> DEFINE op == ops[o]
  <1>0. op \in Op
    BY DEF IInv, OpsOK, OpOK
  <1>1. CASE WritePool(o)
    <2> DEFINE new == [op EXCEPT !.pc = "writeEntry"]
    <2>1. /\ op.pc = "writePool" /\ UNCHANGED <<conn, entry>>
          /\ pool' = [a \in DOMAIN pool |-> IF a \in op.bal THEN Ids(op.rows) ELSE pool[a]]
          /\ End(o) \/ (Goto(o, new) /\ op.bal \subseteq DOMAIN pool)
      BY <1>1 DEF WritePool, Ids
    <2>2. /\ new.pc = "writeEntry" /\ new.rows = op.rows /\ new.kind = op.kind
          /\ new.bal = op.bal /\ new.solo = op.solo
      BY <1>0 DEF Op
    <2> HIDE DEF new
    <2>3. ASSUME op.solo, op.bal \subseteq DOMAIN pool
          PROVE  Fresh(new, conn', pool', entry')
      <3>1. op.kind = "update" /\ op.rows = RowsIn(Ids(op.rows), conn)
        BY <2>1, <2>3 DEF SoloInv, Fresh
      <3>2. \A b \in op.bal : pool'[b] = Ids(op.rows)
        BY <2>1, <2>3
      <3> QED
        BY <2>1, <2>2, <3>1, <3>2 DEF Fresh
    <2> QED
      BY <2>1, <2>2, <2>3, SoloGoes, SoloEnds DEF new, End
  <1>2. CASE WriteEntry(o)
    <2> DEFINE new == [op EXCEPT !.pc = "detach", !.bal = {}, !.rows = {}]
    <2>1. op.pc = "writeEntry" /\ (End(o) \/ Goto(o, new))
      BY <1>2 DEF WriteEntry
    <2>2. new.pc = "detach" /\ new.kind = op.kind /\ new.solo = op.solo
      BY <1>0 DEF Op
    <2> HIDE DEF new
    <2>3. op.solo => Fresh(new, conn', pool', entry')
      BY <2>1, <2>2 DEF SoloInv, Fresh
    <2> QED
      BY <2>1, <2>2, <2>3, SoloGoes, SoloEnds DEF new, End
  <1> QED
    BY <1>1, <1>2

LEMMA SoloRemoves ==
    ASSUME IInv, SoloInv, NEW o \in DOMAIN ops,
           FindAffected(o) \/ \E a \in ops[o].aff : Detach(o, a)
    PROVE  SoloInv'
  <1> DEFINE op == ops[o]
  <1>0. op \in Op
    BY DEF IInv, OpsOK, OpOK
  <1>1. CASE FindAffected(o)
    <2>1. PICK aff : Goto(o, [op EXCEPT !.pc = "detach", !.aff = aff]) /\ op.pc = "affected"
      BY <1>1 DEF FindAffected
    <2> DEFINE new == [op EXCEPT !.pc = "detach", !.aff = aff]
    <2>2. new.pc = "detach" /\ new.kind = op.kind /\ new.solo = op.solo
      BY <1>0 DEF Op
    <2> HIDE DEF new
    <2>3. op.solo => Fresh(new, conn', pool', entry')
      BY <2>1, <2>2 DEF SoloInv, Fresh
    <2> QED
      BY <2>1, <2>2, <2>3, SoloGoes DEF new
  <1>2. CASE \E a \in op.aff : Detach(o, a)
    <2>0. PICK a \in op.aff : Detach(o, a)
      BY <1>2
    <2> DEFINE left == a.ids \ op.con
               rest == op.aff \ {a}
               gone == [op EXCEPT !.aff = rest]
               kept == [gone EXCEPT !.pc = "find", !.bal = {a.bal}, !.ids = left]
    <2>1. /\ op.pc = "detach"
          /\ \/ End(o)
             \/ Goto(o, gone)
             \/ Goto(o, kept) /\ a.bal \in DOMAIN pool /\ pool' = [pool EXCEPT ![a.bal] = left]
      BY <2>0 DEF Detach
    <2>2. /\ gone.pc = "detach" /\ gone.kind = op.kind /\ gone.solo = op.solo
          /\ kept.pc = "find" /\ kept.kind = op.kind /\ kept.solo = op.solo
          /\ kept.bal = {a.bal} /\ kept.ids = left
      BY <1>0, <2>1 DEF Op
    <2> HIDE DEF left, gone, kept
    <2>3. op.solo => Fresh(gone, conn', pool', entry')
      BY <2>1, <2>2 DEF SoloInv, Fresh
    <2>4. op.solo /\ a.bal \in DOMAIN pool /\ pool' = [pool EXCEPT ![a.bal] = left]
             => Fresh(kept, conn', pool', entry')
      BY ZenonT(40), <2>1, <2>2 DEF SoloInv, Fresh
    <2> QED
      BY <2>1, <2>2, <2>3, <2>4, SoloGoes, SoloEnds DEF End
  <1> QED
    BY <1>1, <1>2

LEMMA SoloRequests ==
    ASSUME IInv, SoloInv, NEW o \in Slots, Request(o)
    PROVE  SoloInv'
  <1>1. ASSUME NEW S, BeginCreate(o, S)
        PROVE  SoloInv'
    <2> DEFINE op == [NewOp("create") EXCEPT !.pc = "createBalancer", !.rows = Rows(S)]
    <2>1. /\ Begin(o, op) /\ op.pc = "createBalancer" /\ op.kind = "create"
          /\ op.solo = (DOMAIN ops = {})
      BY <1>1 DEF BeginCreate, NewOp
    <2> HIDE DEF op
    <2>2. Fresh(op, conn, pool, entry)
      BY <2>1 DEF Fresh
    <2> QED
      BY <2>1, <2>2, SoloBegins
  <1>2. ASSUME NEW b, NEW S, BeginUpdate(o, b, S)
        PROVE  SoloInv'
    <2> DEFINE op == [NewOp("update") EXCEPT !.pc = "find", !.bal = {b}, !.ids = S]
    <2>1. /\ Begin(o, op) /\ op.pc = "find" /\ op.kind = "update"
          /\ op.solo = (DOMAIN ops = {})
      BY <1>2 DEF BeginUpdate, NewOp
    <2> HIDE DEF op
    <2>2. Fresh(op, conn, pool, entry)
      BY <2>1 DEF Fresh
    <2> QED
      BY <2>1, <2>2, SoloBegins
  <1>3. ASSUME NEW c, BeginRemove(o, c)
        PROVE  SoloInv'
    <2> DEFINE op == [NewOp("remove") EXCEPT !.pc = "affected", !.con = {c}]
    <2>1. /\ Begin(o, op) /\ op.pc = "affected" /\ op.kind = "remove"
          /\ op.solo = (DOMAIN ops = {})
      BY <1>3 DEF BeginRemove, NewOp
    <2> HIDE DEF op
    <2>2. Fresh(op, conn, pool, entry)
      BY <2>1 DEF Fresh
    <2> QED
      BY <2>1, <2>2, SoloBegins
  <1>4. ASSUME NEW include, BeginFeed(o, include)
        PROVE  SoloInv'
    <2> DEFINE op == [NewOp("feed") EXCEPT !.pc = "access", !.todo = Assigned, !.include = include]
    <2>1. /\ Begin(o, op) /\ op.pc = "access" /\ op.todo = Assigned /\ op.seen = {}
          /\ op.acc = {} /\ op.solo = (DOMAIN ops = {})
      BY <1>4 DEF BeginFeed, NewOp
    <2> HIDE DEF op
    <2>2. AccessibleIn(conn, Assigned \ Assigned) = {}
      BY DEF AccessibleIn
    <2>3. Fresh(op, conn, pool, entry)
      BY <2>1, <2>2 DEF Fresh
    <2> QED
      BY <2>1, <2>3, SoloBegins
  <1> QED
    BY <1>1, <1>2, <1>3, <1>4 DEF Request

LEMMA SoloNext == IInv /\ SoloInv /\ [Next]_vars => SoloInv'
  <1> SUFFICES ASSUME IInv, SoloInv, [Next]_vars
               PROVE  SoloInv'
    OBVIOUS
  <1>1. CASE \E o \in Slots : Step(o)
    <2>1. PICK o \in DOMAIN ops : Step(o)
      BY <1>1 DEF Step
    <2>2. CASE CreateEntry(o) \/ DeleteConnect(o) \/ Respond(o)
      BY <2>2, SoloEnds DEF CreateEntry, DeleteConnect, Respond, End
    <2> QED
      BY <2>1, <2>2, SoloCreates, SoloFinds, SoloWrites, SoloRemoves, SoloAccess,
         SoloAccessKnown, SoloBatch DEF Step
  <1>2. CASE \E o \in DOMAIN ops : Throw(o)
    BY <1>2, SoloEnds DEF Throw
  <1>3. CASE \/ \E b \in Bals : RemoveBalancer(b) \/ RemoveEntry(b) \/ EditEntry(b)
             \/ \E c \in Conns : EditConnect(c)
    BY <1>3, SoloAtOnce DEF RemoveBalancer, RemoveEntry, EditEntry, EditConnect
  <1>4. CASE UNCHANGED vars
    BY <1>4 DEF vars, SoloInv
  <1> QED
    BY <1>1, <1>2, <1>3, <1>4, SoloRequests DEF Next

LEMMA SoloAlways == Spec => []SoloInv
  <1>1. Init => SoloInv
    BY DEF Init, None, SoloInv
  <1> QED
    BY <1>1, SoloNext, Invariance, PTL DEF Spec

(* On a whole config the filter keeps all that is accessible, and no more. *)
LEMMA KeptExact ==
    ASSUME NEW cfg, ConfigOK(cfg), Whole(cfg), NEW acc
    PROVE  Kept(cfg, acc) = {x \in cfg.outs : x.of \in acc}
  <1>1. ASSUME NEW x \in cfg.outs, x.of \in acc
        PROVE  x \in Kept(cfg, acc)
    <2>1. x.of \in cfg.ids
      BY DEF ConfigOK
    <2>2. Place(x.of, cfg.ids) = Place(x.of, {y.of : y \in cfg.outs})
      BY DEF Whole
    <2> QED
      BY <1>1, <2>1, <2>2 DEF Kept
  <1> QED
    BY <1>1, KeptAccessible

(* A feed that nothing overlaps with has of each whole balancer exactly    *)
(* the pool members the user has access to through any assigned group,     *)
(* switched on or not (assignedNames in buildJsonFeedForPanelUser).        *)
THEOREM SoloFeedExactCorrect == Spec => []SoloFeedExact
  <1>1. IInv /\ SoloInv => SoloFeedExact
    <2> SUFFICES ASSUME IInv, SoloInv, NEW o \in DOMAIN ops, ops[o].kind = "feed",
                        ops[o].solo, NEW b \in ops[o].seen, Whole(entry[b].cfg)
                 PROVE  LET own == {x \in entry[b].cfg.outs : Accessible(x.of)}
                        IN ItemsOf(ops[o], b) = IF own = {} THEN {} ELSE {own}
      BY DEF SoloFeedExact, Feeds, ItemsOf
    <2> DEFINE op == ops[o]
               cfg == entry[b].cfg
               own == {x \in cfg.outs : Accessible(x.of)}
    <2>1. op.pc = "batch" /\ Fresh(op, conn, pool, entry)
      BY DEF SoloInv, Fresh
    <2>2. /\ op.acc = AccessibleIn(conn, Assigned) /\ b \in DOMAIN entry
          /\ ItemsOf(op, b) = CutOut(cfg, op.acc)
      BY <2>1 DEF Fresh
    <2>3. ConfigOK(cfg)
      BY <2>2 DEF IInv, Tables
    <2>4. \A c : c \in op.acc <=> Accessible(c)
      BY <2>2 DEF AccessibleIn, Accessible
    <2>5. Kept(cfg, op.acc) = own
      BY <2>3, <2>4, KeptExact
    <2>6. cfg.ids \cap op.acc = {} <=> own = {}
      BY <2>3, <2>4 DEF Whole, ConfigOK
    <2> QED
      BY <2>2, <2>5, <2>6 DEF CutOut
  <1> QED
    BY <1>1, SoloAlways, Invariance, PTL

(* A copy rebuilt by a request that nothing overlaps with is made of the   *)
(* rows as they are and lists the pool, whatever was in disorder before    *)
(* (connect.updateMany in update and removeConnectFromAllBalancers).       *)
THEOREM SoloRebuildCorrect == Spec => SoloRebuild
  <1> DEFINE Rebuilt ==
        \A o \in DOMAIN ops :
          ops[o].pc = "writeEntry" /\ WriteEntry(o) /\ ops[o].solo =>
              \A b \in ops[o].bal \cap DOMAIN entry :
                  /\ entry'[b].cfg = Build(Rows(pool'[b]))
                  /\ ops[o].kind = "update" => entry'[b].cfg.ids = pool'[b]
  <1>1. IInv /\ SoloInv => Rebuilt
    <2> SUFFICES ASSUME IInv, SoloInv, NEW o \in DOMAIN ops, ops[o].pc = "writeEntry",
                        WriteEntry(o), ops[o].solo, NEW b \in ops[o].bal \cap DOMAIN entry
                 PROVE  /\ entry'[b].cfg = Build(Rows(pool'[b]))
                        /\ ops[o].kind = "update" => entry'[b].cfg.ids = pool'[b]
      OBVIOUS
    <2> DEFINE op == ops[o]
    <2>1. op.rows = Rows(pool[b]) /\ (op.kind = "update" => Ids(op.rows) = pool[b])
      <3>1. op.rows = RowsIn(pool[b], conn) /\ (op.kind = "update" => Ids(op.rows) = pool[b])
        BY DEF SoloInv, Fresh
      <3>2. RowsIn(pool[b], conn) = Rows(pool[b])
        BY DEF Rows, RowsIn
      <3> QED
        BY <3>1, <3>2
    <2>2. /\ pool' = pool
          /\ entry' = [a \in DOMAIN entry |->
                          IF a \in op.bal THEN [entry[a] EXCEPT !.cfg = Build(op.rows)]
                                          ELSE entry[a]]
      BY DEF WriteEntry
    <2>3. "cfg" \in DOMAIN entry[b]
      BY DEF IInv, Tables
    <2>4. entry'[b].cfg = Build(op.rows)
      BY <2>2, <2>3
    <2>5. Rows(pool'[b]) = Rows(pool[b])
      BY <2>2
    <2> QED
      BY <2>1, <2>2, <2>4, <2>5, BuildIds
  <1>2. Rebuilt <=> \A o \in DOMAIN ops :
          ops[o].pc = "writeEntry" /\ WriteEntry(o) /\ ops[o].solo =>
              \A b \in ops[o].bal \cap DOMAIN entry :
                  /\ entry'[b].cfg = Build(Rows(pool'[b]))
                  /\ ops[o].kind = "update" => entry'[b].cfg.ids = pool'[b]
    OBVIOUS
  <1> QED
    BY <1>1, SoloAlways, Invariance, PTL DEF SoloRebuild
=============================================================================
