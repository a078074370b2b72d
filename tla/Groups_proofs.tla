---------------------------- MODULE Groups_proofs ----------------------------
(***************************************************************************)
(* Type correctness of module Groups, and two invariants that hold however *)
(* requests overlap and wherever they stop: the reserved tag stands alone, *)
(* and no panel user is left without a group.  Both depend on copies that  *)
(* requests read earlier and write back, so the inductive invariant says   *)
(* what those copies are (OpOK).  Then what a request that nothing has     *)
(* overlapped can rely on (SoloInv): a rename leaves no trace of the old   *)
(* name, and tags give no connect a second main group.  At the end,        *)
(* requests that take turns and do not stop half-way implement the         *)
(* abstract specification Membership (TurnInv): rewriting a name           *)
(* everywhere amounts to a rename of the group.                            *)
(***************************************************************************)
EXTENDS Groups, FiniteSetTheorems, TLAPS

Alone(names) == Ungrouped \in names => names = {Ungrouped}

SavedPrefs == UNION {[ns -> BOOLEAN] : ns \in SUBSET Names}

UserRow == [groups: (SUBSET Names) \ {{}}, prefs: SavedPrefs]

TagCopy   == [id: Conns, was: SUBSET Names]
GroupCopy == [id: Users, was: SUBSET Names]
PrefsCopy == [id: Users, was: SavedPrefs]

Kinds == {"delete", "update", "tag", "createUser", "updateUser", "bulk", "savePrefs"}
Places == {"start", "deleteGroup", "deleteUsers", "pull", "check", "tagged", "retag",
           "regroup", "prefs", "writeGroup", "mains", "writeTags", "assert", "checkBulk",
           "readBulk", "bulk", "writePrefs"}
Flags == {"same", "on", "off"}
Modes == {"none", "add", "remove", "move", "set"}

Op == [kind: Kinds, pc: Places, gid: Gids, con: SUBSET Conns, who: SUBSET Users,
       old: Names, new: Names, flag: Flags, mode: Modes, names: SUBSET Names,
       todo: SUBSET (TagCopy \cup GroupCopy \cup PrefsCopy \cup Names), solo: BOOLEAN]

Renaming == {"check", "tagged", "retag", "regroup", "prefs"}

(* What a request in progress has read or checked.                         *)
OpOK(op) ==
    /\ op \in Op
    /\ op.pc = "deleteGroup" => op.gid # UngroupedId
    /\ op.pc \in Renaming =>
          op.gid # UngroupedId /\ op.old # Ungrouped /\ op.new # Ungrouped
    /\ op.pc = "writeGroup" => op.gid # UngroupedId \/ op.flag # "on"
    /\ op.pc = "retag" => \A t \in op.todo : t \in TagCopy /\ Alone(t.was) /\ op.old \in t.was
    /\ op.pc = "regroup" => op.todo \subseteq GroupCopy
    /\ op.pc \in {"prefs", "writePrefs"} => op.todo \subseteq PrefsCopy
    /\ op.pc \in {"mains", "writeTags"} => Alone(op.names)
    /\ op.pc = "assert" => op.kind \in {"createUser", "updateUser"} /\ op.names # {}
    /\ op.pc \in {"checkBulk", "readBulk"} =>
          op.mode \in {"add", "remove", "move", "set"} /\ op.todo = {}
    /\ op.pc = "bulk" => \A t \in op.todo :
          t \in GroupCopy /\ Regrouped(op, t.was) \in (SUBSET Names) \ {{}}

Tables ==
    /\ group \in [DOMAIN group -> [name: Names, main: BOOLEAN]]
    /\ DOMAIN group \subseteq Gids \ fresh
    /\ UngroupedId \in DOMAIN group
    /\ group[UngroupedId] = [name |-> Ungrouped, main |-> FALSE]
    /\ tags \in [Conns -> SUBSET Names]
    /\ \A c \in Conns : Alone(tags[c])
    /\ user \in [DOMAIN user -> UserRow]
    /\ DOMAIN user \subseteq Users

OpsOK ==
    /\ DOMAIN ops \subseteq Slots
    /\ \A o \in DOMAIN ops : OpOK(ops[o])
    /\ serial \in BOOLEAN /\ crashed \in BOOLEAN

IInv == Tables /\ OpsOK

-----------------------------------------------------------------------------
(* How requests start, go on and end.                                      *)
LEMMA SoloOK ==
    ASSUME NEW op, OpOK(op)
    PROVE  OpOK([op EXCEPT !.solo = FALSE])
  <1> DEFINE new == [op EXCEPT !.solo = FALSE]
  <1>1. op \in Op
    BY DEF OpOK
  <1>2. /\ new \in Op
        /\ new.kind = op.kind /\ new.pc = op.pc /\ new.gid = op.gid /\ new.old = op.old
        /\ new.new = op.new /\ new.flag = op.flag /\ new.mode = op.mode
        /\ new.names = op.names /\ new.todo = op.todo
    BY <1>1 DEF Op
  <1>3. \A x : Regrouped(new, x) = Regrouped(op, x)
    BY <1>2 DEF Regrouped
  <1> HIDE DEF new
  <1>4. OpOK(new)
    BY <1>2, <1>3 DEF OpOK
  <1> QED
    BY <1>4 DEF new

LEMMA GotoOK ==
    ASSUME OpsOK, NEW o \in DOMAIN ops, NEW op, OpOK(op), Goto(o, op)
    PROVE  OpsOK'
  BY DEF OpsOK, Goto

LEMMA EndOK ==
    ASSUME OpsOK, NEW o \in DOMAIN ops, End(o)
    PROVE  OpsOK'
  BY DEF OpsOK, End, Restrict

LEMMA BeginOK ==
    ASSUME IInv, NEW o \in Slots, NEW op, OpOK(op), Begin(o, op)
    PROVE  IInv'
  <1>1. \A q \in DOMAIN ops : OpOK([ops[q] EXCEPT !.solo = FALSE])
    BY SoloOK DEF IInv, OpsOK
  <1>2. OpsOK'
    BY <1>1 DEF IInv, OpsOK, Begin
  <1>3. Tables'
    BY DEF IInv, Tables, Begin
  <1> QED
    BY <1>2, <1>3 DEF IInv

LEMMA AtOnceOK ==
    ASSUME OpsOK, AtOnce
    PROVE  OpsOK'
  <1>1. \A q \in DOMAIN ops : OpOK([ops[q] EXCEPT !.solo = FALSE])
    BY SoloOK DEF OpsOK
  <1> QED
    BY <1>1 DEF OpsOK, AtOnce

(* The fresh local variables of a request.                                 *)
LEMMA NewOpType ==
    ASSUME NEW k \in Kinds
    PROVE  /\ NewOp(k) \in Op
           /\ NewOp(k).kind = k /\ NewOp(k).todo = {}
  <1> DEFINE op(b) ==
              [kind |-> k, pc |-> "start", gid |-> UngroupedId, con |-> {}, who |-> {},
               old |-> Ungrouped, new |-> Ungrouped, flag |-> "same", mode |-> "none",
               names |-> {}, todo |-> {}, solo |-> b]
  <1>1. \A b \in BOOLEAN : op(b) \in Op /\ op(b).kind = k /\ op(b).todo = {}
    <2> SUFFICES ASSUME NEW b \in BOOLEAN PROVE op(b) \in Op
      OBVIOUS
    <2>1. {} \in SUBSET (TagCopy \cup GroupCopy \cup PrefsCopy \cup Names)
      OBVIOUS
    <2> QED
      BY <2>1, NamesAssumption DEF Op, Places, Flags, Modes
  <1>2. NewOp(k) = op(DOMAIN ops = {})
    BY DEF NewOp
  <1>3. (DOMAIN ops = {}) \in BOOLEAN
    OBVIOUS
  <1> QED
    BY <1>1, <1>2, <1>3

(* Names as they are stored on a connect.                                  *)
LEMMA NormalizedAlone ==
    ASSUME NEW names \in SUBSET Names
    PROVE  Normalized(names) \in SUBSET Names /\ Alone(Normalized(names))
  BY NamesAssumption DEF Normalized, Alone

-----------------------------------------------------------------------------
(* Requests at their first step.                                           *)
LEMMA BeginTypes ==
    ASSUME IInv, NEW o \in Slots, Request(o)
    PROVE  IInv'
  <1> USE DEF IInv
  <1>1. ASSUME NEW g \in Gids, BeginDelete(o, g)
        PROVE  IInv'
    <2> DEFINE op == [NewOp("delete") EXCEPT !.pc = "deleteGroup", !.gid = g,
                                             !.old = group[g].name]
    <2>1. g \in DOMAIN group /\ g # UngroupedId /\ group[g].name \in Names
      BY <1>1 DEF BeginDelete, Tables
    <2>2. NewOp("delete") \in Op
      BY NewOpType DEF Kinds
    <2>3. op \in Op /\ op.pc = "deleteGroup" /\ op.gid = g
      BY <2>1, <2>2 DEF Op, Places
    <2> HIDE DEF op
    <2>4. OpOK(op)
      BY <2>1, <2>3 DEF OpOK, Renaming
    <2> QED
      BY <1>1, <2>4, BeginOK DEF BeginDelete, op
  <1>2. ASSUME NEW g \in Gids, NEW n \in Names, NEW flag \in {"same", "on", "off"},
               BeginUpdate(o, g, n, flag)
        PROVE  IInv'
    <2> DEFINE pc == IF n = group[g].name THEN "writeGroup" ELSE "check"
               op == [NewOp("update") EXCEPT !.gid = g, !.old = group[g].name, !.new = n,
                                             !.flag = flag, !.pc = pc]
    <2>1. /\ g \in DOMAIN group /\ group[g].name \in Names
          /\ pc = "check" => g # UngroupedId /\ n # Ungrouped /\ group[g].name # Ungrouped
          /\ g = UngroupedId => flag # "on"
      BY <1>2 DEF BeginUpdate, Tables
    <2>2. NewOp("update") \in Op
      BY NewOpType DEF Kinds
    <2>3. pc \in {"writeGroup", "check"}
      OBVIOUS
    <2> HIDE DEF pc
    <2>4. /\ op \in Op /\ op.pc = pc /\ op.gid = g /\ op.old = group[g].name /\ op.new = n
          /\ op.flag = flag
      BY <2>1, <2>2, <2>3 DEF Op, Places, Flags
    <2> HIDE DEF op
    <2>5. OpOK(op)
      BY <2>1, <2>3, <2>4 DEF OpOK, Renaming
    <2>6. Begin(o, op)
      BY <1>2 DEF BeginUpdate, op, pc
    <2> QED
      BY <2>5, <2>6, BeginOK
  <1>3. ASSUME NEW c \in Conns, NEW names \in SUBSET Names, BeginTag(o, c, names)
        PROVE  IInv'
    <2> DEFINE pc == IF Cardinality(Normalized(names)) < 2 THEN "writeTags" ELSE "mains"
               op == [NewOp("tag") EXCEPT !.con = {c}, !.names = Normalized(names), !.pc = pc]
    <2>1. NewOp("tag") \in Op
      BY NewOpType DEF Kinds
    <2>2. pc \in {"writeTags", "mains"}
      OBVIOUS
    <2> HIDE DEF pc
    <2>3. Normalized(names) \in SUBSET Names /\ Alone(Normalized(names))
      BY NormalizedAlone
    <2>4. op \in Op /\ op.pc = pc /\ op.names = Normalized(names)
      BY <2>1, <2>2, <2>3 DEF Op, Places
    <2> HIDE DEF op
    <2>5. OpOK(op)
      BY <2>2, <2>3, <2>4 DEF OpOK, Renaming
    <2>6. Begin(o, op)
      BY <1>3 DEF BeginTag, op, pc
    <2> QED
      BY <2>5, <2>6, BeginOK
  <1>4. ASSUME NEW kind \in {"createUser", "updateUser"}, NEW u \in Users,
               NEW names \in SUBSET Names, BeginUser(o, kind, u, names)
        PROVE  IInv'
    <2> DEFINE op == [NewOp(kind) EXCEPT !.pc = "assert", !.who = {u}, !.names = names,
                                         !.todo = names]
    <2>1. NewOp(kind) \in Op /\ NewOp(kind).kind = kind
      BY NewOpType DEF Kinds
    <2>2. names # {}
      BY <1>4 DEF BeginUser
    <2>3. names \in SUBSET (TagCopy \cup GroupCopy \cup PrefsCopy \cup Names)
      OBVIOUS
    <2>4. op \in Op /\ op.pc = "assert" /\ op.names = names /\ op.kind = kind
      BY <2>1, <2>3 DEF Op, Places
    <2> HIDE DEF op
    <2>5. OpOK(op)
      BY <2>2, <2>4 DEF OpOK, Renaming
    <2>6. Begin(o, op)
      BY <1>4 DEF BeginUser, op
    <2> QED
      BY <2>5, <2>6, BeginOK
  <1>5. ASSUME NEW mode \in {"add", "remove", "move", "set"}, NEW us \in SUBSET Users,
               NEW n \in Names, NEW from \in Names, BeginBulk(o, mode, us, n, from)
        PROVE  IInv'
    <2> DEFINE op == [NewOp("bulk") EXCEPT !.pc = "checkBulk", !.mode = mode, !.who = us,
                                           !.new = n, !.old = from]
    <2>1. NewOp("bulk") \in Op /\ NewOp("bulk").todo = {}
      BY NewOpType DEF Kinds
    <2>2. op \in Op /\ op.pc = "checkBulk" /\ op.mode = mode /\ op.todo = {}
      BY <2>1 DEF Op, Places, Modes
    <2> HIDE DEF op
    <2>3. OpOK(op)
      BY <2>2 DEF OpOK, Renaming
    <2>4. Begin(o, op)
      BY <1>5 DEF BeginBulk, op
    <2> QED
      BY <2>3, <2>4, BeginOK
  <1>6. ASSUME NEW u \in DOMAIN user, NEW p \in [user[u].groups -> BOOLEAN], BeginPrefs(o, u, p)
        PROVE  IInv'
    <2> DEFINE row == [id |-> u, was |-> p]
               op == [NewOp("savePrefs") EXCEPT !.pc = "writePrefs", !.todo = {row}]
    <2>1. NewOp("savePrefs") \in Op
      BY NewOpType DEF Kinds
    <2>2. row \in PrefsCopy
      <3>1. u \in Users /\ user[u].groups \in SUBSET Names
        BY DEF Tables, UserRow
      <3>2. p \in SavedPrefs
        BY <3>1 DEF SavedPrefs
      <3> QED
        BY <3>1, <3>2 DEF PrefsCopy
    <2> HIDE DEF row
    <2>3. op \in Op /\ op.pc = "writePrefs" /\ op.todo = {row}
      BY <2>1, <2>2 DEF Op, Places
    <2> HIDE DEF op
    <2>4. OpOK(op)
      BY <2>2, <2>3 DEF OpOK, Renaming
    <2>5. Begin(o, op)
      BY <1>6 DEF BeginPrefs, op, row
    <2> QED
      BY <2>4, <2>5, BeginOK
  <1> QED
    BY <1>1, <1>2, <1>3, <1>4, <1>5, <1>6 DEF Request

-----------------------------------------------------------------------------
(* Steps that only read.                                                   *)
LEMMA NewPlace ==
    ASSUME NEW op \in Op, NEW pc \in Places
    PROVE  LET new == [op EXCEPT !.pc = pc] IN
           /\ new \in Op /\ new.pc = pc /\ new.kind = op.kind /\ new.gid = op.gid
           /\ new.old = op.old /\ new.new = op.new /\ new.flag = op.flag
           /\ new.mode = op.mode /\ new.names = op.names /\ new.todo = op.todo
  BY DEF Op

(* A request with less left to do.                                         *)
LEMMA LessTodo ==
    ASSUME NEW op, OpOK(op), NEW t
    PROVE  OpOK([op EXCEPT !.todo = @ \ {t}])
  <1> DEFINE new == [op EXCEPT !.todo = op.todo \ {t}]
  <1>1. op \in Op
    BY DEF OpOK
  <1>2. /\ new \in Op /\ new.todo = op.todo \ {t}
        /\ new.kind = op.kind /\ new.pc = op.pc /\ new.gid = op.gid /\ new.old = op.old
        /\ new.new = op.new /\ new.flag = op.flag /\ new.mode = op.mode
        /\ new.names = op.names
    BY <1>1 DEF Op
  <1>3. \A x : Regrouped(new, x) = Regrouped(op, x)
    BY <1>2 DEF Regrouped
  <1> HIDE DEF new
  <1>4. OpOK(new)
    BY <1>2, <1>3 DEF OpOK
  <1> QED
    BY <1>4 DEF new

(* updateGroupSettings up to each of its loops.                            *)
LEMMA RenameReads ==
    ASSUME IInv, NEW o \in DOMAIN ops,
           CheckTaken(o) \/ FindTagged(o) \/ FindMembers(o) \/ FindPrefs(o)
    PROVE  IInv'
  <1> DEFINE op == ops[o]
  <1>1. Tables /\ OpsOK /\ OpOK(op) /\ op \in Op
    BY DEF IInv, OpsOK, OpOK
  <1>2. Tables'
    BY <1>1 DEF Tables, CheckTaken, FindTagged, FindMembers, FindPrefs
  <1>3. CASE CheckTaken(o)
    <2>1. "tagged" \in Places
      BY DEF Places
    <2>2. OpOK([op EXCEPT !.pc = "tagged"])
      BY <1>1, <1>3, <2>1, NewPlace DEF OpOK, Renaming, CheckTaken
    <2>3. End(o) \/ Goto(o, [op EXCEPT !.pc = "tagged"])
      BY <1>3 DEF CheckTaken
    <2> QED
      BY <1>1, <1>2, <2>2, <2>3, EndOK, GotoOK DEF IInv
  <1>4. CASE FindTagged(o)
    <2> DEFINE todo == {[id |-> c, was |-> tags[c]] : c \in {c \in Conns : op.old \in tags[c]}}
               new  == [op EXCEPT !.pc = "retag", !.todo = todo]
    <2>1. \A t \in todo : t \in TagCopy /\ Alone(t.was) /\ op.old \in t.was
      BY <1>1 DEF Tables, TagCopy
    <2> HIDE DEF todo
    <2>2. todo \in SUBSET (TagCopy \cup GroupCopy \cup PrefsCopy \cup Names) /\ "retag" \in Places
      BY <2>1 DEF Places
    <2>3. /\ new \in Op /\ new.pc = "retag" /\ new.gid = op.gid
          /\ new.old = op.old /\ new.new = op.new /\ new.todo = todo
      BY <1>1, <2>2 DEF Op
    <2> HIDE DEF new
    <2>4. OpOK(new)
      BY <1>1, <1>4, <2>1, <2>3 DEF OpOK, Renaming, FindTagged
    <2>5. Goto(o, new)
      BY <1>4 DEF FindTagged, new, todo
    <2> QED
      BY <1>1, <1>2, <2>4, <2>5, GotoOK DEF IInv
  <1>5. CASE FindMembers(o)
    <2> DEFINE todo == {[id |-> u, was |-> user[u].groups] : u \in MembersOf(op.old)}
               new  == [op EXCEPT !.pc = "regroup", !.todo = todo]
    <2>1. todo \subseteq GroupCopy
      BY <1>1 DEF Tables, GroupCopy, MembersOf, UserRow
    <2> HIDE DEF todo
    <2>2. todo \in SUBSET (TagCopy \cup GroupCopy \cup PrefsCopy \cup Names) /\ "regroup" \in Places
      BY <2>1 DEF Places
    <2>3. /\ new \in Op /\ new.pc = "regroup" /\ new.gid = op.gid
          /\ new.old = op.old /\ new.new = op.new /\ new.todo = todo
      BY <1>1, <2>2 DEF Op
    <2> HIDE DEF new
    <2>4. OpOK(new)
      BY <1>1, <1>5, <2>1, <2>3 DEF OpOK, Renaming, FindMembers
    <2>5. Goto(o, new)
      BY <1>5 DEF FindMembers, new, todo
    <2> QED
      BY <1>1, <1>2, <2>4, <2>5, GotoOK DEF IInv
  <1>6. CASE FindPrefs(o)
    <2> DEFINE todo == {[id |-> u, was |-> user[u].prefs] :
                           u \in {u \in DOMAIN user : op.old \in DOMAIN user[u].prefs}}
               new  == [op EXCEPT !.pc = "prefs", !.todo = todo]
    <2>1. todo \subseteq PrefsCopy
      BY <1>1 DEF Tables, PrefsCopy, UserRow
    <2> HIDE DEF todo
    <2>2. todo \in SUBSET (TagCopy \cup GroupCopy \cup PrefsCopy \cup Names) /\ "prefs" \in Places
      BY <2>1 DEF Places
    <2>3. /\ new \in Op /\ new.pc = "prefs" /\ new.gid = op.gid
          /\ new.old = op.old /\ new.new = op.new /\ new.todo = todo
      BY <1>1, <2>2 DEF Op
    <2> HIDE DEF new
    <2>4. OpOK(new)
      BY <1>1, <1>6, <2>1, <2>3 DEF OpOK, Renaming, FindPrefs
    <2>5. Goto(o, new)
      BY <1>6 DEF FindPrefs, new, todo
    <2> QED
      BY <1>1, <1>2, <2>4, <2>5, GotoOK DEF IInv
  <1> QED
    BY <1>3, <1>4, <1>5, <1>6

(* The checks of setConnectGroups, createUser and bulkUpdatePanelUsers.    *)
LEMMA OtherReads ==
    ASSUME IInv, NEW o \in DOMAIN ops,
           \/ CheckMains(o) \/ CheckBulk(o) \/ ReadBulk(o)
           \/ \E n \in ops[o].todo : AssertGroupExists(o, n)
    PROVE  IInv'
  <1> DEFINE op == ops[o]
  <1>1. Tables /\ OpsOK /\ OpOK(op) /\ op \in Op
    BY DEF IInv, OpsOK, OpOK
  <1>2. Tables'
    BY <1>1 DEF Tables, CheckMains, CheckBulk, ReadBulk, AssertGroupExists
  <1>3. CASE CheckMains(o)
    <2>1. "writeTags" \in Places
      BY DEF Places
    <2>2. OpOK([op EXCEPT !.pc = "writeTags"])
      BY <1>1, <1>3, <2>1, NewPlace DEF OpOK, Renaming, CheckMains
    <2>3. End(o) \/ Goto(o, [op EXCEPT !.pc = "writeTags"])
      BY <1>3 DEF CheckMains
    <2> QED
      BY <1>1, <1>2, <2>2, <2>3, EndOK, GotoOK DEF IInv
  <1>4. CASE CheckBulk(o)
    <2>1. "readBulk" \in Places
      BY DEF Places
    <2>2. OpOK([op EXCEPT !.pc = "readBulk"])
      BY <1>1, <1>4, <2>1, NewPlace DEF OpOK, Renaming, CheckBulk
    <2>3. End(o) \/ Goto(o, [op EXCEPT !.pc = "readBulk"])
      BY <1>4 DEF CheckBulk
    <2> QED
      BY <1>1, <1>2, <2>2, <2>3, EndOK, GotoOK DEF IInv
  <1>5. ASSUME NEW n \in op.todo, AssertGroupExists(o, n)
        PROVE  IInv'
    <2>1. OpOK([op EXCEPT !.todo = @ \ {n}])
      BY <1>1, LessTodo
    <2>2. End(o) \/ Goto(o, [op EXCEPT !.todo = @ \ {n}])
      BY <1>5 DEF AssertGroupExists
    <2> QED
      BY <1>1, <1>2, <2>1, <2>2, EndOK, GotoOK DEF IInv
  <1>6. CASE ReadBulk(o)
    <2> DEFINE rows == {[id |-> u, was |-> user[u].groups] :
                           u \in {u \in op.who \cap DOMAIN user :
                                     op.mode = "move" => op.old \in user[u].groups}}
               todo == {t \in rows : op.mode = "move" \/ Regrouped(op, t.was) # t.was}
               new  == [op EXCEPT !.pc = "bulk", !.todo = todo]
    <2>1. \A t \in rows : t \in GroupCopy /\ t.was # {}
      BY <1>1 DEF Tables, GroupCopy, UserRow
    <2> HIDE DEF rows
    <2>2. /\ todo \in SUBSET (TagCopy \cup GroupCopy \cup PrefsCopy \cup Names)
          /\ "bulk" \in Places
      BY <2>1 DEF Places
    <2>3. \A t \in todo : t \in rows
      OBVIOUS
    <2> HIDE DEF todo
    <2>4. /\ new \in Op /\ new.pc = "bulk" /\ new.old = op.old /\ new.new = op.new
          /\ new.mode = op.mode /\ new.todo = todo
      BY <1>1, <2>2 DEF Op
    <2> HIDE DEF new
    <2>5. End(o) \/ (Goto(o, new) /\ \A t \in rows : ~ LastGroup(op, t.was))
      BY <1>6 DEF ReadBulk, new, todo, rows
    <2>6. ASSUME \A t \in rows : ~ LastGroup(op, t.was)
          PROVE  OpOK(new)
      <3>1. op.mode \in {"add", "remove", "move"} /\ op.new \in Names /\ op.old \in Names
        BY <1>1, <1>6 DEF ReadBulk, OpOK, Op
      <3>2. ASSUME NEW t \in rows
            PROVE  Regrouped(new, t.was) \in (SUBSET Names) \ {{}}
        <4>1. t.was \in SUBSET Names /\ t.was # {}
          BY <2>1 DEF GroupCopy
        <4>2. CASE op.mode = "add"
          BY <2>4, <3>1, <4>1, <4>2 DEF Regrouped
        <4>3. CASE op.mode = "move"
          BY <2>4, <3>1, <4>1, <4>3 DEF Regrouped
        <4>4. CASE op.mode = "remove"
          BY <2>4, <2>6, <3>1, <4>1, <4>4 DEF Regrouped, LastGroup
        <4> QED
          BY <3>1, <4>2, <4>3, <4>4
      <3> QED
        BY <2>1, <2>3, <2>4, <3>2 DEF OpOK, Renaming
    <2> QED
      BY <1>1, <1>2, <2>5, <2>6, EndOK, GotoOK DEF IInv
  <1> QED
    BY <1>3, <1>4, <1>5, <1>6

-----------------------------------------------------------------------------
(* Steps that write.                                                       *)
LEMMA GroupWrites ==
    ASSUME IInv, NEW o \in DOMAIN ops, DeleteGroup(o) \/ WriteGroup(o)
    PROVE  IInv'
  <1> DEFINE op == ops[o]
  <1>1. Tables /\ OpsOK /\ OpOK(op) /\ op \in Op
    BY DEF IInv, OpsOK, OpOK
  <1>2. CASE DeleteGroup(o)
    <2>1. Tables'
      BY <1>1, <1>2 DEF Tables, DeleteGroup, OpOK, Restrict
    <2>2. "deleteUsers" \in Places
      BY DEF Places
    <2>3. OpOK([op EXCEPT !.pc = "deleteUsers"])
      BY <1>1, <1>2, <2>2, NewPlace DEF OpOK, Renaming, DeleteGroup
    <2>4. End(o) \/ Goto(o, [op EXCEPT !.pc = "deleteUsers"])
      BY <1>2 DEF DeleteGroup
    <2> QED
      BY <1>1, <2>1, <2>3, <2>4, EndOK, GotoOK DEF IInv
  <1>3. CASE WriteGroup(o)
    <2>1. /\ op.pc \in {"writeGroup", "prefs"}
          /\ op.new \in Names
          /\ op.gid = UngroupedId => op.pc = "writeGroup" /\ op.flag # "on"
      BY <1>1, <1>3 DEF WriteGroup, OpOK, Op, Renaming
    <2>2. PICK ok \in BOOLEAN :
             group' = [g \in DOMAIN group |->
                    IF g = op.gid /\ ok
                    THEN [name |-> IF op.pc = "prefs" THEN op.new ELSE group[g].name,
                          main |-> IF op.flag = "same" THEN group[g].main
                                                       ELSE op.flag = "on"]
                    ELSE group[g]]
      <3> DEFINE ok == /\ op.gid \in DOMAIN group
                       /\ \A g \in DOMAIN group : group[g].name = op.new => g = op.gid
      <3>1. ok \in BOOLEAN
        OBVIOUS
      <3> QED
        BY <1>3, <3>1 DEF WriteGroup
    <2>3. \A g \in DOMAIN group : group[g].name \in Names /\ group[g].main \in BOOLEAN
      BY <1>1 DEF Tables
    <2>4. group' \in [DOMAIN group -> [name: Names, main: BOOLEAN]]
      BY <2>1, <2>2, <2>3, <1>1 DEF Tables
    <2>5. group'[UngroupedId] = [name |-> Ungrouped, main |-> FALSE]
      <3>1. /\ group[UngroupedId].name = Ungrouped /\ group[UngroupedId].main = FALSE
            /\ UngroupedId \in DOMAIN group
            /\ group[UngroupedId] = [name |-> Ungrouped, main |-> FALSE]
        BY <1>1 DEF Tables
      <3>2. CASE op.gid = UngroupedId /\ ok
        <4>1. op.pc # "prefs" /\ (op.flag = "on") = FALSE
          BY <2>1, <3>2
        <4> QED
          BY <2>2, <3>1, <3>2, <4>1
      <3>3. CASE ~ (op.gid = UngroupedId /\ ok)
        BY <2>2, <3>1, <3>3
      <3> QED
        BY <3>2, <3>3
    <2>6. Tables'
      BY <1>1, <1>3, <2>4, <2>5 DEF Tables, WriteGroup
    <2> QED
      BY <1>1, <1>3, <2>6, EndOK DEF IInv, WriteGroup
  <1> QED
    BY <1>2, <1>3

LEMMA TagWrites ==
    ASSUME IInv, NEW o \in DOMAIN ops,
           PullTag(o) \/ WriteTags(o) \/ (\E t \in ops[o].todo : Retag(o, t))
    PROVE  IInv'
  <1> DEFINE op == ops[o]
  <1>1. Tables /\ OpsOK /\ OpOK(op) /\ op \in Op
    BY DEF IInv, OpsOK, OpOK
  <1>2. CASE PullTag(o)
    <2>1. Tables'
      BY <1>1, <1>2 DEF Tables, PullTag, Alone
    <2> QED
      BY <1>1, <1>2, <2>1, EndOK DEF IInv, PullTag
  <1>3. CASE WriteTags(o)
    <2>1. op.names \in SUBSET Names /\ Alone(op.names)
      BY <1>1, <1>3 DEF OpOK, Op, WriteTags
    <2>2. Tables'
      BY <1>1, <1>3, <2>1 DEF Tables, WriteTags
    <2> QED
      BY <1>1, <1>3, <2>2, EndOK DEF IInv, WriteTags
  <1>4. ASSUME NEW t \in op.todo, Retag(o, t)
        PROVE  IInv'
    <2>1. /\ t \in TagCopy /\ Alone(t.was) /\ op.old \in t.was
          /\ op.old # Ungrouped /\ op.new # Ungrouped /\ op.new \in Names
      BY <1>1, <1>4 DEF Retag, OpOK, Op, Renaming
    <2>2. t.was \in SUBSET Names /\ Ungrouped \notin t.was
      BY <2>1 DEF TagCopy, Alone
    <2>3. Renamed(t.was, op.old, op.new) \in SUBSET Names /\ Alone(Renamed(t.was, op.old, op.new))
      BY <2>1, <2>2 DEF Renamed, Alone
    <2>4. Tables'
      BY <1>1, <1>4, <2>3 DEF Tables, Retag
    <2>5. OpOK([op EXCEPT !.todo = @ \ {t}])
      BY <1>1, LessTodo
    <2> QED
      BY <1>1, <1>4, <2>4, <2>5, GotoOK DEF IInv, Retag
  <1> QED
    BY <1>2, <1>3, <1>4

(* The loops over users: what is written is computed from a copy.          *)
LEMMA WriteUserOK ==
    ASSUME IInv, NEW o \in DOMAIN ops, NEW t, NEW new,
           \A u \in DOMAIN user : new[u] \in UserRow,
           WriteUser(o, t, new)
    PROVE  IInv'
  <1>1. Tables /\ OpsOK /\ OpOK(ops[o])
    BY DEF IInv, OpsOK
  <1>2. Tables'
    BY <1>1 DEF Tables, WriteUser
  <1>3. OpOK([ops[o] EXCEPT !.todo = @ \ {t}])
    BY <1>1, LessTodo
  <1>4. End(o) \/ Goto(o, [ops[o] EXCEPT !.todo = @ \ {t}])
    BY DEF WriteUser
  <1> QED
    BY <1>1, <1>2, <1>3, <1>4, EndOK, GotoOK DEF IInv

LEMMA UserLoops ==
    ASSUME IInv, NEW o \in DOMAIN ops, NEW t \in ops[o].todo,
           RenameMember(o, t) \/ RenamePrefs(o, t) \/ RegroupUser(o, t)
    PROVE  IInv'
  <1> DEFINE op == ops[o]
  <1>1. Tables /\ OpsOK /\ OpOK(op) /\ op \in Op
    BY DEF IInv, OpsOK, OpOK
  <1>2. \A u \in DOMAIN user : user[u] \in UserRow
    BY <1>1 DEF Tables
  <1>3. CASE RenameMember(o, t)
    <2> DEFINE names == Renamed(t.was, op.old, op.new)
               new == [u \in DOMAIN user |-> [user[u] EXCEPT !.groups = names]]
    <2>1. t \in GroupCopy /\ op.new \in Names
      BY <1>1, <1>3 DEF RenameMember, OpOK, Op
    <2>2. names \in (SUBSET Names) \ {{}}
      BY <2>1 DEF Renamed, GroupCopy
    <2> HIDE DEF names
    <2>3. \A u \in DOMAIN user : new[u] \in UserRow
      BY <1>2, <2>2 DEF UserRow
    <2>4. WriteUser(o, t, new)
      BY <1>3 DEF RenameMember, names
    <2> QED
      BY <2>3, <2>4, WriteUserOK
  <1>4. CASE RenamePrefs(o, t)
    <2>1. t \in PrefsCopy /\ op.new \in Names /\ op.old \in Names
      BY <1>1, <1>4 DEF RenamePrefs, OpOK, Op
    <2>2. PICK p \in PrefsRenamed(t.was, op.old, op.new) :
             WriteUser(o, t, [u \in DOMAIN user |-> [user[u] EXCEPT !.prefs = p]])
      BY <1>4 DEF RenamePrefs
    <2>3. p \in SavedPrefs
      <3>1. DOMAIN t.was \in SUBSET Names
        BY <2>1 DEF PrefsCopy, SavedPrefs
      <3>2. Renamed(DOMAIN t.was, op.old, op.new) \in SUBSET Names
        BY <2>1, <3>1 DEF Renamed
      <3>3. p \in [Renamed(DOMAIN t.was, op.old, op.new) -> BOOLEAN]
        BY <2>2 DEF PrefsRenamed
      <3> QED
        BY <3>2, <3>3 DEF SavedPrefs
    <2> DEFINE new == [u \in DOMAIN user |-> [user[u] EXCEPT !.prefs = p]]
    <2>4. \A u \in DOMAIN user : new[u] \in UserRow
      BY <1>2, <2>3 DEF UserRow
    <2> QED
      BY <2>2, <2>4, WriteUserOK
  <1>5. CASE RegroupUser(o, t)
    <2> DEFINE names == Regrouped(op, t.was)
               new == [u \in DOMAIN user |-> [user[u] EXCEPT !.groups = names]]
    <2>1. names \in (SUBSET Names) \ {{}}
      BY <1>1, <1>5 DEF RegroupUser, OpOK
    <2> HIDE DEF names
    <2>2. \A u \in DOMAIN user : new[u] \in UserRow
      BY <1>2, <2>1 DEF UserRow
    <2>3. WriteUser(o, t, new)
      BY <1>5 DEF RegroupUser, names
    <2> QED
      BY <2>2, <2>3, WriteUserOK
  <1> QED
    BY <1>3, <1>4, <1>5

LEMMA NonePrefs == None \in SavedPrefs
  <1>1. None \in [{} -> BOOLEAN]
    BY DEF None
  <1> QED
    BY <1>1 DEF SavedPrefs

LEMMA UserWrites ==
    ASSUME IInv, NEW o \in DOMAIN ops,
           DeleteUsers(o) \/ SaveUser(o) \/ SetGroup(o) \/ ResetPrefs(o) \/ WritePrefs(o)
    PROVE  IInv'
  <1> DEFINE op == ops[o]
  <1>1. Tables /\ OpsOK /\ OpOK(op) /\ op \in Op
    BY DEF IInv, OpsOK, OpOK
  <1>2. \A u \in DOMAIN user : user[u] \in UserRow /\ u \in Users
    BY <1>1 DEF Tables
  <1>3. CASE DeleteUsers(o)
    <2>1. Tables'
      BY <1>1, <1>3 DEF Tables, DeleteUsers, Restrict
    <2>2. "pull" \in Places
      BY DEF Places
    <2>3. OpOK([op EXCEPT !.pc = "pull"])
      BY <1>1, <1>3, <2>2, NewPlace DEF OpOK, Renaming, DeleteUsers
    <2> QED
      BY <1>1, <1>3, <2>1, <2>3, GotoOK DEF IInv, DeleteUsers
  <1>4. CASE SaveUser(o)
    <2> DEFINE row == [groups |-> op.names, prefs |-> None]
    <2>1. op.kind \in {"createUser", "updateUser"} /\ op.names \in (SUBSET Names) \ {{}}
          /\ op.who \subseteq Users
      BY <1>1, <1>4 DEF SaveUser, OpOK, Op
    <2>2. row \in UserRow
      BY <2>1, NonePrefs DEF UserRow
    <2> HIDE DEF row
    <2>3. \/ user' = [u \in DOMAIN user \cup op.who |-> IF u \in DOMAIN user THEN user[u] ELSE row]
          \/ user' = [u \in DOMAIN user |-> IF u \in op.who THEN row ELSE user[u]]
      BY <1>4, <2>1 DEF SaveUser, row
    <2>4. user' \in [DOMAIN user' -> UserRow] /\ DOMAIN user' \subseteq Users
      BY <1>2, <2>1, <2>2, <2>3
    <2>5. Tables'
      BY <1>1, <1>4, <2>4 DEF Tables, SaveUser
    <2> QED
      BY <1>1, <1>4, <2>5, EndOK DEF IInv, SaveUser
  <1>5. CASE SetGroup(o)
    <2>1. {op.new} \in (SUBSET Names) \ {{}}
      BY <1>1 DEF Op
    <2>2. user' \in [DOMAIN user -> UserRow] /\ DOMAIN user' = DOMAIN user
      BY <1>2, <1>5, <2>1 DEF SetGroup, UserRow
    <2>3. Tables'
      BY <1>1, <1>5, <2>2 DEF Tables, SetGroup
    <2>4. "bulk" \in Places
      BY DEF Places
    <2>5. op.todo = {}
      BY <1>1, <1>5 DEF SetGroup, OpOK
    <2>6. OpOK([op EXCEPT !.pc = "bulk"])
      BY <1>1, <2>4, <2>5, NewPlace DEF OpOK, Renaming
    <2> QED
      BY <1>1, <1>5, <2>3, <2>6, GotoOK DEF IInv, SetGroup
  <1>6. CASE ResetPrefs(o)
    <2>1. user' \in [DOMAIN user -> UserRow] /\ DOMAIN user' = DOMAIN user
      BY <1>2, <1>6, NonePrefs DEF ResetPrefs, UserRow
    <2>2. Tables'
      BY <1>1, <1>6, <2>1 DEF Tables, ResetPrefs
    <2> QED
      BY <1>1, <1>6, <2>2, EndOK DEF IInv, ResetPrefs
  <1>7. CASE WritePrefs(o)
    <2>1. PICK t \in op.todo :
             user' = [u \in DOMAIN user |-> IF u = t.id THEN [user[u] EXCEPT !.prefs = t.was]
                                                        ELSE user[u]]
      BY <1>7 DEF WritePrefs
    <2>2. t.was \in SavedPrefs
      BY <1>1, <1>7 DEF WritePrefs, OpOK, PrefsCopy
    <2>3. user' \in [DOMAIN user -> UserRow] /\ DOMAIN user' = DOMAIN user
      BY <1>2, <2>1, <2>2 DEF UserRow
    <2>4. Tables'
      BY <1>1, <1>7, <2>3 DEF Tables, WritePrefs
    <2> QED
      BY <1>1, <1>7, <2>4, EndOK DEF IInv, WritePrefs
  <1> QED
    BY <1>3, <1>4, <1>5, <1>6, <1>7

-----------------------------------------------------------------------------
LEMMA InitOK == Init => IInv
  <1> SUFFICES ASSUME Init PROVE IInv
    OBVIOUS
  <1>1. Tables
    <2>1. UngroupedId \in Gids /\ Ungrouped \in Names
      BY NamesAssumption
    <2>2. user = None /\ DOMAIN user = {}
      BY DEF Init, None
    <2>3. user \in [DOMAIN user -> UserRow]
      BY <2>2 DEF None
    <2>4. \A c \in Conns : Alone(tags[c])
      BY DEF Init, Alone
    <2> QED
      BY <2>1, <2>2, <2>3, <2>4 DEF Tables, Init
  <1>2. OpsOK
    BY DEF OpsOK, Init, None
  <1> QED
    BY <1>1, <1>2 DEF IInv

(* Requests that are one write, and requests that stop half-way.           *)
LEMMA SingleSteps ==
    ASSUME IInv,
           \/ \E o \in DOMAIN ops : Throw(o)
           \/ \E g \in Gids, n \in Names, main \in BOOLEAN : CreateGroup(g, n, main)
           \/ \E u \in Users : DeleteUser(u)
    PROVE  IInv'
  <1>1. Tables /\ OpsOK
    BY DEF IInv
  <1>2. ASSUME NEW o \in DOMAIN ops, Throw(o)
        PROVE  IInv'
    <2>1. Tables'
      BY <1>1, <1>2 DEF Tables, Throw
    <2>2. OpsOK'
      BY <1>1, <1>2 DEF OpsOK, Throw, Restrict
    <2> QED
      BY <2>1, <2>2 DEF IInv
  <1>3. ASSUME NEW g \in Gids, NEW n \in Names, NEW main \in BOOLEAN, CreateGroup(g, n, main)
        PROVE  IInv'
    <2>1. Tables'
      BY <1>1, <1>3 DEF Tables, CreateGroup
    <2>2. OpsOK'
      BY <1>1, <1>3, AtOnceOK DEF CreateGroup
    <2> QED
      BY <2>1, <2>2 DEF IInv
  <1>4. ASSUME NEW u \in Users, DeleteUser(u)
        PROVE  IInv'
    <2>1. Tables'
      BY <1>1, <1>4 DEF Tables, DeleteUser, Restrict
    <2>2. OpsOK'
      BY <1>1, <1>4, AtOnceOK DEF DeleteUser
    <2> QED
      BY <2>1, <2>2 DEF IInv
  <1> QED
    BY <1>2, <1>3, <1>4

LEMMA Inductive == IInv /\ [Next]_vars => IInv'
  <1> SUFFICES ASSUME IInv, [Next]_vars PROVE IInv'
    OBVIOUS
  <1>1. ASSUME NEW o \in Slots, Request(o)
        PROVE  IInv'
    BY <1>1, BeginTypes
  <1>2. ASSUME NEW o \in Slots, Step(o)
        PROVE  IInv'
    <2>1. o \in DOMAIN ops
      BY <1>2 DEF Step
    <2>2. CASE DeleteGroup(o) \/ WriteGroup(o)
      BY <2>1, <2>2, GroupWrites
    <2>3. CASE CheckTaken(o) \/ FindTagged(o) \/ FindMembers(o) \/ FindPrefs(o)
      BY <2>1, <2>3, RenameReads
    <2>4. CASE \/ CheckMains(o) \/ CheckBulk(o) \/ ReadBulk(o)
               \/ \E n \in ops[o].todo : AssertGroupExists(o, n)
      BY <2>1, <2>4, OtherReads
    <2>5. CASE PullTag(o) \/ WriteTags(o) \/ (\E t \in ops[o].todo : Retag(o, t))
      BY <2>1, <2>5, TagWrites
    <2>6. CASE DeleteUsers(o) \/ SaveUser(o) \/ SetGroup(o) \/ ResetPrefs(o) \/ WritePrefs(o)
      BY <2>1, <2>6, UserWrites
    <2>7. ASSUME NEW t \in ops[o].todo, RenameMember(o, t) \/ RenamePrefs(o, t) \/ RegroupUser(o, t)
          PROVE  IInv'
      BY <2>1, <2>7, UserLoops
    <2> QED
      BY <1>2, <2>2, <2>3, <2>4, <2>5, <2>6, <2>7 DEF Step
  <1>3. CASE \/ \E o \in DOMAIN ops : Throw(o)
             \/ \E g \in Gids, n \in Names, main \in BOOLEAN : CreateGroup(g, n, main)
             \/ \E u \in Users : DeleteUser(u)
    BY <1>3, SingleSteps
  <1>4. CASE UNCHANGED vars
    BY <1>4 DEF vars, IInv, Tables, OpsOK
  <1> QED
    BY <1>1, <1>2, <1>3, <1>4 DEF Next

LEMMA Consequences == IInv => TypeOK /\ UngroupedAlone /\ UserHasGroup
  <1> SUFFICES ASSUME IInv PROVE TypeOK /\ UngroupedAlone /\ UserHasGroup
    OBVIOUS
  <1>1. Tables /\ OpsOK
    BY DEF IInv
  <1>2. \A u \in DOMAIN user :
           /\ user[u].groups \in (SUBSET Names) \ {{}}
           /\ user[u].prefs \in SavedPrefs
    BY <1>1 DEF Tables, UserRow
  <1>3. \A u \in DOMAIN user :
           /\ DOMAIN user[u].prefs \subseteq Names
           /\ \A n \in DOMAIN user[u].prefs : user[u].prefs[n] \in BOOLEAN
    BY <1>2 DEF SavedPrefs
  <1>4. Types
    BY <1>1, <1>2, <1>3 DEF Types, Tables, OpsOK
  <1>5. UngroupedAlone
    BY <1>1 DEF UngroupedAlone, Tables, Alone
  <1>6. UserHasGroup
    BY <1>2 DEF UserHasGroup
  <1> QED
    BY <1>4, <1>5, <1>6 DEF TypeOK

(* Whatever the requests do, the collections keep their types, and the     *)
(* reserved group is neither deleted, renamed nor marked as main           *)
(* (deleteGroup, updateGroupSettings).                                     *)
THEOREM TypeCorrect == Spec => []TypeOK
  BY InitOK, Inductive, Consequences, PTL DEF Spec

(* The reserved tag never stands beside another, although renames write    *)
(* back tags read earlier (renameGroupTagEverywhere, setConnectGroups).    *)
THEOREM UngroupedAloneCorrect == Spec => []UngroupedAlone
  BY InitOK, Inductive, Consequences, PTL DEF Spec

(* No panel user is ever without a group (createUser, updatePanelUser,     *)
(* bulkUpdatePanelUsers, renameGroupTagEverywhere).                        *)
THEOREM UserHasGroupCorrect == Spec => []UserHasGroup
  BY InitOK, Inductive, Consequences, PTL DEF Spec

-----------------------------------------------------------------------------
(* Requests that nothing overlaps with.  Such a request is the only one,   *)
(* so that what it read or checked is still so (Known); its tables are     *)
(* parameters for the sake of their primed versions.                       *)
MainsIn(names, gr) == {n \in names : \E g \in DOMAIN gr : gr[g].name = n /\ gr[g].main}

Known(op, gr, tg, us) ==
    /\ op.pc \in Renaming => op.old # op.new
    /\ op.pc \in {"tagged", "retag"} => \A g \in DOMAIN gr : gr[g].name # op.new
    /\ op.pc = "retag" =>
          /\ \A t \in op.todo : t.was = tg[t.id]
          /\ \A c \in Conns : op.old \in tg[c] => \E t \in op.todo : t.id = c
    /\ op.pc \in {"regroup", "prefs"} => \A c \in Conns : op.old \notin tg[c]
    /\ op.pc = "regroup" => \A u \in DOMAIN us :
          op.old \in us[u].groups => \E t \in op.todo : t.id = u
    /\ op.pc = "prefs" => \A u \in DOMAIN us :
          /\ op.old \notin us[u].groups
          /\ op.old \in DOMAIN us[u].prefs => \E t \in op.todo : t.id = u
    /\ op.pc = "writeTags" => ~ Cardinality(MainsIn(op.names, gr)) > 1

SoloInv ==
    \A o \in DOMAIN ops : ops[o].solo =>
        /\ DOMAIN ops = {o}
        /\ Known(ops[o], group, tags, user)

(* Places at which a request relies on nothing it read.                    *)
LEMMA KnownElsewhere ==
    ASSUME NEW op, NEW gr, NEW tg, NEW us,
           op.pc \notin Renaming \cup {"writeTags"}
    PROVE  Known(op, gr, tg, us)
  BY DEF Known, Renaming

LEMMA SoloBegins ==
    ASSUME SoloInv, NEW o \in Slots, NEW op, OpsOK,
           op.solo = (DOMAIN ops = {}), Known(op, group, tags, user), Begin(o, op)
    PROVE  SoloInv'
  <1>1. \A q \in DOMAIN ops : [ops[q] EXCEPT !.solo = FALSE].solo = FALSE
    BY DEF OpsOK, OpOK, Op
  <1>2. ASSUME NEW q \in DOMAIN ops', ops'[q].solo
        PROVE  q = o /\ ops'[q] = op /\ DOMAIN ops' = {o}
    BY <1>1, <1>2 DEF Begin
  <1>3. UNCHANGED <<group, tags, user>>
    BY DEF Begin
  <1> QED
    BY <1>2, <1>3 DEF SoloInv

LEMMA SoloAtOnce ==
    ASSUME OpsOK, AtOnce
    PROVE  SoloInv'
  <1>1. \A q \in DOMAIN ops : [ops[q] EXCEPT !.solo = FALSE].solo = FALSE
    BY DEF OpsOK, OpOK, Op
  <1> QED
    BY <1>1 DEF SoloInv, AtOnce

LEMMA SoloEnds ==
    ASSUME SoloInv, NEW o \in DOMAIN ops, End(o) \/ Throw(o)
    PROVE  SoloInv'
  <1>1. ops' = Restrict(ops, DOMAIN ops \ {o})
    BY DEF End, Throw
  <1>2. \A q \in DOMAIN ops' : q \in DOMAIN ops /\ q # o /\ ops'[q] = ops[q]
    BY <1>1 DEF Restrict
  <1> QED
    BY <1>2 DEF SoloInv

LEMMA SoloGoes ==
    ASSUME SoloInv, NEW o \in DOMAIN ops, NEW op,
           Goto(o, op), op.solo = ops[o].solo,
           ops[o].solo => Known(op, group', tags', user')
    PROVE  SoloInv'
  <1>1. ops' = [ops EXCEPT ![o] = op]
    BY DEF Goto
  <1>2. DOMAIN ops' = DOMAIN ops /\ ops'[o] = op
        /\ \A q \in DOMAIN ops : q # o => ops'[q] = ops[q]
    BY <1>1
  <1> QED
    BY <1>2 DEF SoloInv

(* The main groups of a set of names are among the names.                  *)
LEMMA MainsFinite ==
    ASSUME NEW names \in SUBSET Names, NEW gr
    PROVE  /\ IsFiniteSet(names)
           /\ IsFiniteSet(MainsIn(names, gr))
           /\ Cardinality(MainsIn(names, gr)) \in Nat
           /\ Cardinality(MainsIn(names, gr)) <= Cardinality(names)
  <1>1. IsFiniteSet(names) /\ MainsIn(names, gr) \subseteq names
    BY NamesAssumption, FS_Subset DEF MainsIn
  <1> QED
    BY <1>1, FS_Subset, FS_CardinalityType

LEMMA FewMains ==
    ASSUME NEW names \in SUBSET Names, NEW more \in SUBSET Names, NEW gr,
           MainsIn(names, gr) \subseteq MainsIn(more, gr),
           Cardinality(MainsIn(names, gr)) > 1
    PROVE  Cardinality(MainsIn(more, gr)) > 1
  <1>1. /\ IsFiniteSet(MainsIn(more, gr))
        /\ Cardinality(MainsIn(more, gr)) \in Nat /\ Cardinality(MainsIn(names, gr)) \in Nat
    BY MainsFinite
  <1>2. Cardinality(MainsIn(names, gr)) <= Cardinality(MainsIn(more, gr))
    BY <1>1, FS_Subset
  <1> QED
    BY <1>1, <1>2

LEMMA TwoMainsIn == \A names : TwoMains(names) <=> Cardinality(MainsIn(names, group)) > 1
  BY DEF TwoMains, Mains, MainsIn

-----------------------------------------------------------------------------
LEMMA NewOpSolo ==
    ASSUME NEW k \in Kinds
    PROVE  NewOp(k) \in Op /\ NewOp(k).solo = (DOMAIN ops = {})
  <1>1. NewOp(k).solo = (DOMAIN ops = {})
    BY DEF NewOp
  <1> QED
    BY <1>1, NewOpType

LEMMA SoloRequests ==
    ASSUME IInv, SoloInv, NEW o \in Slots, Request(o)
    PROVE  SoloInv'
  <1>1. Tables /\ OpsOK
    BY DEF IInv
  <1>2. ASSUME NEW g \in Gids, BeginDelete(o, g)
        PROVE  SoloInv'
    <2> DEFINE op == [NewOp("delete") EXCEPT !.pc = "deleteGroup", !.gid = g,
                                             !.old = group[g].name]
    <2>1. NewOp("delete") \in Op /\ NewOp("delete").solo = (DOMAIN ops = {})
      BY NewOpSolo DEF Kinds
    <2>2. op.pc = "deleteGroup" /\ op.solo = (DOMAIN ops = {})
      BY <2>1 DEF Op
    <2>3. Begin(o, op)
      BY <1>2 DEF BeginDelete
    <2> HIDE DEF op
    <2>4. Known(op, group, tags, user)
      BY <2>2, KnownElsewhere DEF Renaming
    <2> QED
      BY <1>1, <2>2, <2>3, <2>4, SoloBegins
  <1>3. ASSUME NEW g \in Gids, NEW n \in Names, NEW flag \in {"same", "on", "off"},
               BeginUpdate(o, g, n, flag)
        PROVE  SoloInv'
    <2> DEFINE pc == IF n = group[g].name THEN "writeGroup" ELSE "check"
               op == [NewOp("update") EXCEPT !.gid = g, !.old = group[g].name, !.new = n,
                                             !.flag = flag, !.pc = pc]
    <2>1. NewOp("update") \in Op /\ NewOp("update").solo = (DOMAIN ops = {})
      BY NewOpSolo DEF Kinds
    <2>2. \/ pc = "writeGroup"
          \/ pc = "check" /\ group[g].name # n
      OBVIOUS
    <2>3. Begin(o, op)
      BY <1>3 DEF BeginUpdate
    <2> HIDE DEF pc
    <2>4. op.pc = pc /\ op.old = group[g].name /\ op.new = n /\ op.solo = (DOMAIN ops = {})
      BY <2>1 DEF Op
    <2> HIDE DEF op
    <2>5. Known(op, group, tags, user)
      BY <2>2, <2>4 DEF Known, Renaming
    <2> QED
      BY <1>1, <2>3, <2>4, <2>5, SoloBegins
  <1>4. ASSUME NEW c \in Conns, NEW names \in SUBSET Names, BeginTag(o, c, names)
        PROVE  SoloInv'
    <2> DEFINE ns == Normalized(names)
               pc == IF Cardinality(ns) < 2 THEN "writeTags" ELSE "mains"
               op == [NewOp("tag") EXCEPT !.con = {c}, !.names = ns, !.pc = pc]
    <2>1. NewOp("tag") \in Op /\ NewOp("tag").solo = (DOMAIN ops = {})
      BY NewOpSolo DEF Kinds
    <2>2. \/ pc = "mains"
          \/ pc = "writeTags" /\ Cardinality(ns) < 2
      OBVIOUS
    <2>3. Begin(o, op)
      BY <1>4 DEF BeginTag
    <2>4. ns \in SUBSET Names
      BY NormalizedAlone
    <2> HIDE DEF pc, ns
    <2>5. op.pc = pc /\ op.names = ns /\ op.solo = (DOMAIN ops = {})
      BY <2>1 DEF Op
    <2> HIDE DEF op
    <2>6. /\ Cardinality(MainsIn(ns, group)) \in Nat /\ Cardinality(ns) \in Nat
          /\ Cardinality(MainsIn(ns, group)) <= Cardinality(ns)
      BY <2>4, MainsFinite, FS_CardinalityType
    <2>7. pc = "writeTags" => ~ Cardinality(MainsIn(ns, group)) > 1
      BY <2>2, <2>6
    <2>8. Known(op, group, tags, user)
      BY <2>2, <2>5, <2>7 DEF Known, Renaming
    <2> QED
      BY <1>1, <2>3, <2>5, <2>8, SoloBegins
  <1>5. ASSUME NEW kind \in {"createUser", "updateUser"}, NEW u \in Users,
               NEW names \in SUBSET Names, BeginUser(o, kind, u, names)
        PROVE  SoloInv'
    <2> DEFINE op == [NewOp(kind) EXCEPT !.pc = "assert", !.who = {u}, !.names = names,
                                         !.todo = names]
    <2>1. NewOp(kind) \in Op /\ NewOp(kind).solo = (DOMAIN ops = {})
      BY NewOpSolo DEF Kinds
    <2>2. op.pc = "assert" /\ op.solo = (DOMAIN ops = {})
      BY <2>1 DEF Op
    <2>3. Begin(o, op)
      BY <1>5 DEF BeginUser
    <2> HIDE DEF op
    <2>4. Known(op, group, tags, user)
      BY <2>2, KnownElsewhere DEF Renaming
    <2> QED
      BY <1>1, <2>2, <2>3, <2>4, SoloBegins
  <1>6. ASSUME NEW mode \in {"add", "remove", "move", "set"}, NEW us \in SUBSET Users,
               NEW n \in Names, NEW from \in Names, BeginBulk(o, mode, us, n, from)
        PROVE  SoloInv'
    <2> DEFINE op == [NewOp("bulk") EXCEPT !.pc = "checkBulk", !.mode = mode, !.who = us,
                                           !.new = n, !.old = from]
    <2>1. NewOp("bulk") \in Op /\ NewOp("bulk").solo = (DOMAIN ops = {})
      BY NewOpSolo DEF Kinds
    <2>2. op.pc = "checkBulk" /\ op.solo = (DOMAIN ops = {})
      BY <2>1 DEF Op
    <2>3. Begin(o, op)
      BY <1>6 DEF BeginBulk
    <2> HIDE DEF op
    <2>4. Known(op, group, tags, user)
      BY <2>2, KnownElsewhere DEF Renaming
    <2> QED
      BY <1>1, <2>2, <2>3, <2>4, SoloBegins
  <1>7. ASSUME NEW u \in DOMAIN user, NEW p \in [user[u].groups -> BOOLEAN], BeginPrefs(o, u, p)
        PROVE  SoloInv'
    <2> DEFINE op == [NewOp("savePrefs") EXCEPT !.pc = "writePrefs",
                                                !.todo = {[id |-> u, was |-> p]}]
    <2>1. NewOp("savePrefs") \in Op /\ NewOp("savePrefs").solo = (DOMAIN ops = {})
      BY NewOpSolo DEF Kinds
    <2>2. op.pc = "writePrefs" /\ op.solo = (DOMAIN ops = {})
      BY <2>1 DEF Op
    <2>3. Begin(o, op)
      BY <1>7 DEF BeginPrefs
    <2> HIDE DEF op
    <2>4. Known(op, group, tags, user)
      BY <2>2, KnownElsewhere DEF Renaming
    <2> QED
      BY <1>1, <2>2, <2>3, <2>4, SoloBegins
  <1> QED
    BY <1>2, <1>3, <1>4, <1>5, <1>6, <1>7 DEF Request

(* A step that goes on to a place where nothing is relied on.              *)
LEMMA GoesElsewhere ==
    ASSUME SoloInv, OpsOK, NEW o \in DOMAIN ops, NEW new,
           new.pc \notin Renaming \cup {"writeTags"}, new.solo = ops[o].solo,
           Goto(o, new)
    PROVE  SoloInv'
  BY SoloGoes, KnownElsewhere

(* The steps of a rename that read.                                        *)
LEMMA SoloRenameReads ==
    ASSUME IInv, SoloInv, NEW o \in DOMAIN ops,
           CheckTaken(o) \/ FindTagged(o) \/ FindMembers(o) \/ FindPrefs(o)
    PROVE  SoloInv'
  <1> DEFINE op == ops[o]
  <1>1. OpsOK /\ op \in Op
    BY DEF IInv, OpsOK, OpOK
  <1>2. op.solo => Known(op, group, tags, user)
    BY DEF SoloInv
  <1>3. UNCHANGED <<group, tags, user>>
    BY DEF CheckTaken, FindTagged, FindMembers, FindPrefs
  <1>4. CASE CheckTaken(o)
    <2> DEFINE new == [op EXCEPT !.pc = "tagged"]
    <2>1. CASE op.new \in LiveNames
      BY <1>4, <2>1, SoloEnds DEF CheckTaken
    <2>2. CASE op.new \notin LiveNames
      <3>1. new.pc = "tagged" /\ new.old = op.old /\ new.new = op.new /\ new.solo = op.solo
        BY <1>1 DEF Op
      <3>2. Goto(o, new) /\ op.pc = "check"
        BY <1>4, <2>2 DEF CheckTaken
      <3>3. \A g \in DOMAIN group : group[g].name # op.new
        BY <2>2 DEF LiveNames
      <3> HIDE DEF new
      <3>4. op.solo => Known(new, group, tags, user)
        BY <1>2, <3>1, <3>2, <3>3 DEF Known, Renaming
      <3> QED
        BY <1>3, <3>1, <3>2, <3>4, SoloGoes
    <2> QED
      BY <2>1, <2>2
  <1>5. CASE FindTagged(o)
    <2> DEFINE found == {[id |-> c, was |-> tags[c]] : c \in {c \in Conns : op.old \in tags[c]}}
               new == [op EXCEPT !.pc = "retag", !.todo = found]
    <2>1. Goto(o, new) /\ op.pc = "tagged"
      BY <1>5 DEF FindTagged
    <2>2. /\ \A t \in found : t.was = tags[t.id]
          /\ \A c \in Conns : op.old \in tags[c] => \E t \in found : t.id = c
      <3>1. ASSUME NEW c \in Conns, op.old \in tags[c]
            PROVE  \E t \in found : t.id = c
        <4>1. [id |-> c, was |-> tags[c]] \in found
          BY <3>1
        <4>2. [id |-> c, was |-> tags[c]].id = c
          OBVIOUS
        <4> HIDE DEF found
        <4> QED
          BY <4>1, <4>2
      <3> QED
        BY <3>1
    <2> HIDE DEF found
    <2>3. /\ new.pc = "retag" /\ new.old = op.old /\ new.new = op.new /\ new.todo = found
          /\ new.solo = op.solo
      BY <1>1 DEF Op
    <2> HIDE DEF new
    <2>4. op.solo => Known(new, group, tags, user)
      BY <1>2, <2>1, <2>2, <2>3 DEF Known, Renaming
    <2> QED
      BY <1>3, <2>1, <2>3, <2>4, SoloGoes
  <1>6. CASE FindMembers(o)
    <2> DEFINE found == {[id |-> u, was |-> user[u].groups] : u \in MembersOf(op.old)}
               new == [op EXCEPT !.pc = "regroup", !.todo = found]
    <2>1. Goto(o, new) /\ op.pc = "retag" /\ op.todo = {}
      BY <1>6 DEF FindMembers
    <2>2. ASSUME NEW u \in DOMAIN user, op.old \in user[u].groups
          PROVE  \E t \in found : t.id = u
      <3>1. [id |-> u, was |-> user[u].groups] \in found
        BY <2>2 DEF MembersOf
      <3>2. [id |-> u, was |-> user[u].groups].id = u
        OBVIOUS
      <3> HIDE DEF found
      <3> QED
        BY <3>1, <3>2
    <2> HIDE DEF found
    <2>3. /\ new.pc = "regroup" /\ new.old = op.old /\ new.new = op.new /\ new.todo = found
          /\ new.solo = op.solo
      BY <1>1 DEF Op
    <2> HIDE DEF new
    <2>4. op.solo => Known(new, group, tags, user)
      BY <1>2, <2>1, <2>2, <2>3 DEF Known, Renaming
    <2> QED
      BY <1>3, <2>1, <2>3, <2>4, SoloGoes
  <1>7. CASE FindPrefs(o)
    <2> DEFINE found == {[id |-> u, was |-> user[u].prefs] :
                            u \in {u \in DOMAIN user : op.old \in DOMAIN user[u].prefs}}
               new == [op EXCEPT !.pc = "prefs", !.todo = found]
    <2>1. Goto(o, new) /\ op.pc = "regroup" /\ op.todo = {}
      BY <1>7 DEF FindPrefs
    <2>2. ASSUME NEW u \in DOMAIN user, op.old \in DOMAIN user[u].prefs
          PROVE  \E t \in found : t.id = u
      <3>1. [id |-> u, was |-> user[u].prefs] \in found
        BY <2>2
      <3>2. [id |-> u, was |-> user[u].prefs].id = u
        OBVIOUS
      <3> HIDE DEF found
      <3> QED
        BY <3>1, <3>2
    <2> HIDE DEF found
    <2>3. /\ new.pc = "prefs" /\ new.old = op.old /\ new.new = op.new /\ new.todo = found
          /\ new.solo = op.solo
      BY <1>1 DEF Op
    <2> HIDE DEF new
    <2>4. op.solo => Known(new, group, tags, user)
      BY <1>2, <2>1, <2>2, <2>3 DEF Known, Renaming
    <2> QED
      BY <1>3, <2>1, <2>3, <2>4, SoloGoes
  <1> QED
    BY <1>4, <1>5, <1>6, <1>7

(* The loops of a rename: what is done has lost the old name.              *)
LEMMA SoloRetags ==
    ASSUME IInv, SoloInv, NEW o \in DOMAIN ops, NEW t \in ops[o].todo, Retag(o, t)
    PROVE  SoloInv'
  <1> DEFINE op == ops[o]
             new == [op EXCEPT !.todo = @ \ {t}]
  <1>1. OpsOK /\ op \in Op /\ tags \in [Conns -> SUBSET Names]
    BY DEF IInv, OpsOK, OpOK, Tables
  <1>2. op.solo => Known(op, group, tags, user)
    BY DEF SoloInv
  <1>3. /\ op.pc = "retag" /\ UNCHANGED <<group, user>> /\ Goto(o, new)
        /\ tags' = [tags EXCEPT ![t.id] = Renamed(t.was, op.old, op.new)]
    BY DEF Retag
  <1>4. op.todo \subseteq TagCopy
    BY <1>3 DEF IInv, OpsOK, OpOK
  <1>5. /\ new.pc = "retag" /\ new.old = op.old /\ new.new = op.new /\ new.solo = op.solo
        /\ new.todo = op.todo \ {t}
    BY <1>1, <1>3 DEF Op
  <1> HIDE DEF new
  <1>6. ASSUME op.solo
        PROVE  Known(new, group', tags', user')
    <2>1. /\ op.old # op.new
          /\ \A g \in DOMAIN group : group[g].name # op.new
          /\ \A x \in op.todo : x.was = tags[x.id]
          /\ \A c \in Conns : op.old \in tags[c] => \E x \in op.todo : x.id = c
      BY <1>2, <1>3, <1>6 DEF Known, Renaming
    <2>2. /\ t.id \in Conns
          /\ tags'[t.id] = Renamed(t.was, op.old, op.new)
          /\ \A c \in Conns : c # t.id => tags'[c] = tags[c]
      BY <1>1, <1>3, <1>4 DEF TagCopy
    <2>3. ASSUME NEW x \in new.todo
          PROVE  x.was = tags'[x.id]
      <3>1. x \in op.todo /\ x # t /\ x \in TagCopy /\ t \in TagCopy
        BY <1>4, <1>5
      <3>2. x.id # t.id
        BY <2>1, <3>1 DEF TagCopy
      <3> QED
        BY <2>1, <2>2, <3>1, <3>2 DEF TagCopy
    <2>4. ASSUME NEW c \in Conns, op.old \in tags'[c]
          PROVE  \E x \in new.todo : x.id = c
      <3>1. op.old \notin Renamed(t.was, op.old, op.new)
        BY <2>1 DEF Renamed
      <3>2. c # t.id /\ op.old \in tags[c]
        BY <2>2, <2>4, <3>1
      <3>3. PICK x \in op.todo : x.id = c
        BY <2>1, <3>2
      <3>4. x \in new.todo
        BY <1>5, <3>2, <3>3
      <3> QED
        BY <3>3, <3>4
    <2> QED
      BY <1>3, <1>5, <2>1, <2>3, <2>4 DEF Known, Renaming
  <1> QED
    BY <1>3, <1>5, <1>6, SoloGoes

LEMMA SoloRenamesMember ==
    ASSUME IInv, SoloInv, NEW o \in DOMAIN ops, NEW t \in ops[o].todo, RenameMember(o, t)
    PROVE  SoloInv'
  <1> DEFINE op == ops[o]
             new == [op EXCEPT !.todo = @ \ {t}]
             row == [u \in DOMAIN user |->
                        [user[u] EXCEPT !.groups = Renamed(t.was, op.old, op.new)]]
  <1>1. OpsOK /\ op \in Op /\ \A u \in DOMAIN user : user[u] \in UserRow
    BY DEF IInv, OpsOK, OpOK, Tables
  <1>2. op.solo => Known(op, group, tags, user)
    BY DEF SoloInv
  <1>3. op.pc = "regroup" /\ UNCHANGED <<group, tags>> /\ WriteUser(o, t, row)
    BY DEF RenameMember, WriteUser
  <1>4. CASE End(o)
    BY <1>4, SoloEnds
  <1>5. CASE Goto(o, new)
    <2>1. /\ new.pc = "regroup" /\ new.old = op.old /\ new.new = op.new /\ new.solo = op.solo
          /\ new.todo = op.todo \ {t}
      BY <1>1, <1>3 DEF Op
    <2> HIDE DEF new
    <2>2. /\ DOMAIN user' = DOMAIN user
          /\ \A u \in DOMAIN user : u # t.id => user'[u] = user[u]
          /\ t.id \in DOMAIN user => user'[t.id].groups = Renamed(t.was, op.old, op.new)
      BY <1>1, <1>3 DEF WriteUser, UserRow
    <2>3. ASSUME op.solo
          PROVE  Known(new, group', tags', user')
      <3>1. /\ op.old # op.new
            /\ \A c \in Conns : op.old \notin tags[c]
            /\ \A u \in DOMAIN user : op.old \in user[u].groups => \E x \in op.todo : x.id = u
        BY <1>2, <1>3, <2>3 DEF Known, Renaming
      <3>2. ASSUME NEW u \in DOMAIN user', op.old \in user'[u].groups
            PROVE  \E x \in new.todo : x.id = u
        <4>1. u # t.id /\ op.old \in user[u].groups
          BY <2>2, <3>1, <3>2 DEF Renamed
        <4>2. PICK x \in op.todo : x.id = u
          BY <2>2, <3>1, <4>1
        <4> QED
          BY <2>1, <4>1, <4>2
      <3> QED
        BY <1>3, <2>1, <3>1, <3>2 DEF Known, Renaming
    <2> QED
      BY <1>5, <2>1, <2>3, SoloGoes
  <1> QED
    BY <1>3, <1>4, <1>5 DEF WriteUser

LEMMA SoloRenamesPrefs ==
    ASSUME IInv, SoloInv, NEW o \in DOMAIN ops, NEW t \in ops[o].todo, RenamePrefs(o, t)
    PROVE  SoloInv'
  <1> DEFINE op == ops[o]
             new == [op EXCEPT !.todo = @ \ {t}]
  <1>1. OpsOK /\ op \in Op /\ \A u \in DOMAIN user : user[u] \in UserRow
    BY DEF IInv, OpsOK, OpOK, Tables
  <1>2. op.solo => Known(op, group, tags, user)
    BY DEF SoloInv
  <1>3. PICK p \in PrefsRenamed(t.was, op.old, op.new) :
           WriteUser(o, t, [u \in DOMAIN user |-> [user[u] EXCEPT !.prefs = p]])
    BY DEF RenamePrefs
  <1>4. op.pc = "prefs" /\ UNCHANGED <<group, tags>>
    BY DEF RenamePrefs, WriteUser
  <1>5. CASE End(o)
    BY <1>5, SoloEnds
  <1>6. CASE Goto(o, new)
    <2>1. /\ new.pc = "prefs" /\ new.old = op.old /\ new.new = op.new /\ new.solo = op.solo
          /\ new.todo = op.todo \ {t}
      BY <1>1, <1>4 DEF Op
    <2> HIDE DEF new
    <2>2. DOMAIN p = Renamed(DOMAIN t.was, op.old, op.new)
      BY DEF PrefsRenamed
    <2>3. /\ DOMAIN user' = DOMAIN user
          /\ \A u \in DOMAIN user : user'[u].groups = user[u].groups
          /\ \A u \in DOMAIN user : u # t.id => user'[u] = user[u]
          /\ t.id \in DOMAIN user => user'[t.id].prefs = p
      BY <1>1, <1>3 DEF WriteUser, UserRow
    <2>4. ASSUME op.solo
          PROVE  Known(new, group', tags', user')
      <3>1. /\ op.old # op.new
            /\ \A c \in Conns : op.old \notin tags[c]
            /\ \A u \in DOMAIN user :
                  /\ op.old \notin user[u].groups
                  /\ op.old \in DOMAIN user[u].prefs => \E x \in op.todo : x.id = u
        BY <1>2, <1>4, <2>4 DEF Known, Renaming
      <3>2. ASSUME NEW u \in DOMAIN user', op.old \in DOMAIN user'[u].prefs
            PROVE  \E x \in new.todo : x.id = u
        <4>1. u # t.id /\ op.old \in DOMAIN user[u].prefs
          BY <2>2, <2>3, <3>1, <3>2 DEF Renamed
        <4>2. PICK x \in op.todo : x.id = u
          BY <2>3, <3>1, <4>1
        <4> QED
          BY <2>1, <4>1, <4>2
      <3>3. \A u \in DOMAIN user' : op.old \notin user'[u].groups
        BY <2>3, <3>1
      <3> QED
        BY <1>4, <2>1, <3>1, <3>2, <3>3 DEF Known, Renaming
    <2> QED
      BY <1>6, <2>1, <2>4, SoloGoes
  <1> QED
    BY <1>3, <1>5, <1>6 DEF WriteUser

(* Of the other steps only that of the check of main groups goes on to a   *)
(* place where what was found counts.                                      *)
LEMMA SoloOthers ==
    ASSUME IInv, SoloInv, NEW o \in DOMAIN ops,
           \/ DeleteGroup(o) \/ DeleteUsers(o) \/ PullTag(o) \/ WriteGroup(o)
           \/ CheckMains(o) \/ WriteTags(o) \/ SaveUser(o)
           \/ CheckBulk(o) \/ ReadBulk(o) \/ SetGroup(o) \/ ResetPrefs(o) \/ WritePrefs(o)
           \/ \E t \in ops[o].todo : RegroupUser(o, t) \/ AssertGroupExists(o, t)
    PROVE  SoloInv'
  <1> DEFINE op == ops[o]
  <1>1. OpsOK /\ op \in Op
    BY DEF IInv, OpsOK, OpOK
  <1>2. CASE PullTag(o) \/ WriteGroup(o) \/ WriteTags(o) \/ SaveUser(o) \/ ResetPrefs(o)
             \/ WritePrefs(o)
    <2>1. End(o)
      BY <1>2 DEF PullTag, WriteGroup, WriteTags, SaveUser, ResetPrefs, WritePrefs
    <2> QED
      BY <2>1, SoloEnds
  <1>3. CASE CheckMains(o)
    <2> DEFINE new == [op EXCEPT !.pc = "writeTags"]
    <2>1. CASE TwoMains(op.names)
      BY <1>3, <2>1, SoloEnds DEF CheckMains
    <2>2. CASE ~ TwoMains(op.names)
      <3>1. new.pc = "writeTags" /\ new.names = op.names /\ new.solo = op.solo
        BY <1>1 DEF Op
      <3>2. Goto(o, new) /\ UNCHANGED group
        BY <1>3, <2>2 DEF CheckMains
      <3> HIDE DEF new
      <3>3. Known(new, group', tags', user')
        BY <2>2, <3>1, <3>2, TwoMainsIn DEF Known, Renaming
      <3> QED
        BY <3>1, <3>2, <3>3, SoloGoes
    <2> QED
      BY <2>1, <2>2
  <1>4. ASSUME DeleteGroup(o) \/ DeleteUsers(o) \/ CheckBulk(o) \/ ReadBulk(o) \/ SetGroup(o)
               \/ \E t \in op.todo : RegroupUser(o, t) \/ AssertGroupExists(o, t)
        PROVE  SoloInv'
    <2>1. \/ End(o)
          \/ \E pc \in {"deleteUsers", "pull", "readBulk", "bulk"} : Goto(o, [op EXCEPT !.pc = pc])
          \/ \E todo : Goto(o, [op EXCEPT !.pc = "bulk", !.todo = todo])
          \/ op.pc \in {"bulk", "assert"} /\ \E todo : Goto(o, [op EXCEPT !.todo = todo])
      <3>1. CASE DeleteGroup(o) \/ DeleteUsers(o) \/ CheckBulk(o) \/ SetGroup(o)
        BY <3>1 DEF DeleteGroup, DeleteUsers, CheckBulk, SetGroup
      <3>2. CASE ReadBulk(o)
        BY <3>2, Zenon DEF ReadBulk
      <3>3. ASSUME NEW t \in op.todo, RegroupUser(o, t)
            PROVE  \/ End(o)
                   \/ op.pc \in {"bulk", "assert"} /\ \E todo : Goto(o, [op EXCEPT !.todo = todo])
        <4>1. Goto(o, [op EXCEPT !.todo = op.todo \ {t}]) \/ End(o)
          BY <3>3 DEF RegroupUser, WriteUser
        <4> QED
          BY <3>3, <4>1, Zenon DEF RegroupUser
      <3>4. ASSUME NEW t \in op.todo, AssertGroupExists(o, t)
            PROVE  \/ End(o)
                   \/ op.pc \in {"bulk", "assert"} /\ \E todo : Goto(o, [op EXCEPT !.todo = todo])
        <4>1. Goto(o, [op EXCEPT !.todo = op.todo \ {t}]) \/ End(o)
          BY <3>4 DEF AssertGroupExists
        <4> QED
          BY <3>4, <4>1, Zenon DEF AssertGroupExists
      <3> QED
        BY <1>4, <3>1, <3>2, <3>3, <3>4
    <2>2. CASE End(o)
      BY <2>2, SoloEnds
    <2>3. ASSUME NEW pc \in {"deleteUsers", "pull", "readBulk", "bulk"},
                 Goto(o, [op EXCEPT !.pc = pc])
          PROVE  SoloInv'
      <3> DEFINE new == [op EXCEPT !.pc = pc]
      <3>1. new.pc = pc /\ new.solo = op.solo
        BY <1>1 DEF Op
      <3>2. Goto(o, new)
        BY <2>3
      <3> HIDE DEF new
      <3> QED
        BY <1>1, <3>1, <3>2, GoesElsewhere DEF Renaming
    <2>4. ASSUME NEW todo, Goto(o, [op EXCEPT !.pc = "bulk", !.todo = todo])
          PROVE  SoloInv'
      <3> DEFINE new == [op EXCEPT !.pc = "bulk", !.todo = todo]
      <3>1. new.pc = "bulk" /\ new.solo = op.solo
        BY <1>1 DEF Op
      <3>2. Goto(o, new)
        BY <2>4
      <3> HIDE DEF new
      <3> QED
        BY <1>1, <3>1, <3>2, GoesElsewhere DEF Renaming
    <2>5. ASSUME op.pc \in {"bulk", "assert"}, NEW todo, Goto(o, [op EXCEPT !.todo = todo])
          PROVE  SoloInv'
      <3> DEFINE new == [op EXCEPT !.todo = todo]
      <3>1. new.pc = op.pc /\ new.solo = op.solo
        BY <1>1 DEF Op
      <3>2. Goto(o, new)
        BY <2>5
      <3> HIDE DEF new
      <3> QED
        BY <1>1, <2>5, <3>1, <3>2, GoesElsewhere DEF Renaming
    <2> QED
      BY <2>1, <2>2, <2>3, <2>4, <2>5
  <1> QED
    BY <1>2, <1>3, <1>4

LEMMA SoloInit == Init => SoloInv
  BY DEF Init, None, SoloInv

LEMMA SoloInductive == IInv /\ SoloInv /\ [Next]_vars => SoloInv'
  <1> SUFFICES ASSUME IInv, SoloInv, [Next]_vars PROVE SoloInv'
    OBVIOUS
  <1>1. OpsOK
    BY DEF IInv
  <1>2. ASSUME NEW o \in Slots, Request(o)
        PROVE  SoloInv'
    BY <1>2, SoloRequests
  <1>3. ASSUME NEW o \in Slots, Step(o)
        PROVE  SoloInv'
    <2>1. o \in DOMAIN ops
      BY <1>3 DEF Step
    <2>2. CASE CheckTaken(o) \/ FindTagged(o) \/ FindMembers(o) \/ FindPrefs(o)
      BY <2>1, <2>2, SoloRenameReads
    <2>3. ASSUME NEW t \in ops[o].todo, Retag(o, t) \/ RenameMember(o, t) \/ RenamePrefs(o, t)
          PROVE  SoloInv'
      BY <2>1, <2>3, SoloRetags, SoloRenamesMember, SoloRenamesPrefs
    <2>4. CASE \/ DeleteGroup(o) \/ DeleteUsers(o) \/ PullTag(o) \/ WriteGroup(o)
               \/ CheckMains(o) \/ WriteTags(o) \/ SaveUser(o)
               \/ CheckBulk(o) \/ ReadBulk(o) \/ SetGroup(o) \/ ResetPrefs(o) \/ WritePrefs(o)
               \/ \E t \in ops[o].todo : RegroupUser(o, t) \/ AssertGroupExists(o, t)
      BY <2>1, <2>4, SoloOthers
    <2> QED
      BY <1>3, <2>2, <2>3, <2>4 DEF Step
  <1>4. ASSUME NEW o \in DOMAIN ops, Throw(o)
        PROVE  SoloInv'
    BY <1>4, SoloEnds
  <1>5. CASE \/ \E g \in Gids, n \in Names, main \in BOOLEAN : CreateGroup(g, n, main)
             \/ \E u \in Users : DeleteUser(u)
    <2>1. AtOnce
      BY <1>5 DEF CreateGroup, DeleteUser
    <2> QED
      BY <1>1, <2>1, SoloAtOnce
  <1>6. CASE UNCHANGED vars
    BY <1>6 DEF vars, SoloInv
  <1> QED
    BY <1>2, <1>3, <1>4, <1>5, <1>6 DEF Next

LEMMA NoTrace == SoloInv => RenameLeavesNoTrace
  BY DEF SoloInv, Known, RenameLeavesNoTrace, Renaming

(* A rename nothing overlaps with leaves the old name on no connect, no    *)
(* user and in no saved choice (renameGroupTagEverywhere,                  *)
(* syncSubscriptionPrefsAfterGroupRename), whatever requests before it     *)
(* left behind.                                                            *)
THEOREM RenameLeavesNoTraceCorrect == Spec => []RenameLeavesNoTrace
  <1>1. IInv /\ SoloInv /\ [Next]_vars => IInv' /\ SoloInv'
    BY Inductive, SoloInductive
  <1> QED
    BY <1>1, InitOK, SoloInit, NoTrace, PTL DEF Spec

-----------------------------------------------------------------------------
(* Tags change in three ways: they are reduced, written after the check,   *)
(* or get a name that no group had when the rename was allowed.            *)
LEMMA TagsKeepMains ==
    ASSUME IInv, SoloInv, [Next]_vars, NEW c \in Conns,
           tags'[c] # tags[c], \A o \in DOMAIN ops : ops[o].solo,
           TwoMains(tags'[c])
    PROVE  TwoMains(tags[c])
  <1>1. \E o \in Slots : Step(o) /\ ~ UNCHANGED tags
    <2>1. ~ UNCHANGED tags
      OBVIOUS
    <2>2. ASSUME NEW o \in Slots, Request(o)
          PROVE  UNCHANGED tags
      <3>1. \E op : Begin(o, op)
        BY <2>2, Zenon DEF Request, BeginDelete, BeginUpdate, BeginTag, BeginUser, BeginBulk,
                           BeginPrefs
      <3> QED
        BY <3>1 DEF Begin
    <2>3. ASSUME NEW o \in DOMAIN ops, Throw(o)
          PROVE  UNCHANGED tags
      BY <2>3 DEF Throw
    <2>4. ASSUME \/ \E g \in Gids, n \in Names, main \in BOOLEAN : CreateGroup(g, n, main)
                 \/ \E u \in Users : DeleteUser(u)
          PROVE  UNCHANGED tags
      BY <2>4 DEF CreateGroup, DeleteUser
    <2>5. UNCHANGED vars => UNCHANGED tags
      BY DEF vars
    <2> QED
      BY <2>1, <2>2, <2>3, <2>4, <2>5 DEF Next
  <1>2. PICK o \in Slots : Step(o) /\ ~ UNCHANGED tags
    BY <1>1
  <1> DEFINE op == ops[o]
  <1>3. /\ o \in DOMAIN ops /\ op.solo /\ Known(op, group, tags, user)
        /\ op \in Op /\ OpOK(op) /\ tags[c] \in SUBSET Names /\ tags \in [Conns -> SUBSET Names]
    BY <1>2 DEF Step, SoloInv, IInv, OpsOK, OpOK, Tables
  <1>4. PullTag(o) \/ WriteTags(o) \/ \E t \in op.todo : Retag(o, t)
    BY <1>2 DEF Step, DeleteGroup, DeleteUsers, CheckTaken, FindTagged, FindMembers, FindPrefs,
                WriteGroup, RenameMember, RenamePrefs, RegroupUser, WriteUser, AssertGroupExists,
                CheckMains, SaveUser, CheckBulk, ReadBulk, SetGroup, ResetPrefs, WritePrefs
  <1>5. Cardinality(MainsIn(tags'[c], group)) > 1
    BY TwoMainsIn
  <1>6. ASSUME tags'[c] \in SUBSET Names,
               MainsIn(tags'[c], group) \subseteq MainsIn(tags[c], group)
        PROVE  TwoMains(tags[c])
    BY <1>3, <1>5, <1>6, FewMains, TwoMainsIn
  <1>7. CASE PullTag(o)
    <2>1. tags'[c] = tags[c] \ {op.old}
      BY <1>7 DEF PullTag
    <2> QED
      BY <1>3, <1>6, <2>1 DEF MainsIn
  <1>8. CASE WriteTags(o)
    <2>1. tags'[c] = op.names /\ op.pc = "writeTags"
      BY <1>8 DEF WriteTags
    <2> QED
      BY <1>3, <1>5, <2>1 DEF Known
  <1>9. ASSUME NEW t \in op.todo, Retag(o, t)
        PROVE  TwoMains(tags[c])
    <2>1. op.pc = "retag" /\ tags' = [tags EXCEPT ![t.id] = Renamed(t.was, op.old, op.new)]
      BY <1>9 DEF Retag
    <2>2. /\ t.was = tags[t.id]
          /\ \A g \in DOMAIN group : group[g].name # op.new
      BY <1>3, <2>1 DEF Known
    <2>3. c = t.id /\ tags'[c] = Renamed(tags[c], op.old, op.new)
      BY <1>3, <2>1, <2>2
    <2>4. op.new \in Names
      BY <1>3 DEF Op
    <2> QED
      BY <1>3, <1>6, <2>2, <2>3, <2>4 DEF Renamed, MainsIn
  <1> QED
    BY <1>4, <1>7, <1>8, <1>9

(* As long as nothing overlaps, no change of tags gives a connect a second *)
(* main group, a rename included (assertConnectHasAtMostOneMainGroup is    *)
(* made by setConnectGroups only).                                         *)
THEOREM NoSecondMainByTagsCorrect == Spec => NoSecondMainByTags
  <1>1. IInv /\ SoloInv /\ [Next]_vars => IInv' /\ SoloInv'
    BY Inductive, SoloInductive
  <1>2. IInv /\ SoloInv /\ [Next]_vars =>
           [\A c \in Conns :
               tags'[c] # tags[c] /\ (\A o \in DOMAIN ops : ops[o].solo) =>
                   (TwoMains(tags'[c]) => TwoMains(tags[c]))]_vars
    BY TagsKeepMains
  <1> QED
    BY <1>1, <1>2, InitOK, SoloInit, PTL DEF Spec, NoSecondMainByTags

-----------------------------------------------------------------------------
(* Requests that take turns.                                               *)
TakeTurns == (\A o, q \in Slots : o = q) /\ CanCrash = FALSE

Live(gr) == {gr[g].name : g \in DOMAIN gr}

-----------------------------------------------------------------------------
(* What the tables look like between requests: every user belongs to       *)
(* groups there are, and has choices for these only.                       *)
Settled(gr, us) ==
    \A u \in DOMAIN us :
        us[u].groups \subseteq Live(gr) /\ DOMAIN us[u].prefs \subseteq us[u].groups

(* What the tables look like at each place of the request in progress.     *)
Holding(op, gr) ==
    /\ op.pc \in {"deleteGroup"} \cup Renaming =>
          op.gid \in DOMAIN gr /\ gr[op.gid].name = op.old
    /\ op.pc \in {"deleteUsers"} => op.old \notin Live(gr)
    /\ op.pc \in {"tagged", "retag", "regroup", "prefs"} => op.new \notin Live(gr)
    /\ op.pc = "assert" => op.names \ op.todo \subseteq Live(gr)
    /\ op.pc \in {"readBulk", "bulk"} => op.new \in Live(gr)

Rows(op, gr, us) ==
    /\ op.pc \notin {"deleteUsers", "regroup", "prefs", "bulk"} => Settled(gr, us)
    /\ op.pc = "deleteUsers" => \A u \in DOMAIN us :
          /\ us[u].groups \subseteq Live(gr) \cup {op.old}
          /\ DOMAIN us[u].prefs \subseteq us[u].groups
    /\ op.pc \in {"regroup", "prefs"} => \A u \in DOMAIN us :
          /\ us[u].groups \subseteq Live(gr) \cup {op.new}
          /\ DOMAIN us[u].prefs \subseteq us[u].groups \cup {op.old}
          /\ op.old \in DOMAIN us[u].prefs =>
                /\ us[u].groups \cap {op.old, op.new} # {}
                /\ op.new \notin DOMAIN us[u].prefs
    /\ op.pc = "regroup" => \A u \in DOMAIN us : op.new \notin DOMAIN us[u].prefs
    /\ op.pc = "bulk" => \A u \in DOMAIN us :
          /\ us[u].groups \subseteq Live(gr)
          /\ u \in op.who \/ DOMAIN us[u].prefs \subseteq us[u].groups

Copies(op, gr, us) ==
    /\ op.pc = "regroup" => \A t \in op.todo :
          t.id \in DOMAIN us /\ t.was = us[t.id].groups /\ op.old \in t.was
    /\ op.pc = "prefs" => \A t \in op.todo :
          t.id \in DOMAIN us /\ t.was = us[t.id].prefs /\ op.old \in DOMAIN t.was
    /\ op.pc = "bulk" => \A t \in op.todo :
          t.id \in op.who \cap DOMAIN us /\ Regrouped(op, t.was) \subseteq Live(gr)
    /\ op.pc = "writePrefs" => \A t \in op.todo :
          t.id \in DOMAIN us /\ DOMAIN t.was = us[t.id].groups

Fits(op, gr, us) == Holding(op, gr) /\ Rows(op, gr, us) /\ Copies(op, gr, us)

OwnNames(gr) == \A g, h \in DOMAIN gr : gr[g].name = gr[h].name => g = h

TurnInv ==
    /\ OwnNames(group)
    /\ DOMAIN ops = {} => Settled(group, user)
    /\ \A o \in DOMAIN ops : ops[o].solo /\ Fits(ops[o], group, user)

(* With one slot, the request in progress is the only one.                 *)
LEMMA OnlyOne ==
    ASSUME TakeTurns, OpsOK, NEW o \in DOMAIN ops
    PROVE  DOMAIN ops = {o} /\ DOMAIN ops = Slots /\ o \in Slots
  BY DEF TakeTurns, OpsOK

LEMMA TurnBegins ==
    ASSUME TakeTurns, OpsOK, TurnInv, NEW o \in Slots, NEW op,
           Begin(o, op), op.solo = (DOMAIN ops = {}),
           Settled(group, user) => Fits(op, group, user)
    PROVE  TurnInv'
  <1>1. DOMAIN ops = {}
    BY DEF Begin, OpsOK, TakeTurns
  <1>2. /\ UNCHANGED <<group, user>>
        /\ DOMAIN ops' = {o} /\ ops'[o] = op
    BY <1>1 DEF Begin
  <1> QED
    BY <1>1, <1>2 DEF TurnInv

LEMMA TurnEnds ==
    ASSUME TakeTurns, OpsOK, NEW o \in DOMAIN ops, End(o),
           OwnNames(group'), Settled(group', user')
    PROVE  TurnInv'
  <1>1. DOMAIN ops' = {}
    BY OnlyOne DEF End, Restrict
  <1> QED
    BY <1>1 DEF TurnInv

LEMMA TurnGoes ==
    ASSUME TakeTurns, OpsOK, TurnInv, NEW o \in DOMAIN ops, NEW op, Goto(o, op),
           op.solo = ops[o].solo, OwnNames(group'), Fits(op, group', user')
    PROVE  TurnInv'
  <1>1. DOMAIN ops = {o} /\ ops' = [ops EXCEPT ![o] = op]
    BY OnlyOne DEF Goto
  <1>2. DOMAIN ops' = {o} /\ ops'[o] = op
    BY <1>1
  <1> QED
    BY <1>2 DEF TurnInv

-----------------------------------------------------------------------------
(* The invariant is kept: requests at their first step.                    *)
LEMMA TurnRequests ==
    ASSUME TakeTurns, IInv, TurnInv, NEW o \in Slots, Request(o)
    PROVE  TurnInv'
  <1>1. Tables /\ OpsOK
    BY DEF IInv
  <1>2. ASSUME NEW g \in Gids, BeginDelete(o, g)
        PROVE  TurnInv'
    <2> DEFINE op == [NewOp("delete") EXCEPT !.pc = "deleteGroup", !.gid = g, !.old = group[g].name]
    <2>1. NewOp("delete") \in Op /\ NewOp("delete").solo = (DOMAIN ops = {}) /\ NewOp("delete").todo = {}
      BY NewOpSolo, NewOpType DEF Kinds
    <2>2. op.pc = "deleteGroup" /\ op.gid = g /\ op.old = group[g].name /\ op.solo = (DOMAIN ops = {})
      BY <2>1 DEF Op
    <2>3. Begin(o, op)
      BY <1>2 DEF BeginDelete
    <2> HIDE DEF op
    <2>4. Settled(group, user) => Fits(op, group, user)
      BY <1>2, <1>1, <2>2 DEF Fits, Holding, Rows, Copies, Renaming, BeginDelete
    <2> QED
      BY <1>1, <2>2, <2>3, <2>4, TurnBegins
  <1>3. ASSUME NEW g \in Gids, NEW n \in Names, NEW flag \in {"same", "on", "off"},
               BeginUpdate(o, g, n, flag)
        PROVE  TurnInv'
    <2> DEFINE pc == IF n = group[g].name THEN "writeGroup" ELSE "check"
               op == [NewOp("update") EXCEPT !.gid = g, !.old = group[g].name, !.new = n,
                                             !.flag = flag, !.pc = pc]
    <2>1. NewOp("update") \in Op /\ NewOp("update").solo = (DOMAIN ops = {})
      BY NewOpSolo DEF Kinds
    <2>2. pc \in {"writeGroup", "check"}
      OBVIOUS
    <2>3. Begin(o, op) /\ g \in DOMAIN group
      BY <1>3 DEF BeginUpdate
    <2> HIDE DEF pc
    <2>4. op.pc = pc /\ op.gid = g /\ op.old = group[g].name /\ op.solo = (DOMAIN ops = {})
      BY <2>1 DEF Op
    <2> HIDE DEF op
    <2>5. Settled(group, user) => Fits(op, group, user)
      BY <2>2, <2>3, <2>4 DEF Fits, Holding, Rows, Copies, Renaming
    <2> QED
      BY <1>1, <2>3, <2>4, <2>5, TurnBegins
  <1>4. ASSUME NEW c \in Conns, NEW names \in SUBSET Names, BeginTag(o, c, names)
        PROVE  TurnInv'
    <2> DEFINE pc == IF Cardinality(Normalized(names)) < 2 THEN "writeTags" ELSE "mains"
               op == [NewOp("tag") EXCEPT !.con = {c}, !.names = Normalized(names), !.pc = pc]
    <2>1. NewOp("tag") \in Op /\ NewOp("tag").solo = (DOMAIN ops = {})
      BY NewOpSolo DEF Kinds
    <2>2. pc \in {"mains", "writeTags"}
      OBVIOUS
    <2>3. Begin(o, op)
      BY <1>4 DEF BeginTag
    <2> HIDE DEF pc
    <2>4. op.pc = pc /\ op.solo = (DOMAIN ops = {})
      BY <2>1 DEF Op
    <2> HIDE DEF op
    <2>5. Settled(group, user) => Fits(op, group, user)
      BY <2>2, <2>4 DEF Fits, Holding, Rows, Copies, Renaming
    <2> QED
      BY <1>1, <2>3, <2>4, <2>5, TurnBegins
  <1>5. ASSUME NEW kind \in {"createUser", "updateUser"}, NEW u \in Users,
               NEW names \in SUBSET Names, BeginUser(o, kind, u, names)
        PROVE  TurnInv'
    <2> DEFINE op == [NewOp(kind) EXCEPT !.pc = "assert", !.who = {u}, !.names = names,
                                         !.todo = names]
    <2>1. NewOp(kind) \in Op /\ NewOp(kind).solo = (DOMAIN ops = {}) /\ NewOp(kind).todo = {}
      BY NewOpSolo, NewOpType DEF Kinds
    <2>2. op.pc = "assert" /\ op.names = op.todo /\ op.solo = (DOMAIN ops = {})
      BY <2>1 DEF Op
    <2>3. Begin(o, op)
      BY <1>5 DEF BeginUser
    <2> HIDE DEF op
    <2>4. Settled(group, user) => Fits(op, group, user)
      BY <1>5, <1>1, <2>2 DEF Fits, Holding, Rows, Copies, Renaming, BeginUser
    <2> QED
      BY <1>1, <2>2, <2>3, <2>4, TurnBegins
  <1>6. ASSUME NEW mode \in {"add", "remove", "move", "set"}, NEW us \in SUBSET Users,
               NEW n \in Names, NEW from \in Names, BeginBulk(o, mode, us, n, from)
        PROVE  TurnInv'
    <2> DEFINE op == [NewOp("bulk") EXCEPT !.pc = "checkBulk", !.mode = mode, !.who = us,
                                           !.new = n, !.old = from]
    <2>1. NewOp("bulk") \in Op /\ NewOp("bulk").solo = (DOMAIN ops = {}) /\ NewOp("bulk").todo = {}
      BY NewOpSolo, NewOpType DEF Kinds
    <2>2. op.pc = "checkBulk" /\ op.solo = (DOMAIN ops = {})
      BY <2>1 DEF Op
    <2>3. Begin(o, op)
      BY <1>6 DEF BeginBulk
    <2> HIDE DEF op
    <2>4. Settled(group, user) => Fits(op, group, user)
      BY <1>6, <1>1, <2>2 DEF Fits, Holding, Rows, Copies, Renaming, BeginBulk
    <2> QED
      BY <1>1, <2>2, <2>3, <2>4, TurnBegins
  <1>7. ASSUME NEW u \in DOMAIN user, NEW p \in [user[u].groups -> BOOLEAN], BeginPrefs(o, u, p)
        PROVE  TurnInv'
    <2> DEFINE op == [NewOp("savePrefs") EXCEPT !.pc = "writePrefs",
                                                !.todo = {[id |-> u, was |-> p]}]
    <2>1. NewOp("savePrefs") \in Op /\ NewOp("savePrefs").solo = (DOMAIN ops = {}) /\ NewOp("savePrefs").todo = {}
      BY NewOpSolo, NewOpType DEF Kinds
    <2>2. op.pc = "writePrefs" /\ op.todo = {[id |-> u, was |-> p]} /\ op.solo = (DOMAIN ops = {})
      BY <2>1 DEF Op
    <2>3. Begin(o, op)
      BY <1>7 DEF BeginPrefs
    <2> HIDE DEF op
    <2>4. Settled(group, user) => Fits(op, group, user)
      BY <1>7, <1>1, <2>2 DEF Fits, Holding, Rows, Copies, Renaming, BeginPrefs
    <2> QED
      BY <1>1, <2>2, <2>3, <2>4, TurnBegins
  <1> QED
    BY <1>2, <1>3, <1>4, <1>5, <1>6, <1>7 DEF Request

(* Steps that read.  What a rename has found is from Known.                *)
LEMMA TurnRenameReads ==
    ASSUME TakeTurns, IInv, SoloInv, TurnInv, NEW o \in DOMAIN ops,
           CheckTaken(o) \/ FindTagged(o) \/ FindMembers(o) \/ FindPrefs(o)
    PROVE  TurnInv'
  <1> DEFINE op == ops[o]
  <1>1. /\ OpsOK /\ op \in Op /\ Fits(op, group, user) /\ OwnNames(group)
        /\ Known(op, group, tags, user)
        /\ \A u \in DOMAIN user : user[u] \in UserRow
    BY DEF IInv, OpsOK, OpOK, TurnInv, SoloInv, Tables
  <1>2. UNCHANGED <<group, user>>
    BY DEF CheckTaken, FindTagged, FindMembers, FindPrefs
  <1>3. CASE CheckTaken(o)
    <2> DEFINE new == [op EXCEPT !.pc = "tagged"]
    <2>1. CASE End(o)
      <3>1. Settled(group, user)
        BY <1>1, <1>3 DEF CheckTaken, Fits, Rows
      <3> QED
        BY <1>1, <1>2, <2>1, <3>1, TurnEnds
    <2>2. CASE Goto(o, new) /\ op.new \notin LiveNames
      <3>1. /\ new.pc = "tagged" /\ new.old = op.old /\ new.new = op.new /\ new.gid = op.gid
            /\ new.solo = op.solo
        BY <1>1 DEF Op
      <3> HIDE DEF new
      <3>2. op.pc = "check"
        BY <1>3 DEF CheckTaken
      <3>3. Fits(new, group, user)
        BY <1>1, <2>2, <3>1, <3>2 DEF Fits, Holding, Rows, Copies, Renaming, LiveNames, Live
      <3> QED
        BY <1>1, <1>2, <2>2, <3>1, <3>3, TurnGoes
    <2> QED
      BY <1>3, <2>1, <2>2 DEF CheckTaken
  <1>4. CASE FindTagged(o)
    <2>1. PICK todo : Goto(o, [op EXCEPT !.pc = "retag", !.todo = todo]) /\ op.pc = "tagged"
      BY <1>4 DEF FindTagged
    <2> DEFINE new == [op EXCEPT !.pc = "retag", !.todo = todo]
    <2>2. /\ new.pc = "retag" /\ new.old = op.old /\ new.new = op.new /\ new.gid = op.gid
          /\ new.solo = op.solo /\ Goto(o, new)
      BY <1>1, <2>1 DEF Op
    <2> HIDE DEF new
    <2>3. Fits(new, group, user)
      BY <1>1, <2>1, <2>2 DEF Fits, Holding, Rows, Copies, Renaming
    <2> QED
      BY <1>1, <1>2, <2>2, <2>3, TurnGoes
  <1>5. CASE FindMembers(o)
    <2> DEFINE found == {[id |-> u, was |-> user[u].groups] : u \in MembersOf(op.old)}
               new == [op EXCEPT !.pc = "regroup", !.todo = found]
    <2>1. Goto(o, new) /\ op.pc = "retag"
      BY <1>5 DEF FindMembers
    <2>2. \A t \in found : t.id \in DOMAIN user /\ t.was = user[t.id].groups /\ op.old \in t.was
      BY DEF MembersOf
    <2> HIDE DEF found
    <2>3. /\ new.pc = "regroup" /\ new.old = op.old /\ new.new = op.new /\ new.gid = op.gid
          /\ new.solo = op.solo /\ new.todo = found
      BY <1>1 DEF Op
    <2> HIDE DEF new
    <2>4. op.new \notin Live(group) /\ Settled(group, user)
      BY <1>1, <2>1 DEF Fits, Holding, Rows, Renaming
    <2>5. \A u \in DOMAIN user :
             /\ user[u].groups \subseteq Live(group) /\ op.new \notin user[u].groups
             /\ DOMAIN user[u].prefs \subseteq user[u].groups
      BY <2>4 DEF Settled
    <2>6. Rows(new, group, user)
      BY <2>3, <2>5 DEF Rows
    <2>7. Holding(new, group) /\ Copies(new, group, user)
      BY <1>1, <2>1, <2>2, <2>3 DEF Fits, Holding, Copies, Renaming
    <2> QED
      BY <1>1, <1>2, <2>1, <2>3, <2>6, <2>7, TurnGoes DEF Fits
  <1>6. CASE FindPrefs(o)
    <2> DEFINE found == {[id |-> u, was |-> user[u].prefs] :
                            u \in {u \in DOMAIN user : op.old \in DOMAIN user[u].prefs}}
               new == [op EXCEPT !.pc = "prefs", !.todo = found]
    <2>1. Goto(o, new) /\ op.pc = "regroup"
      BY <1>6 DEF FindPrefs
    <2>2. \A t \in found :
             t.id \in DOMAIN user /\ t.was = user[t.id].prefs /\ op.old \in DOMAIN t.was
      OBVIOUS
    <2> HIDE DEF found
    <2>3. /\ new.pc = "prefs" /\ new.old = op.old /\ new.new = op.new /\ new.gid = op.gid
          /\ new.solo = op.solo /\ new.todo = found
      BY <1>1 DEF Op
    <2> HIDE DEF new
    <2>4. Rows(new, group, user)
      BY <1>1, <2>1, <2>3 DEF Fits, Rows
    <2>5. Holding(new, group) /\ Copies(new, group, user)
      BY <1>1, <2>1, <2>2, <2>3 DEF Fits, Holding, Copies, Renaming
    <2> QED
      BY <1>1, <1>2, <2>1, <2>3, <2>4, <2>5, TurnGoes DEF Fits
  <1> QED
    BY <1>3, <1>4, <1>5, <1>6

(* The other steps that change neither groups nor users.                   *)
LEMMA TurnOtherReads ==
    ASSUME TakeTurns, IInv, TurnInv, NEW o \in DOMAIN ops,
           \/ PullTag(o) \/ WriteTags(o) \/ CheckMains(o) \/ CheckBulk(o) \/ ReadBulk(o)
           \/ \E t \in ops[o].todo : Retag(o, t) \/ AssertGroupExists(o, t)
    PROVE  TurnInv'
  <1> DEFINE op == ops[o]
  <1>1. OpsOK /\ op \in Op /\ Fits(op, group, user) /\ OwnNames(group)
    BY DEF IInv, OpsOK, OpOK, TurnInv
  <1>2. UNCHANGED <<group, user>>
    BY DEF PullTag, WriteTags, CheckMains, CheckBulk, ReadBulk, Retag, AssertGroupExists
  <1>3. /\ op.pc \in {"pull", "writeTags", "mains", "checkBulk", "readBulk", "retag", "assert"}
        /\ Settled(group, user)
    <2>1. op.pc \in {"pull", "writeTags", "mains", "checkBulk", "readBulk", "retag", "assert"}
      BY DEF PullTag, WriteTags, CheckMains, CheckBulk, ReadBulk, Retag, AssertGroupExists
    <2> QED
      BY <1>1, <2>1 DEF Fits, Rows
  <1>4. CASE End(o)
    BY <1>1, <1>2, <1>3, <1>4, TurnEnds
  <1>5. CASE CheckMains(o) \/ CheckBulk(o)
    <2>1. PICK pc \in {"writeTags", "readBulk"} :
             \/ End(o)
             \/ /\ Goto(o, [op EXCEPT !.pc = pc])
                /\ pc = "readBulk" => op.new \in LiveNames
      BY <1>5 DEF CheckMains, CheckBulk
    <2> DEFINE new == [op EXCEPT !.pc = pc]
    <2>2. new.pc = pc /\ new.new = op.new /\ new.solo = op.solo
      BY <1>1 DEF Op
    <2> HIDE DEF new
    <2>3. CASE Goto(o, new) /\ (pc = "readBulk" => op.new \in LiveNames)
      <3>1. Fits(new, group, user)
        BY <1>3, <2>2, <2>3 DEF Fits, Holding, Rows, Copies, Renaming, LiveNames, Live
      <3> QED
        BY <1>1, <1>2, <2>2, <2>3, <3>1, TurnGoes
    <2> QED
      BY <1>4, <2>1, <2>3 DEF new
  <1>6. CASE ReadBulk(o)
    <2> DEFINE rows == {[id |-> u, was |-> user[u].groups] :
                           u \in {u \in op.who \cap DOMAIN user :
                                     op.mode = "move" => op.old \in user[u].groups}}
               todo == {t \in rows : op.mode = "move" \/ Regrouped(op, t.was) # t.was}
               new == [op EXCEPT !.pc = "bulk", !.todo = todo]
    <2>1. op.pc = "readBulk" /\ (End(o) \/ Goto(o, new))
      BY <1>6 DEF ReadBulk
    <2>2. \A t \in rows : t.id \in op.who \cap DOMAIN user /\ t.was = user[t.id].groups
      OBVIOUS
    <2> HIDE DEF rows
    <2>3. /\ new.pc = "bulk" /\ new.new = op.new /\ new.who = op.who /\ new.todo = todo
          /\ new.old = op.old /\ new.mode = op.mode /\ new.solo = op.solo
      BY <1>1 DEF Op
    <2>4. \A t \in todo : t.id \in op.who \cap DOMAIN user /\ t.was \subseteq Live(group)
      BY <1>3, <2>2 DEF Settled
    <2> HIDE DEF todo, new
    <2>5. op.mode \in {"add", "remove", "move"} /\ op.new \in Live(group)
      BY <1>1, <1>6, <2>1 DEF ReadBulk, IInv, OpsOK, OpOK, Fits, Holding
    <2>6. \A t \in todo : Regrouped(new, t.was) \subseteq Live(group)
      BY <2>3, <2>4, <2>5 DEF Regrouped
    <2>7. Fits(new, group, user)
      BY <1>1, <1>3, <2>1, <2>3, <2>4, <2>6 DEF Fits, Holding, Rows, Copies, Renaming, Settled
    <2>8. CASE Goto(o, new)
      BY <1>1, <1>2, <2>3, <2>7, <2>8, TurnGoes
    <2> QED
      BY <1>4, <2>1, <2>8
  <1>7. ASSUME NEW t \in op.todo, Retag(o, t)
        PROVE  TurnInv'
    <2> DEFINE new == [op EXCEPT !.todo = @ \ {t}]
    <2>1. Goto(o, new) /\ op.pc = "retag"
      BY <1>7 DEF Retag
    <2>2. /\ new.pc = op.pc /\ new.old = op.old /\ new.new = op.new /\ new.gid = op.gid
          /\ new.solo = op.solo
      BY <1>1 DEF Op
    <2> HIDE DEF new
    <2>3. Fits(new, group, user)
      BY <1>1, <2>1, <2>2 DEF Fits, Holding, Rows, Copies, Renaming
    <2> QED
      BY <1>1, <1>2, <2>1, <2>2, <2>3, TurnGoes
  <1>8. ASSUME NEW t \in op.todo, AssertGroupExists(o, t)
        PROVE  TurnInv'
    <2> DEFINE new == [op EXCEPT !.todo = @ \ {t}]
    <2>1. op.pc = "assert" /\ (End(o) \/ (Goto(o, new) /\ t \in LiveNames))
      BY <1>8 DEF AssertGroupExists
    <2>2. /\ new.pc = op.pc /\ new.names = op.names /\ new.todo = op.todo \ {t}
          /\ new.solo = op.solo
      BY <1>1 DEF Op
    <2> HIDE DEF new
    <2>3. CASE Goto(o, new) /\ t \in LiveNames
      <3>1. Fits(new, group, user)
        BY <1>1, <1>3, <2>1, <2>2, <2>3 DEF Fits, Holding, Rows, Copies, Renaming, LiveNames, Live
      <3> QED
        BY <1>1, <1>2, <2>2, <2>3, <3>1, TurnGoes
    <2> QED
      BY <1>4, <2>1, <2>3
  <1>9. CASE PullTag(o) \/ WriteTags(o)
    <2>1. End(o)
      BY <1>9 DEF PullTag, WriteTags
    <2> QED
      BY <1>4, <2>1
  <1> QED
    BY <1>5, <1>6, <1>7, <1>8, <1>9

-----------------------------------------------------------------------------
(* Steps that write groups.                                                *)
LEMMA TurnGroupWrites ==
    ASSUME TakeTurns, IInv, SoloInv, TurnInv, NEW o \in DOMAIN ops,
           DeleteGroup(o) \/ WriteGroup(o)
    PROVE  TurnInv'
  <1> DEFINE op == ops[o]
  <1>1. /\ OpsOK /\ op \in Op /\ Fits(op, group, user) /\ OwnNames(group)
        /\ Known(op, group, tags, user)
    BY DEF IInv, OpsOK, OpOK, TurnInv, SoloInv
  <1>2. UNCHANGED user
    BY DEF DeleteGroup, WriteGroup
  <1>3. CASE DeleteGroup(o)
    <2> DEFINE new == [op EXCEPT !.pc = "deleteUsers"]
    <2>1. /\ op.pc = "deleteGroup" /\ op.gid \in DOMAIN group /\ group[op.gid].name = op.old
          /\ Settled(group, user)
      BY <1>1, <1>3 DEF DeleteGroup, Fits, Holding, Rows
    <2>2. Goto(o, new) /\ group' = Restrict(group, DOMAIN group \ {op.gid})
      BY <1>3, <2>1 DEF DeleteGroup
    <2>3. new.pc = "deleteUsers" /\ new.old = op.old /\ new.solo = op.solo
      BY <1>1 DEF Op
    <2> HIDE DEF new
    <2>4. /\ DOMAIN group' = DOMAIN group \ {op.gid}
          /\ \A g \in DOMAIN group' : group'[g] = group[g]
      BY <2>2 DEF Restrict
    <2>5. Live(group') = Live(group) \ {op.old} /\ OwnNames(group')
      BY <1>1, <2>1, <2>4 DEF Live, OwnNames
    <2>6. Fits(new, group', user)
      BY <2>1, <2>3, <2>5 DEF Fits, Holding, Rows, Copies, Renaming, Settled
    <2> QED
      BY <1>1, <1>2, <2>2, <2>3, <2>5, <2>6, TurnGoes
  <1>4. CASE WriteGroup(o)
    <2>1. End(o) /\ op.pc \in {"writeGroup", "prefs"}
      BY <1>4 DEF WriteGroup
    <2>2. /\ DOMAIN group' = DOMAIN group
          /\ \A g \in DOMAIN group : g # op.gid => group'[g].name = group[g].name
      BY <1>4 DEF WriteGroup
    <2>3. CASE op.pc = "writeGroup"
      <3>1. \A g \in DOMAIN group : group'[g].name = group[g].name
        BY <1>4, <2>3 DEF WriteGroup
      <3>2. Live(group') = Live(group) /\ OwnNames(group')
        BY <1>1, <2>2, <3>1 DEF Live, OwnNames
      <3>3. Settled(group', user')
        BY <1>1, <1>2, <2>3, <3>2 DEF Settled, Fits, Rows
      <3> QED
        BY <1>1, <2>1, <3>2, <3>3, TurnEnds
    <2>4. CASE op.pc = "prefs"
      <3>1. /\ op.gid \in DOMAIN group /\ group[op.gid].name = op.old /\ op.old # op.new
            /\ \A g \in DOMAIN group : group[g].name # op.new
            /\ op.todo = {}
        BY <1>1, <1>4, <2>4 DEF Fits, Holding, Known, Renaming, Live, WriteGroup
      <3>2. group'[op.gid].name = op.new
        BY <1>4, <2>4, <3>1 DEF WriteGroup
      <3>3. OwnNames(group') /\ Live(group') = (Live(group) \ {op.old}) \cup {op.new}
        BY <1>1, <2>2, <3>1, <3>2 DEF Live, OwnNames
      <3>4. \A u \in DOMAIN user :
               /\ op.old \notin user[u].groups /\ op.old \notin DOMAIN user[u].prefs
               /\ user[u].groups \subseteq Live(group) \cup {op.new}
               /\ DOMAIN user[u].prefs \subseteq user[u].groups \cup {op.old}
        BY <1>1, <2>4, <3>1 DEF Known, Fits, Rows
      <3>5. Settled(group', user')
        BY <1>2, <3>3, <3>4 DEF Settled
      <3> QED
        BY <1>1, <2>1, <3>3, <3>5, TurnEnds
    <2> QED
      BY <2>1, <2>3, <2>4
  <1> QED
    BY <1>3, <1>4

(* The loops over users.  The document to be written is there, so that the *)
(* loop goes on.                                                           *)
LEMMA TurnLoops ==
    ASSUME TakeTurns, IInv, SoloInv, TurnInv, NEW o \in DOMAIN ops, NEW t \in ops[o].todo,
           RenameMember(o, t) \/ RenamePrefs(o, t) \/ RegroupUser(o, t)
    PROVE  TurnInv'
  <1> DEFINE op == ops[o]
             new == [op EXCEPT !.todo = @ \ {t}]
  <1>1. /\ OpsOK /\ op \in Op /\ Fits(op, group, user) /\ OwnNames(group)
        /\ Known(op, group, tags, user)
        /\ \A u \in DOMAIN user : user[u] \in UserRow
    BY DEF IInv, OpsOK, OpOK, TurnInv, SoloInv, Tables
  <1>2. /\ UNCHANGED group
        /\ op.pc \in {"regroup", "prefs", "bulk"}
    BY DEF RenameMember, RenamePrefs, RegroupUser, WriteUser
  <1>3. t.id \in DOMAIN user
    BY <1>1, <1>2 DEF Fits, Copies
  <1>4. Goto(o, new)
    BY <1>3 DEF RenameMember, RenamePrefs, RegroupUser, WriteUser
  <1>5. /\ new.pc = op.pc /\ new.old = op.old /\ new.new = op.new /\ new.gid = op.gid
        /\ new.who = op.who /\ new.mode = op.mode /\ new.solo = op.solo
        /\ new.todo = op.todo \ {t}
    BY <1>1 DEF Op
  <1> HIDE DEF new
  <1>6. \A x : Regrouped(new, x) = Regrouped(op, x)
    BY <1>5 DEF Regrouped
  <1>7. Holding(new, group)
    BY <1>1, <1>2, <1>5 DEF Fits, Holding, Renaming
  <1>8. CASE RenameMember(o, t)
    <2>1. /\ op.pc = "regroup" /\ DOMAIN user' = DOMAIN user
          /\ \A u \in DOMAIN user : u # t.id => user'[u] = user[u]
          /\ user'[t.id].groups = Renamed(t.was, op.old, op.new)
          /\ user'[t.id].prefs = user[t.id].prefs
      BY <1>1, <1>3, <1>8 DEF RenameMember, WriteUser, UserRow
    <2>2. op.old # op.new
      BY <1>1, <2>1 DEF Known, Renaming
    <2>3. \A x \in op.todo : x.was = user[x.id].groups /\ x.id \in DOMAIN user /\ op.old \in x.was
      BY <1>1, <2>1 DEF Fits, Copies
    <2>4. op.todo \subseteq GroupCopy
      BY <1>1, <2>1 DEF OpsOK, OpOK
    <2>5. \A x \in new.todo : x.id # t.id
      BY <1>5, <2>3, <2>4 DEF GroupCopy
    <2>6. Copies(new, group, user')
      BY <1>5, <2>1, <2>3, <2>5 DEF Copies
    <2>7. \A u \in DOMAIN user :
             /\ user[u].groups \subseteq Live(group) \cup {op.new}
             /\ DOMAIN user[u].prefs \subseteq user[u].groups \cup {op.old}
             /\ op.old \in DOMAIN user[u].prefs => user[u].groups \cap {op.old, op.new} # {}
             /\ op.new \notin DOMAIN user[u].prefs
      BY <1>1, <2>1 DEF Fits, Rows
    <2>8. \A u \in DOMAIN user' :
             /\ user'[u].groups \subseteq Live(group) \cup {op.new}
             /\ DOMAIN user'[u].prefs \subseteq user'[u].groups \cup {op.old}
             /\ op.old \in DOMAIN user'[u].prefs => user'[u].groups \cap {op.old, op.new} # {}
             /\ op.new \notin DOMAIN user'[u].prefs
      <3>1. /\ Renamed(t.was, op.old, op.new) \subseteq Live(group) \cup {op.new}
            /\ op.new \in Renamed(t.was, op.old, op.new)
            /\ user[t.id].groups \subseteq Renamed(t.was, op.old, op.new) \cup {op.old}
        BY <2>3, <2>7, <1>3 DEF Renamed
      <3> QED
        BY <1>3, <2>1, <2>7, <3>1
    <2>9. Rows(new, group, user')
      BY <1>5, <2>1, <2>8 DEF Rows
    <2> QED
      BY <1>1, <1>2, <1>4, <1>5, <1>7, <2>6, <2>9, TurnGoes DEF Fits
  <1>9. CASE RenamePrefs(o, t)
    <2>1. PICK p \in PrefsRenamed(t.was, op.old, op.new) :
             /\ op.pc = "prefs" /\ DOMAIN user' = DOMAIN user
             /\ \A u \in DOMAIN user : u # t.id => user'[u] = user[u]
             /\ user'[t.id].groups = user[t.id].groups
             /\ user'[t.id].prefs = p
      BY <1>1, <1>3, <1>9 DEF RenamePrefs, WriteUser, UserRow
    <2>2. op.old # op.new
      BY <1>1, <2>1 DEF Known, Renaming
    <2>3. \A x \in op.todo :
             x.was = user[x.id].prefs /\ x.id \in DOMAIN user /\ op.old \in DOMAIN x.was
      BY <1>1, <2>1 DEF Fits, Copies
    <2>4. op.todo \subseteq PrefsCopy
      BY <1>1, <2>1 DEF OpsOK, OpOK
    <2>5. \A x \in new.todo : x.id # t.id
      BY <1>5, <2>3, <2>4 DEF PrefsCopy
    <2>6. Copies(new, group, user')
      BY <1>5, <2>1, <2>3, <2>5 DEF Copies
    <2>7. \A u \in DOMAIN user :
             /\ user[u].groups \subseteq Live(group) \cup {op.new}
             /\ op.old \notin user[u].groups
             /\ DOMAIN user[u].prefs \subseteq user[u].groups \cup {op.old}
             /\ op.old \in DOMAIN user[u].prefs =>
                   /\ op.new \in user[u].groups
                   /\ op.new \notin DOMAIN user[u].prefs
      BY <1>1, <2>1 DEF Fits, Rows, Known
    <2>8. DOMAIN p = (DOMAIN user[t.id].prefs \ {op.old}) \cup {op.new}
      BY <2>3 DEF PrefsRenamed, Renamed
    <2>9. DOMAIN p \subseteq user[t.id].groups /\ op.old \notin DOMAIN p
      BY <1>3, <2>2, <2>3, <2>7, <2>8
    <2>10. \A u \in DOMAIN user' :
             /\ user'[u].groups \subseteq Live(group) \cup {op.new}
             /\ DOMAIN user'[u].prefs \subseteq user'[u].groups \cup {op.old}
             /\ op.old \in DOMAIN user'[u].prefs =>
                   /\ user'[u].groups \cap {op.old, op.new} # {}
                   /\ op.new \notin DOMAIN user'[u].prefs
      BY <1>3, <2>1, <2>7, <2>9
    <2>11. Rows(new, group, user')
      BY <1>5, <2>1, <2>10 DEF Rows
    <2> QED
      BY <1>1, <1>2, <1>4, <1>5, <1>7, <2>6, <2>11, TurnGoes DEF Fits
  <1>10. CASE RegroupUser(o, t)
    <2>1. /\ op.pc = "bulk" /\ DOMAIN user' = DOMAIN user
          /\ \A u \in DOMAIN user : u # t.id => user'[u] = user[u]
          /\ user'[t.id].groups = Regrouped(op, t.was)
          /\ user'[t.id].prefs = user[t.id].prefs
      BY <1>1, <1>3, <1>10 DEF RegroupUser, WriteUser, UserRow
    <2>2. t.id \in op.who /\ Regrouped(op, t.was) \subseteq Live(group)
      BY <1>1, <2>1 DEF Fits, Copies
    <2>3. Copies(new, group, user')
      BY <1>1, <1>5, <1>6, <2>1 DEF Copies, Fits
    <2>4. Rows(new, group, user')
      BY <1>1, <1>5, <2>1, <2>2 DEF Rows, Fits
    <2> QED
      BY <1>1, <1>2, <1>4, <1>5, <1>7, <2>3, <2>4, TurnGoes DEF Fits
  <1> QED
    BY <1>8, <1>9, <1>10

LEMMA NoneEmpty == DOMAIN None = {}
  BY DEF None

(* The other writes of users.                                              *)
LEMMA TurnUserWrites ==
    ASSUME TakeTurns, IInv, TurnInv, NEW o \in DOMAIN ops,
           DeleteUsers(o) \/ SaveUser(o) \/ SetGroup(o) \/ ResetPrefs(o) \/ WritePrefs(o)
    PROVE  TurnInv'
  <1> DEFINE op == ops[o]
  <1>1. /\ OpsOK /\ op \in Op /\ OpOK(op) /\ Fits(op, group, user) /\ OwnNames(group)
        /\ \A u \in DOMAIN user : user[u] \in UserRow
    BY DEF IInv, OpsOK, OpOK, TurnInv, Tables
  <1>2. UNCHANGED group
    BY DEF DeleteUsers, SaveUser, SetGroup, ResetPrefs, WritePrefs
  <1>3. CASE DeleteUsers(o)
    <2> DEFINE new == [op EXCEPT !.pc = "pull"]
    <2>1. /\ op.pc = "deleteUsers" /\ Goto(o, new)
          /\ user' = Restrict(user, DOMAIN user \ MembersOf(op.old))
      BY <1>3 DEF DeleteUsers
    <2>2. new.pc = "pull" /\ new.solo = op.solo
      BY <1>1 DEF Op
    <2> HIDE DEF new
    <2>3. /\ DOMAIN user' = {u \in DOMAIN user : op.old \notin user[u].groups}
          /\ \A u \in DOMAIN user' : user'[u] = user[u]
      BY <2>1 DEF Restrict, MembersOf
    <2>4. Settled(group, user')
      <3>1. \A u \in DOMAIN user : /\ user[u].groups \subseteq Live(group) \cup {op.old}
                                   /\ DOMAIN user[u].prefs \subseteq user[u].groups
        BY <1>1, <2>1 DEF Fits, Rows
      <3>2. \A u \in DOMAIN user' : u \in DOMAIN user /\ op.old \notin user[u].groups
        BY <2>3
      <3>3. \A u \in DOMAIN user' : user'[u].groups \subseteq Live(group)
        BY <2>3, <3>1, <3>2
      <3>4. \A u \in DOMAIN user' : DOMAIN user'[u].prefs \subseteq user'[u].groups
        BY <2>3, <3>1, <3>2
      <3> QED
        BY <3>3, <3>4 DEF Settled
    <2>5. Fits(new, group, user')
      BY <2>2, <2>4 DEF Fits, Holding, Rows, Copies, Renaming
    <2> QED
      BY <1>1, <1>2, <2>1, <2>2, <2>5, TurnGoes
  <1>4. CASE SaveUser(o)
    <2> DEFINE row == [groups |-> op.names, prefs |-> None]
    <2>1. /\ op.pc = "assert" /\ op.todo = {} /\ End(o)
          /\ op.kind \in {"createUser", "updateUser"}
      BY <1>1, <1>4 DEF SaveUser, OpOK
    <2>2. op.names \subseteq Live(group) /\ Settled(group, user)
      BY <1>1, <2>1 DEF Fits, Holding, Rows
    <2>3. row.groups = op.names /\ row.prefs = None
      OBVIOUS
    <2> HIDE DEF row
    <2>4. \/ user' = [u \in DOMAIN user \cup op.who |-> IF u \in DOMAIN user THEN user[u] ELSE row]
          \/ user' = [u \in DOMAIN user |-> IF u \in op.who THEN row ELSE user[u]]
      BY <1>4, <2>1 DEF SaveUser, row
    <2>5. \A u \in DOMAIN user' : user'[u] = row \/ (u \in DOMAIN user /\ user'[u] = user[u])
      BY <2>4
    <2>6. Settled(group, user')
      BY <2>2, <2>3, <2>5, NoneEmpty DEF Settled
    <2> QED
      BY <1>1, <1>2, <2>1, <2>6, TurnEnds
  <1>5. CASE SetGroup(o)
    <2> DEFINE new == [op EXCEPT !.pc = "bulk"]
    <2>1. op.pc = "readBulk" /\ op.todo = {} /\ Goto(o, new)
      BY <1>1, <1>5 DEF SetGroup, OpOK
    <2>2. /\ new.pc = "bulk" /\ new.new = op.new /\ new.who = op.who /\ new.todo = {}
          /\ new.solo = op.solo
      BY <1>1, <2>1 DEF Op
    <2> HIDE DEF new
    <2>3. op.new \in Live(group) /\ Settled(group, user)
      BY <1>1, <2>1 DEF Fits, Holding, Rows
    <2>4. /\ DOMAIN user' = DOMAIN user
          /\ \A u \in DOMAIN user \cap op.who : user'[u].groups = {op.new}
          /\ \A u \in DOMAIN user \ op.who : user'[u] = user[u]
      BY <1>1, <1>5 DEF SetGroup, UserRow
    <2>5. Fits(new, group, user')
      BY <2>2, <2>3, <2>4 DEF Settled, Fits, Holding, Rows, Copies, Renaming
    <2> QED
      BY <1>1, <1>2, <2>1, <2>2, <2>5, TurnGoes
  <1>6. CASE ResetPrefs(o)
    <2>1. op.pc = "bulk" /\ End(o)
      BY <1>6 DEF ResetPrefs
    <2>2. /\ DOMAIN user' = DOMAIN user
          /\ \A u \in DOMAIN user : user'[u].groups = user[u].groups
          /\ \A u \in DOMAIN user : IF u \in op.who THEN user'[u].prefs = None
                                                    ELSE user'[u].prefs = user[u].prefs
      BY <1>1, <1>6 DEF ResetPrefs, UserRow
    <2>3. \A u \in DOMAIN user :
             /\ user[u].groups \subseteq Live(group)
             /\ u \in op.who \/ DOMAIN user[u].prefs \subseteq user[u].groups
      BY <1>1, <2>1 DEF Fits, Rows
    <2>4. Settled(group, user')
      BY <2>2, <2>3, NoneEmpty DEF Settled
    <2> QED
      BY <1>1, <1>2, <2>1, <2>4, TurnEnds
  <1>7. CASE WritePrefs(o)
    <2>1. PICK t \in op.todo :
             user' = [u \in DOMAIN user |-> IF u = t.id THEN [user[u] EXCEPT !.prefs = t.was]
                                                        ELSE user[u]]
      BY <1>7 DEF WritePrefs
    <2>2. op.pc = "writePrefs" /\ End(o)
      BY <1>7 DEF WritePrefs
    <2>3. t.id \in DOMAIN user /\ DOMAIN t.was = user[t.id].groups /\ Settled(group, user)
      BY <1>1, <2>2 DEF Fits, Copies, Rows
    <2>4. /\ DOMAIN user' = DOMAIN user
          /\ \A u \in DOMAIN user : user'[u].groups = user[u].groups
          /\ \A u \in DOMAIN user : IF u = t.id THEN user'[u].prefs = t.was
                                                ELSE user'[u].prefs = user[u].prefs
      BY <1>1, <2>1 DEF UserRow
    <2>5. Settled(group, user')
      BY <2>3, <2>4 DEF Settled
    <2> QED
      BY <1>1, <1>2, <2>2, <2>5, TurnEnds
  <1> QED
    BY <1>3, <1>4, <1>5, <1>6, <1>7

LEMMA TurnAtOnce ==
    ASSUME TakeTurns, IInv, TurnInv,
           \/ \E g \in Gids, n \in Names, main \in BOOLEAN : CreateGroup(g, n, main)
           \/ \E u \in Users : DeleteUser(u)
    PROVE  TurnInv'
  <1>1. Tables /\ OpsOK
    BY DEF IInv
  <1>2. DOMAIN ops = {} /\ DOMAIN ops' = {}
    BY <1>1 DEF OpsOK, TakeTurns, CreateGroup, DeleteUser, AtOnce
  <1>3. OwnNames(group) /\ Settled(group, user)
    BY <1>2 DEF TurnInv
  <1>4. ASSUME NEW g \in Gids, NEW n \in Names, NEW main \in BOOLEAN, CreateGroup(g, n, main)
        PROVE  OwnNames(group') /\ Settled(group', user')
    <2>1. /\ g \notin DOMAIN group /\ \A h \in DOMAIN group : group[h].name # n
          /\ DOMAIN group' = DOMAIN group \cup {g}
          /\ \A h \in DOMAIN group : group'[h] = group[h]
          /\ group'[g].name = n
          /\ UNCHANGED user
      BY <1>1, <1>4 DEF CreateGroup, LiveNames, Tables
    <2>2. OwnNames(group') /\ Live(group) \subseteq Live(group')
      BY <1>3, <2>1 DEF OwnNames, Live
    <2> QED
      BY <1>3, <2>1, <2>2 DEF Settled
  <1>5. ASSUME NEW u \in Users, DeleteUser(u)
        PROVE  OwnNames(group') /\ Settled(group', user')
    BY <1>3, <1>5 DEF DeleteUser, Restrict, Settled
  <1> QED
    BY <1>2, <1>4, <1>5 DEF TurnInv

LEMMA TurnInit == Init => TurnInv
  <1> SUFFICES ASSUME Init PROVE TurnInv
    OBVIOUS
  <1>1. user = None /\ ops = None /\ DOMAIN group = {UngroupedId}
    BY DEF Init
  <1> QED
    BY <1>1, NoneEmpty DEF TurnInv, OwnNames, Settled

LEMMA TurnInductive ==
    ASSUME TakeTurns
    PROVE  IInv /\ SoloInv /\ TurnInv /\ [Next]_vars => TurnInv'
  <1> SUFFICES ASSUME IInv, SoloInv, TurnInv, [Next]_vars PROVE TurnInv'
    OBVIOUS
  <1>1. ASSUME NEW o \in Slots, Request(o)
        PROVE  TurnInv'
    BY <1>1, TurnRequests
  <1>2. ASSUME NEW o \in Slots, Step(o)
        PROVE  TurnInv'
    <2>1. o \in DOMAIN ops
      BY <1>2 DEF Step
    <2>2. CASE DeleteGroup(o) \/ WriteGroup(o)
      BY <2>1, <2>2, TurnGroupWrites
    <2>3. CASE CheckTaken(o) \/ FindTagged(o) \/ FindMembers(o) \/ FindPrefs(o)
      BY <2>1, <2>3, TurnRenameReads
    <2>4. CASE \/ PullTag(o) \/ WriteTags(o) \/ CheckMains(o) \/ CheckBulk(o) \/ ReadBulk(o)
               \/ \E t \in ops[o].todo : Retag(o, t) \/ AssertGroupExists(o, t)
      BY <2>1, <2>4, TurnOtherReads
    <2>5. CASE DeleteUsers(o) \/ SaveUser(o) \/ SetGroup(o) \/ ResetPrefs(o) \/ WritePrefs(o)
      BY <2>1, <2>5, TurnUserWrites
    <2>6. ASSUME NEW t \in ops[o].todo, RenameMember(o, t) \/ RenamePrefs(o, t) \/ RegroupUser(o, t)
          PROVE  TurnInv'
      BY <2>1, <2>6, TurnLoops
    <2> QED
      BY <1>2, <2>2, <2>3, <2>4, <2>5, <2>6 DEF Step
  <1>3. CASE \/ \E g \in Gids, n \in Names, main \in BOOLEAN : CreateGroup(g, n, main)
             \/ \E u \in Users : DeleteUser(u)
    BY <1>3, TurnAtOnce
  <1>4. ASSUME NEW o \in DOMAIN ops, Throw(o)
        PROVE  FALSE
    BY <1>4 DEF Throw, TakeTurns
  <1>5. CASE UNCHANGED vars
    BY <1>5 DEF vars, TurnInv
  <1> QED
    BY <1>1, <1>2, <1>3, <1>4, <1>5 DEF Next

-----------------------------------------------------------------------------
(* The refinement mapping of ImplementsMembership, with the tables and the *)
(* requests in progress as parameters.                                     *)
Named(n, gr) == {g \in DOMAIN gr : gr[g].name = n}

IdsIn(n, gr, os) ==
    Named(n, gr) \cup
    {os[o].gid : o \in {o \in DOMAIN os : /\ os[o].pc \in {"retag", "regroup", "prefs"}
                                          /\ os[o].new = n}}

GroupingsIn(n, gr, os) == IF IdsIn(n, gr, os) = {} THEN {n} ELSE IdsIn(n, gr, os)

StayingIn(os, us) ==
    {u \in DOMAIN us : ~ \E o \in DOMAIN os :
        os[o].pc = "deleteUsers" /\ os[o].old \in us[u].groups}

MemberIn(gr, os, row) == UNION {GroupingsIn(n, gr, os) : n \in row.groups}

IncludeIn(gr, os, row) ==
    [g \in UNION {IdsIn(n, gr, os) : n \in DOMAIN row.prefs} |->
        \A n \in DOMAIN row.prefs : g \in IdsIn(n, gr, os) => row.prefs[n]]

AName(gr) == [g \in DOMAIN gr |-> gr[g].name]
AMember(gr, os, us) == [u \in StayingIn(os, us) |-> MemberIn(gr, os, us[u])]
AInclude(gr, os, us) == [u \in StayingIn(os, us) |-> IncludeIn(gr, os, us[u])]

LEMMA Mapping ==
    /\ \A n : IdsOf(n) = IdsIn(n, group, ops) /\ IdsOf(n)' = IdsIn(n, group', ops')
    /\ \A n : /\ Groupings(n) = GroupingsIn(n, group, ops)
              /\ Groupings(n)' = GroupingsIn(n, group', ops')
    /\ Staying = StayingIn(ops, user) /\ Staying' = StayingIn(ops', user')
  <1>1. \A n : IdsOf(n) = IdsIn(n, group, ops) /\ IdsOf(n)' = IdsIn(n, group', ops')
    BY DEF IdsOf, IdsIn, Named
  <1>2. \A n : /\ Groupings(n) = GroupingsIn(n, group, ops)
               /\ Groupings(n)' = GroupingsIn(n, group', ops')
    BY <1>1 DEF Groupings, GroupingsIn
  <1>3. Staying = StayingIn(ops, user) /\ Staying' = StayingIn(ops', user')
    BY DEF Staying, StayingIn, Leaving, MembersOf
  <1> QED
    BY <1>1, <1>2, <1>3

(* What a row is mapped to depends on the ids of the names it has.         *)
LEMMA SameRow ==
    ASSUME NEW gr, NEW os, NEW gr2, NEW os2, NEW row
    PROVE  /\ (\A n \in row.groups : IdsIn(n, gr, os) = IdsIn(n, gr2, os2))
                 => MemberIn(gr, os, row) = MemberIn(gr2, os2, row)
           /\ (\A n \in DOMAIN row.prefs : IdsIn(n, gr, os) = IdsIn(n, gr2, os2))
                 => IncludeIn(gr, os, row) = IncludeIn(gr2, os2, row)
  <1>1. ASSUME \A n \in row.groups : IdsIn(n, gr, os) = IdsIn(n, gr2, os2)
        PROVE  MemberIn(gr, os, row) = MemberIn(gr2, os2, row)
    <2>1. \A n \in row.groups : GroupingsIn(n, gr, os) = GroupingsIn(n, gr2, os2)
      BY <1>1 DEF GroupingsIn
    <2>2. {GroupingsIn(n, gr, os) : n \in row.groups} = {GroupingsIn(n, gr2, os2) : n \in row.groups}
      BY <2>1
    <2> QED
      BY <2>2 DEF MemberIn
  <1>2. ASSUME \A n \in DOMAIN row.prefs : IdsIn(n, gr, os) = IdsIn(n, gr2, os2)
        PROVE  IncludeIn(gr, os, row) = IncludeIn(gr2, os2, row)
    <2>1. {IdsIn(n, gr, os) : n \in DOMAIN row.prefs} = {IdsIn(n, gr2, os2) : n \in DOMAIN row.prefs}
      BY <1>2
    <2>2. \A g : (\A n \in DOMAIN row.prefs : g \in IdsIn(n, gr, os) => row.prefs[n])
             <=> (\A n \in DOMAIN row.prefs : g \in IdsIn(n, gr2, os2) => row.prefs[n])
      BY <1>2
    <2>3. UNION {IdsIn(n, gr, os) : n \in DOMAIN row.prefs}
             = UNION {IdsIn(n, gr2, os2) : n \in DOMAIN row.prefs}
      BY <2>1
    <2> QED
      BY <2>2, <2>3 DEF IncludeIn
  <1> QED
    BY <1>1, <1>2

(* A step after which everybody's row is mapped to the same as before.     *)
LEMMA Stutters ==
    ASSUME AName(group') = AName(group),
           StayingIn(ops', user') = StayingIn(ops, user),
           \A u \in StayingIn(ops, user) :
              /\ MemberIn(group, ops, user[u]) = MemberIn(group', ops', user'[u])
              /\ IncludeIn(group, ops, user[u]) = IncludeIn(group', ops', user'[u])
    PROVE  UNCHANGED M!mvars
  <1>1. /\ AMember(group', ops', user') = AMember(group, ops, user)
        /\ AInclude(group', ops', user') = AInclude(group, ops, user)
    BY DEF AMember, AInclude
  <1> QED
    BY <1>1, Mapping DEF AName, AMember, AInclude, MemberIn, IncludeIn, M!mvars

(* No request in progress is renaming, nor between deleting a group and    *)
(* its members.                                                            *)
Quiet(os) == \A o \in DOMAIN os : os[o].pc \notin {"retag", "regroup", "prefs", "deleteUsers"}

LEMMA QuietIds ==
    ASSUME NEW os, Quiet(os)
    PROVE  /\ \A n, gr : IdsIn(n, gr, os) = Named(n, gr)
           /\ \A us : StayingIn(os, us) = DOMAIN us
  BY DEF Quiet, IdsIn, StayingIn

LEMMA SameNames ==
    ASSUME NEW gr, NEW gr2, AName(gr) = AName(gr2)
    PROVE  \A n : Named(n, gr) = Named(n, gr2)
  <1>1. DOMAIN gr = DOMAIN AName(gr) /\ DOMAIN gr2 = DOMAIN AName(gr2)
    BY DEF AName
  <1>2. (\A g \in DOMAIN gr : gr[g].name = AName(gr)[g])
        /\ \A g \in DOMAIN gr2 : gr2[g].name = AName(gr2)[g]
    BY DEF AName
  <1> QED
    BY <1>1, <1>2 DEF Named

(* Steps that leave names and users alone.                                 *)
LEMMA QuietStutters ==
    ASSUME Quiet(ops), Quiet(ops'), AName(group') = AName(group), UNCHANGED user
    PROVE  UNCHANGED M!mvars
  <1>1. \A n : IdsIn(n, group, ops) = IdsIn(n, group', ops')
    BY QuietIds, SameNames
  <1>2. StayingIn(ops', user') = StayingIn(ops, user)
    BY QuietIds
  <1>3. \A u : /\ MemberIn(group, ops, user[u]) = MemberIn(group', ops', user[u])
               /\ IncludeIn(group, ops, user[u]) = IncludeIn(group', ops', user[u])
    BY <1>1, SameRow
  <1> QED
    BY <1>2, <1>3, Stutters

(* While a rename is in progress its new name stands for the group too.    *)
LEMMA RenamingIds ==
    ASSUME NEW os, NEW o, DOMAIN os = {o}, os[o].pc \in {"retag", "regroup", "prefs"}
    PROVE  /\ \A n, gr : IdsIn(n, gr, os) = Named(n, gr) \cup
                                            (IF n = os[o].new THEN {os[o].gid} ELSE {})
           /\ \A us : StayingIn(os, us) = DOMAIN us
  BY DEF IdsIn, StayingIn

-----------------------------------------------------------------------------
(* Steps that Membership does not see.                                     *)
LEMMA QuietEnds ==
    ASSUME TakeTurns, OpsOK, NEW o \in DOMAIN ops, End(o)
    PROVE  Quiet(ops') /\ DOMAIN ops' = {}
  <1>1. DOMAIN ops' = {}
    BY OnlyOne DEF End, Restrict
  <1> QED
    BY <1>1 DEF Quiet

LEMMA QuietGoes ==
    ASSUME TakeTurns, OpsOK, NEW o \in DOMAIN ops, NEW new, Goto(o, new)
    PROVE  /\ DOMAIN ops' = {o} /\ ops'[o] = new
           /\ new.pc \notin {"retag", "regroup", "prefs", "deleteUsers"} => Quiet(ops')
  <1>1. DOMAIN ops' = {o} /\ ops'[o] = new
    BY OnlyOne DEF Goto
  <1> QED
    BY <1>1 DEF Quiet

LEMMA QuietNow ==
    ASSUME TakeTurns, OpsOK, NEW o \in DOMAIN ops,
           ops[o].pc \notin {"retag", "regroup", "prefs", "deleteUsers"}
    PROVE  Quiet(ops)
  BY OnlyOne DEF Quiet

LEMMA RequestsStutter ==
    ASSUME TakeTurns, IInv, NEW o \in Slots, Request(o)
    PROVE  UNCHANGED M!mvars
  <1> DEFINE Start == {"deleteGroup", "check", "writeGroup", "writeTags", "mains", "assert",
                       "checkBulk", "writePrefs"}
  <1>1. PICK op : Begin(o, op) /\ op.pc \in Start
    <2>1. \A k \in Kinds : NewOp(k) \in Op
      BY NewOpType
    <2>2. ASSUME NEW g \in Gids, BeginDelete(o, g)
          PROVE  \E op : Begin(o, op) /\ op.pc \in Start
      <3> DEFINE op == [NewOp("delete") EXCEPT !.pc = "deleteGroup", !.gid = g,
                                               !.old = group[g].name]
      <3>1. op.pc = "deleteGroup" /\ Begin(o, op)
        BY <2>1, <2>2 DEF BeginDelete, Op, Kinds
      <3> QED
        BY <3>1
    <2>3. ASSUME NEW g \in Gids, NEW n \in Names, NEW flag \in {"same", "on", "off"},
                 BeginUpdate(o, g, n, flag)
          PROVE  \E op : Begin(o, op) /\ op.pc \in Start
      <3> DEFINE pc == IF n = group[g].name THEN "writeGroup" ELSE "check"
                 op == [NewOp("update") EXCEPT !.gid = g, !.old = group[g].name, !.new = n,
                                               !.flag = flag, !.pc = pc]
      <3>1. Begin(o, op)
        BY <2>3 DEF BeginUpdate
      <3>2. pc \in Start
        OBVIOUS
      <3> HIDE DEF pc
      <3>3. op.pc = pc
        BY <2>1 DEF Op, Kinds
      <3> QED
        BY <3>1, <3>2, <3>3
    <2>4. ASSUME NEW c \in Conns, NEW names \in SUBSET Names, BeginTag(o, c, names)
          PROVE  \E op : Begin(o, op) /\ op.pc \in Start
      <3> DEFINE pc == IF Cardinality(Normalized(names)) < 2 THEN "writeTags" ELSE "mains"
                 op == [NewOp("tag") EXCEPT !.con = {c}, !.names = Normalized(names), !.pc = pc]
      <3>1. Begin(o, op)
        BY <2>4 DEF BeginTag
      <3>2. pc \in Start
        OBVIOUS
      <3> HIDE DEF pc
      <3>3. op.pc = pc
        BY <2>1 DEF Op, Kinds
      <3> QED
        BY <3>1, <3>2, <3>3
    <2>5. ASSUME NEW kind \in {"createUser", "updateUser"}, NEW u \in Users,
                 NEW names \in SUBSET Names, BeginUser(o, kind, u, names)
          PROVE  \E op : Begin(o, op) /\ op.pc \in Start
      <3> DEFINE op == [NewOp(kind) EXCEPT !.pc = "assert", !.who = {u}, !.names = names,
                                           !.todo = names]
      <3>1. op.pc = "assert" /\ Begin(o, op)
        BY <2>1, <2>5 DEF BeginUser, Op, Kinds
      <3> QED
        BY <3>1
    <2>6. ASSUME NEW mode \in {"add", "remove", "move", "set"}, NEW us \in SUBSET Users,
                 NEW n \in Names, NEW from \in Names, BeginBulk(o, mode, us, n, from)
          PROVE  \E op : Begin(o, op) /\ op.pc \in Start
      <3> DEFINE op == [NewOp("bulk") EXCEPT !.pc = "checkBulk", !.mode = mode, !.who = us,
                                             !.new = n, !.old = from]
      <3>1. op.pc = "checkBulk" /\ Begin(o, op)
        BY <2>1, <2>6 DEF BeginBulk, Op, Kinds
      <3> QED
        BY <3>1
    <2>7. ASSUME NEW u \in DOMAIN user, NEW p \in [user[u].groups -> BOOLEAN], BeginPrefs(o, u, p)
          PROVE  \E op : Begin(o, op) /\ op.pc \in Start
      <3> DEFINE op == [NewOp("savePrefs") EXCEPT !.pc = "writePrefs",
                                                  !.todo = {[id |-> u, was |-> p]}]
      <3>1. op.pc = "writePrefs" /\ Begin(o, op)
        BY <2>1, <2>7 DEF BeginPrefs, Op, Kinds
      <3> QED
        BY <3>1
    <2> QED
      BY <2>2, <2>3, <2>4, <2>5, <2>6, <2>7 DEF Request
  <1>2. DOMAIN ops = {}
    BY <1>1 DEF Begin, TakeTurns, IInv, OpsOK
  <1>3. DOMAIN ops' = {o} /\ ops'[o] = op /\ UNCHANGED <<group, user>>
    BY <1>1, <1>2 DEF Begin
  <1>4. Quiet(ops) /\ Quiet(ops')
    BY <1>1, <1>2, <1>3 DEF Quiet
  <1> QED
    BY <1>3, <1>4, QuietStutters

LEMMA ReadsStutter ==
    ASSUME TakeTurns, IInv, NEW o \in DOMAIN ops,
           \/ CheckTaken(o) \/ PullTag(o) \/ WriteTags(o) \/ CheckMains(o)
           \/ CheckBulk(o) \/ ReadBulk(o)
           \/ \E n \in ops[o].todo : AssertGroupExists(o, n)
    PROVE  UNCHANGED M!mvars
  <1> DEFINE op == ops[o]
  <1>1. OpsOK /\ op \in Op
    BY DEF IInv, OpsOK, OpOK
  <1>2. UNCHANGED <<group, user>> /\ op.pc \notin {"retag", "regroup", "prefs", "deleteUsers"}
    BY DEF CheckTaken, PullTag, WriteTags, CheckMains, CheckBulk, ReadBulk, AssertGroupExists
  <1>3. ASSUME NEW new, new.pc \notin {"retag", "regroup", "prefs", "deleteUsers"}, Goto(o, new)
        PROVE  Quiet(ops')
    BY <1>1, <1>3, QuietGoes
  <1>4. CASE End(o)
    BY <1>1, <1>2, <1>4, QuietEnds, QuietNow, QuietStutters
  <1>5. ASSUME NEW pc \in {"tagged", "writeTags", "readBulk"}, Goto(o, [op EXCEPT !.pc = pc])
        PROVE  Quiet(ops')
    <2> DEFINE new == [op EXCEPT !.pc = pc]
    <2>1. new.pc = pc
      BY <1>1 DEF Op
    <2>2. Goto(o, new)
      BY <1>5
    <2> HIDE DEF new
    <2> QED
      BY <1>3, <2>1, <2>2
  <1>6. ASSUME NEW todo, Goto(o, [op EXCEPT !.pc = "bulk", !.todo = todo])
        PROVE  Quiet(ops')
    <2> DEFINE new == [op EXCEPT !.pc = "bulk", !.todo = todo]
    <2>1. new.pc = "bulk"
      BY <1>1 DEF Op
    <2>2. Goto(o, new)
      BY <1>6
    <2> HIDE DEF new
    <2> QED
      BY <1>3, <2>1, <2>2
  <1>7. ASSUME NEW todo, Goto(o, [op EXCEPT !.todo = todo])
        PROVE  Quiet(ops')
    <2> DEFINE new == [op EXCEPT !.todo = todo]
    <2>1. new.pc = op.pc
      BY <1>1 DEF Op
    <2>2. Goto(o, new)
      BY <1>7
    <2> HIDE DEF new
    <2> QED
      BY <1>2, <1>3, <2>1, <2>2
  <1>8. \/ End(o)
        \/ \E pc \in {"tagged", "writeTags", "readBulk"} : Goto(o, [op EXCEPT !.pc = pc])
        \/ \E todo : Goto(o, [op EXCEPT !.pc = "bulk", !.todo = todo])
        \/ \E todo : Goto(o, [op EXCEPT !.todo = todo])
    <2>1. CASE CheckTaken(o) \/ PullTag(o) \/ WriteTags(o) \/ CheckMains(o) \/ CheckBulk(o)
      BY <2>1 DEF CheckTaken, PullTag, WriteTags, CheckMains, CheckBulk
    <2>2. CASE ReadBulk(o)
      BY <2>2, Zenon DEF ReadBulk
    <2>3. ASSUME NEW n \in op.todo, AssertGroupExists(o, n)
          PROVE  End(o) \/ \E todo : Goto(o, [op EXCEPT !.todo = todo])
      <3>1. Goto(o, [op EXCEPT !.todo = op.todo \ {n}]) \/ End(o)
        BY <2>3 DEF AssertGroupExists
      <3> QED
        BY <3>1, Zenon
    <2> QED
      BY <2>1, <2>2, <2>3
  <1>9. ASSUME Quiet(ops')
        PROVE  UNCHANGED M!mvars
    BY <1>1, <1>2, <1>9, QuietNow, QuietStutters
  <1> QED
    BY <1>4, <1>5, <1>6, <1>7, <1>8, <1>9

(* The steps of a rename before the last: at first no row has the new      *)
(* name, then both names stand for the group, and rows go from one to the  *)
(* other.                                                                  *)
LEMMA RenameStutters ==
    ASSUME TakeTurns, IInv, SoloInv, TurnInv, NEW o \in DOMAIN ops,
           FindTagged(o) \/ FindMembers(o) \/ FindPrefs(o) \/ \E t \in ops[o].todo : Retag(o, t)
    PROVE  UNCHANGED M!mvars
  <1> DEFINE op == ops[o]
  <1>1. /\ OpsOK /\ op \in Op /\ Fits(op, group, user) /\ DOMAIN ops = {o}
    BY OnlyOne DEF IInv, OpsOK, OpOK, TurnInv
  <1>2. UNCHANGED <<group, user>> /\ op.pc \in {"tagged", "retag", "regroup"}
    BY DEF FindTagged, FindMembers, FindPrefs, Retag
  <1>3. \E todo : \E pc \in {"retag", "regroup", "prefs"} :
           Goto(o, [op EXCEPT !.pc = pc, !.todo = todo])
    <2>1. CASE FindTagged(o) \/ FindMembers(o) \/ FindPrefs(o)
      BY <2>1, Zenon DEF FindTagged, FindMembers, FindPrefs
    <2>2. ASSUME NEW t \in op.todo, Retag(o, t)
          PROVE  \E todo : Goto(o, [op EXCEPT !.pc = "retag", !.todo = todo])
      <3>1. [op EXCEPT !.pc = "retag", !.todo = op.todo \ {t}] = [op EXCEPT !.todo = op.todo \ {t}]
        BY <1>1, <2>2 DEF Retag, Op
      <3>2. Goto(o, [op EXCEPT !.todo = op.todo \ {t}])
        BY <2>2 DEF Retag
      <3>3. Goto(o, [op EXCEPT !.pc = "retag", !.todo = op.todo \ {t}])
        BY <3>1, <3>2
      <3> QED
        BY <3>3, Zenon
    <2> QED
      BY <2>1, <2>2
  <1>4. PICK todo : \E pc \in {"retag", "regroup", "prefs"} :
           Goto(o, [op EXCEPT !.pc = pc, !.todo = todo])
    BY <1>3
  <1>5. PICK pc \in {"retag", "regroup", "prefs"} :
           Goto(o, [op EXCEPT !.pc = pc, !.todo = todo])
    BY <1>4
  <1> DEFINE new == [op EXCEPT !.pc = pc, !.todo = todo]
  <1>6. new.pc = pc /\ new.new = op.new /\ new.gid = op.gid /\ Goto(o, new)
    BY <1>1, <1>5 DEF Op
  <1> HIDE DEF new
  <1>7. DOMAIN ops' = {o} /\ ops'[o] = new
    BY <1>1, <1>6, QuietGoes
  <1>8. /\ \A n, gr : IdsIn(n, gr, ops') = Named(n, gr) \cup (IF n = op.new THEN {op.gid} ELSE {})
        /\ \A us : StayingIn(ops', us) = DOMAIN us
    <2>1. ops'[o].pc \in {"retag", "regroup", "prefs"}
      BY <1>6, <1>7
    <2> QED
      BY <1>6, <1>7, <2>1, RenamingIds
  <1>9. CASE op.pc = "tagged"
    <2>1. Quiet(ops)
      BY <1>1, <1>9, QuietNow
    <2>2. \A n : n # op.new => IdsIn(n, group, ops') = IdsIn(n, group, ops)
      <3>1. \A n, gr : IdsIn(n, gr, ops) = Named(n, gr)
        BY <2>1, QuietIds
      <3>2. \A n : n # op.new => IdsIn(n, group, ops') = Named(n, group)
        BY <1>8
      <3> QED
        BY <3>1, <3>2
    <2>3. op.new \notin Live(group) /\ Settled(group, user)
      BY <1>1, <1>9 DEF Fits, Holding, Rows
    <2>4. ASSUME NEW u \in DOMAIN user
          PROVE  /\ MemberIn(group, ops, user[u]) = MemberIn(group, ops', user[u])
                 /\ IncludeIn(group, ops, user[u]) = IncludeIn(group, ops', user[u])
      <3>1. op.new \notin user[u].groups /\ op.new \notin DOMAIN user[u].prefs
        BY <2>3 DEF Settled
      <3>2. /\ \A n \in user[u].groups : IdsIn(n, group, ops) = IdsIn(n, group, ops')
            /\ \A n \in DOMAIN user[u].prefs : IdsIn(n, group, ops) = IdsIn(n, group, ops')
        BY <2>2, <3>1
      <3> QED
        BY <3>2, SameRow
    <2>5. StayingIn(ops', user) = StayingIn(ops, user) /\ StayingIn(ops, user) = DOMAIN user
      BY <1>8, <2>1, QuietIds
    <2> QED
      BY <1>2, <2>4, <2>5, Stutters
  <1>10. CASE op.pc \in {"retag", "regroup"}
    <2>1. /\ \A n, gr : IdsIn(n, gr, ops) = IdsIn(n, gr, ops')
          /\ StayingIn(ops', user) = StayingIn(ops, user)
      <3>1. ops[o].pc \in {"retag", "regroup", "prefs"}
        BY <1>10
      <3>2. /\ \A n, gr : IdsIn(n, gr, ops) = Named(n, gr) \cup
                                                (IF n = op.new THEN {op.gid} ELSE {})
            /\ \A us : StayingIn(ops, us) = DOMAIN us
        BY <1>1, <3>1, RenamingIds
      <3> QED
        BY <1>8, <3>2
    <2>3. \A u : /\ MemberIn(group, ops, user[u]) = MemberIn(group, ops', user[u])
                 /\ IncludeIn(group, ops, user[u]) = IncludeIn(group, ops', user[u])
      BY <2>1, SameRow
    <2> QED
      BY <1>2, <2>1, <2>3, Stutters
  <1> QED
    BY <1>2, <1>9, <1>10

(* A row in which the old name was replaced, in the groups or in the       *)
(* choices.                                                                *)
LEMMA RenamedGroupsRow ==
    ASSUME NEW gr, NEW os, NEW old, NEW new, NEW row, NEW row2,
           IdsIn(old, gr, os) = IdsIn(new, gr, os), IdsIn(new, gr, os) # {},
           old \in row.groups, row2.groups = Renamed(row.groups, old, new)
    PROVE  MemberIn(gr, os, row) = MemberIn(gr, os, row2)
  <1>1. GroupingsIn(old, gr, os) = GroupingsIn(new, gr, os)
    BY DEF GroupingsIn
  <1>2. \A n \in row.groups : \E m \in row2.groups : GroupingsIn(n, gr, os) = GroupingsIn(m, gr, os)
    BY <1>1 DEF Renamed
  <1>3. \A m \in row2.groups : \E n \in row.groups : GroupingsIn(n, gr, os) = GroupingsIn(m, gr, os)
    BY <1>1 DEF Renamed
  <1>4. {GroupingsIn(n, gr, os) : n \in row.groups} = {GroupingsIn(n, gr, os) : n \in row2.groups}
    BY <1>2, <1>3
  <1> QED
    BY <1>4 DEF MemberIn

LEMMA RenamedPrefsRow ==
    ASSUME NEW gr, NEW os, NEW old, NEW new, NEW row, NEW row2,
           IdsIn(old, gr, os) = IdsIn(new, gr, os), old # new,
           old \in DOMAIN row.prefs, new \notin DOMAIN row.prefs,
           row2.prefs \in PrefsRenamed(row.prefs, old, new)
    PROVE  IncludeIn(gr, os, row) = IncludeIn(gr, os, row2)
  <1> DEFINE p == row.prefs
             q == row2.prefs
  <1>1. /\ DOMAIN q = (DOMAIN p \ {old}) \cup {new}
        /\ \A n \in DOMAIN p \ {old} : q[n] = p[n]
        /\ q[new] = p[old]
        /\ old \in DOMAIN p
    <2>1. /\ DOMAIN q = Renamed(DOMAIN p, old, new)
          /\ \A n \in DOMAIN q : IF n = new THEN q[n] \in {p[m] : m \in DOMAIN p \cap {old, new}}
                                            ELSE q[n] = p[n]
      BY DEF PrefsRenamed
    <2>2. DOMAIN p \cap {old, new} = {old}
      OBVIOUS
    <2>3. new \in DOMAIN q
      BY <2>1 DEF Renamed
    <2>4. q[new] \in {p[m] : m \in {old}}
      BY <2>1, <2>2, <2>3
    <2> QED
      BY <2>1, <2>4 DEF Renamed
  <1> HIDE DEF p, q
  <1>2. UNION {IdsIn(n, gr, os) : n \in DOMAIN p} = UNION {IdsIn(n, gr, os) : n \in DOMAIN q}
    <2>1. \A n \in DOMAIN p : \E m \in DOMAIN q : IdsIn(n, gr, os) = IdsIn(m, gr, os)
      BY <1>1
    <2>2. \A m \in DOMAIN q : \E n \in DOMAIN p : IdsIn(n, gr, os) = IdsIn(m, gr, os)
      BY <1>1
    <2>3. {IdsIn(n, gr, os) : n \in DOMAIN p} = {IdsIn(n, gr, os) : n \in DOMAIN q}
      BY <2>1, <2>2
    <2> QED
      BY <2>3
  <1>3. \A g : (\A n \in DOMAIN p : g \in IdsIn(n, gr, os) => p[n])
           <=> (\A n \in DOMAIN q : g \in IdsIn(n, gr, os) => q[n])
    BY <1>1
  <1> QED
    BY <1>2, <1>3 DEF IncludeIn, p, q

LEMMA RenameRowsStutters ==
    ASSUME TakeTurns, IInv, SoloInv, TurnInv, NEW o \in DOMAIN ops, NEW t \in ops[o].todo,
           RenameMember(o, t) \/ RenamePrefs(o, t)
    PROVE  UNCHANGED M!mvars
  <1> DEFINE op == ops[o]
             new == [op EXCEPT !.todo = @ \ {t}]
  <1>1. /\ OpsOK /\ op \in Op /\ Fits(op, group, user) /\ OwnNames(group) /\ DOMAIN ops = {o}
        /\ Known(op, group, tags, user)
        /\ \A u \in DOMAIN user : user[u] \in UserRow
    BY OnlyOne DEF IInv, OpsOK, OpOK, TurnInv, SoloInv, Tables
  <1>2. UNCHANGED group /\ op.pc \in {"regroup", "prefs"}
    BY DEF RenameMember, RenamePrefs, WriteUser
  <1>3. t.id \in DOMAIN user
    BY <1>1, <1>2 DEF Fits, Copies
  <1>4. Goto(o, new)
    BY <1>3 DEF RenameMember, RenamePrefs, WriteUser
  <1>5. new.pc = op.pc /\ new.new = op.new /\ new.gid = op.gid
    BY <1>1 DEF Op
  <1> HIDE DEF new
  <1>6. DOMAIN ops' = {o} /\ ops'[o] = new
    BY <1>1, <1>4, QuietGoes
  <1>7. /\ \A n, gr : IdsIn(n, gr, ops) = Named(n, gr) \cup (IF n = op.new THEN {op.gid} ELSE {})
        /\ \A us : StayingIn(ops, us) = DOMAIN us
    <2>1. ops[o].pc \in {"retag", "regroup", "prefs"}
      BY <1>2
    <2> QED
      BY <1>1, <2>1, RenamingIds
  <1>8. /\ \A n, gr : IdsIn(n, gr, ops') = Named(n, gr) \cup (IF n = op.new THEN {op.gid} ELSE {})
        /\ \A us : StayingIn(ops', us) = DOMAIN us
    <2>1. ops'[o].pc \in {"retag", "regroup", "prefs"}
      BY <1>2, <1>5, <1>6
    <2> QED
      BY <1>5, <1>6, <2>1, RenamingIds
  <1>9. \A n : IdsIn(n, group, ops) = IdsIn(n, group, ops')
    BY <1>7, <1>8
  <1>10. /\ op.old # op.new /\ op.gid \in DOMAIN group /\ group[op.gid].name = op.old
         /\ op.new \notin Live(group)
    BY <1>1, <1>2 DEF Known, Fits, Holding, Renaming
  <1>11. /\ IdsIn(op.old, group, ops) = IdsIn(op.new, group, ops)
         /\ IdsIn(op.new, group, ops) # {}
         /\ op.old # op.new
    <2>1. Named(op.old, group) = {op.gid} /\ Named(op.new, group) = {}
      BY <1>1, <1>10 DEF Named, OwnNames, Live
    <2> QED
      BY <1>7, <1>10, <2>1
  <1>12. \A u : /\ MemberIn(group, ops, user'[u]) = MemberIn(group, ops', user'[u])
                /\ IncludeIn(group, ops, user'[u]) = IncludeIn(group, ops', user'[u])
    BY <1>9, SameRow
  <1>13. \A row, row2 :
            /\ row.groups = row2.groups => MemberIn(group, ops, row) = MemberIn(group, ops, row2)
            /\ row.prefs = row2.prefs => IncludeIn(group, ops, row) = IncludeIn(group, ops, row2)
    BY DEF MemberIn, IncludeIn
  <1>14. /\ DOMAIN user' = DOMAIN user
         /\ \A u \in DOMAIN user :
               /\ MemberIn(group, ops, user[u]) = MemberIn(group, ops, user'[u])
               /\ IncludeIn(group, ops, user[u]) = IncludeIn(group, ops, user'[u])
    <2>1. CASE RenameMember(o, t)
      <3>1. /\ op.pc = "regroup" /\ DOMAIN user' = DOMAIN user
            /\ \A u \in DOMAIN user : u # t.id => user'[u] = user[u]
            /\ user'[t.id].groups = Renamed(t.was, op.old, op.new)
            /\ user'[t.id].prefs = user[t.id].prefs
        BY <1>1, <1>3, <2>1 DEF RenameMember, WriteUser, UserRow
      <3>2. t.was = user[t.id].groups /\ op.old \in user[t.id].groups
        BY <1>1, <3>1 DEF Fits, Copies
      <3>3. user'[t.id].groups = Renamed(user[t.id].groups, op.old, op.new)
        BY <3>1, <3>2
      <3>4. MemberIn(group, ops, user[t.id]) = MemberIn(group, ops, user'[t.id])
        BY <1>11, <3>2, <3>3, RenamedGroupsRow
      <3> QED
        BY <1>13, <3>1, <3>4
    <2>2. CASE RenamePrefs(o, t)
      <3>1. /\ op.pc = "prefs" /\ DOMAIN user' = DOMAIN user
            /\ \A u \in DOMAIN user : u # t.id => user'[u] = user[u]
            /\ user'[t.id].groups = user[t.id].groups
            /\ user'[t.id].prefs \in PrefsRenamed(t.was, op.old, op.new)
        BY <1>1, <1>3, <2>2 DEF RenamePrefs, WriteUser, UserRow
      <3>2. /\ t.was = user[t.id].prefs /\ op.old \in DOMAIN user[t.id].prefs
            /\ op.new \notin DOMAIN user[t.id].prefs
        BY <1>1, <1>3, <3>1 DEF Fits, Copies, Rows
      <3>3. user'[t.id].prefs \in PrefsRenamed(user[t.id].prefs, op.old, op.new)
        BY <3>1, <3>2
      <3>4. IncludeIn(group, ops, user[t.id]) = IncludeIn(group, ops, user'[t.id])
        BY <1>11, <3>2, <3>3, RenamedPrefsRow
      <3> QED
        BY <1>13, <3>1, <3>4
    <2> QED
      BY <2>1, <2>2
  <1>15. StayingIn(ops, user) = DOMAIN user /\ StayingIn(ops', user') = DOMAIN user
    BY <1>7, <1>8, <1>14
  <1> QED
    BY <1>2, <1>12, <1>14, <1>15, Stutters

(* The members of a group that is gone have gone with it for Membership    *)
(* already.                                                                *)
LEMMA DeleteUsersStutters ==
    ASSUME TakeTurns, IInv, TurnInv, NEW o \in DOMAIN ops, DeleteUsers(o)
    PROVE  UNCHANGED M!mvars
  <1> DEFINE op == ops[o]
             new == [op EXCEPT !.pc = "pull"]
  <1>1. OpsOK /\ op \in Op /\ DOMAIN ops = {o}
    BY OnlyOne DEF IInv, OpsOK, OpOK
  <1>2. /\ op.pc = "deleteUsers" /\ Goto(o, new) /\ UNCHANGED group
        /\ user' = Restrict(user, DOMAIN user \ MembersOf(op.old))
    BY DEF DeleteUsers
  <1>3. new.pc = "pull"
    BY <1>1 DEF Op
  <1> HIDE DEF new
  <1>4. Quiet(ops')
    BY <1>1, <1>2, <1>3, QuietGoes
  <1>5. StayingIn(ops, user) = {u \in DOMAIN user : op.old \notin user[u].groups}
    BY <1>1, <1>2 DEF StayingIn
  <1>6. /\ DOMAIN user' = {u \in DOMAIN user : op.old \notin user[u].groups}
        /\ \A u \in DOMAIN user' : user'[u] = user[u]
    BY <1>2 DEF Restrict, MembersOf
  <1>7. StayingIn(ops', user') = StayingIn(ops, user)
    BY <1>4, <1>5, <1>6, QuietIds
  <1>8. \A n : IdsIn(n, group, ops) = Named(n, group)
    BY <1>1, <1>2 DEF IdsIn
  <1>9. \A n : IdsIn(n, group, ops) = IdsIn(n, group, ops')
    BY <1>4, <1>8, QuietIds
  <1>10. \A u : /\ MemberIn(group, ops, user[u]) = MemberIn(group, ops', user[u])
                /\ IncludeIn(group, ops, user[u]) = IncludeIn(group, ops', user[u])
    BY <1>9, SameRow
  <1>11. \A u \in StayingIn(ops, user) : user'[u] = user[u]
    BY <1>5, <1>6
  <1> QED
    BY <1>2, <1>7, <1>10, <1>11, Stutters

-----------------------------------------------------------------------------
(* The steps of Membership, over the mapped tables.                        *)
Belongs == AMember(group, ops, user)
Chosen  == AInclude(group, ops, user)

LEMMA Mapped ==
    /\ [g \in DOMAIN group |-> group[g].name] = AName(group)
    /\ [g \in DOMAIN group |-> group[g].name]' = AName(group)'
    /\ [u \in Staying |-> UNION {Groupings(n) : n \in user[u].groups}] = Belongs
    /\ [u \in Staying |-> UNION {Groupings(n) : n \in user[u].groups}]' = Belongs'
    /\ [u \in Staying |->
          [g \in UNION {IdsOf(n) : n \in DOMAIN user[u].prefs} |->
              \A n \in DOMAIN user[u].prefs : g \in IdsOf(n) => user[u].prefs[n]]] = Chosen
    /\ [u \in Staying |->
          [g \in UNION {IdsOf(n) : n \in DOMAIN user[u].prefs} |->
              \A n \in DOMAIN user[u].prefs : g \in IdsOf(n) => user[u].prefs[n]]]' = Chosen'
  BY Mapping DEF AName, Belongs, Chosen, AMember, AInclude, MemberIn, IncludeIn

LEMMA MapCreate ==
    ASSUME NEW g \in Gids, NEW n \in Names, g \notin DOMAIN AName(group),
           \A h \in DOMAIN AName(group) : AName(group)[h] # n,
           AName(group)' = [h \in DOMAIN AName(group) \cup {g} |->
                              IF h = g THEN n ELSE AName(group)[h]],
           Belongs' = Belongs, Chosen' = Chosen
    PROVE  M!MNext
  BY Mapped DEF M!MNext, M!Create

LEMMA MapRename ==
    ASSUME NEW g \in Gids, NEW n \in Names, g \in DOMAIN AName(group),
           \A h \in DOMAIN AName(group) : AName(group)[h] # n,
           AName(group)' = [AName(group) EXCEPT ![g] = n],
           Belongs' = Belongs, Chosen' = Chosen
    PROVE  M!MNext
  BY Mapped DEF M!MNext, M!Rename

LEMMA MapDelete ==
    ASSUME NEW g \in Gids, NEW left, g \in DOMAIN AName(group),
           left = {u \in DOMAIN Belongs : g \notin Belongs[u]},
           AName(group)' = Restrict(AName(group), DOMAIN AName(group) \ {g}),
           Belongs' = Restrict(Belongs, left), Chosen' = Restrict(Chosen, left)
    PROVE  M!MNext
  <1>1. \A f, S : M!Restrict(f, S) = Restrict(f, S)
    BY DEF M!Restrict, Restrict
  <1>2. M!Delete(g)
    BY <1>1, Mapped DEF M!Delete
  <1> QED
    BY <1>2 DEF M!MNext

(* The body of Enrol, with the mapped tables as parameters.                *)
Enrolled(nm, mem, inc, nm2, mem2, inc2, us, gs) ==
    /\ gs # {} /\ gs \subseteq DOMAIN nm
    /\ mem2 = [v \in DOMAIN mem \cup us |-> IF v \in us THEN gs ELSE mem[v]]
    /\ \E kept \in SUBSET (us \cap DOMAIN mem) :
          inc2 = [v \in DOMAIN mem \cup us |->
                     IF v \in us \ kept THEN M!Nothing ELSE inc[v]]
    /\ nm2 = nm

LEMMA MapEnrol ==
    ASSUME NEW us \in SUBSET Users, NEW gs \in SUBSET Gids, gs # {},
           gs \subseteq DOMAIN AName(group),
           NEW kept \in SUBSET (us \cap DOMAIN Belongs),
           AName(group)' = AName(group),
           Belongs' = [v \in DOMAIN Belongs \cup us |-> IF v \in us THEN gs ELSE Belongs[v]],
           Chosen' = [v \in DOMAIN Belongs \cup us |->
                        IF v \in us \ kept THEN M!Nothing ELSE Chosen[v]]
    PROVE  M!MNext
  <1>1. Enrolled(AName(group), Belongs, Chosen, AName(group)', Belongs', Chosen', us, gs)
    BY DEF Enrolled
  <1>2. Enrolled([g \in DOMAIN group |-> group[g].name],
                 [u \in Staying |-> UNION {Groupings(n) : n \in user[u].groups}],
                 [u \in Staying |->
                    [g \in UNION {IdsOf(n) : n \in DOMAIN user[u].prefs} |->
                        \A n \in DOMAIN user[u].prefs : g \in IdsOf(n) => user[u].prefs[n]]],
                 [g \in DOMAIN group |-> group[g].name]',
                 [u \in Staying |-> UNION {Groupings(n) : n \in user[u].groups}]',
                 [u \in Staying |->
                    [g \in UNION {IdsOf(n) : n \in DOMAIN user[u].prefs} |->
                        \A n \in DOMAIN user[u].prefs : g \in IdsOf(n) => user[u].prefs[n]]]',
                 us, gs)
    BY <1>1, Mapped
  <1>3. M!Enrol(us, gs)
    BY <1>2, Zenon DEF Enrolled, M!Enrol
  <1> QED
    BY <1>3 DEF M!MNext

LEMMA MapForget ==
    ASSUME NEW us \in SUBSET Users,
           AName(group)' = AName(group), Belongs' = Belongs,
           Chosen' = [v \in DOMAIN Chosen |-> IF v \in us THEN M!Nothing ELSE Chosen[v]]
    PROVE  M!MNext
  BY Mapped, ZenonT(30) DEF M!MNext, M!Forget

LEMMA MapChoose ==
    ASSUME NEW u \in DOMAIN Belongs, NEW p \in [Belongs[u] -> BOOLEAN],
           AName(group)' = AName(group), Belongs' = Belongs,
           Chosen' = [Chosen EXCEPT ![u] = p]
    PROVE  M!MNext
  BY Mapped DEF M!MNext, M!Choose

LEMMA MapLeave ==
    ASSUME NEW u \in Users, u \in DOMAIN Belongs,
           AName(group)' = AName(group),
           Belongs' = Restrict(Belongs, DOMAIN Belongs \ {u}),
           Chosen' = Restrict(Chosen, DOMAIN Chosen \ {u})
    PROVE  M!MNext
  <1>1. M!Leave(u)
    BY Mapped DEF M!Leave, M!Restrict, Restrict
  <1> QED
    BY <1>1 DEF M!MNext

(* Between renames and deletions the mapped tables do not depend on the    *)
(* request in progress.                                                    *)
LEMMA QuietRows ==
    ASSUME NEW gr, NEW os, NEW us, Quiet(os)
    PROVE  /\ AMember(gr, os, us) = [u \in DOMAIN us |-> MemberIn(gr, None, us[u])]
           /\ AInclude(gr, os, us) = [u \in DOMAIN us |-> IncludeIn(gr, None, us[u])]
  <1>1. Quiet(None)
    BY NoneEmpty DEF Quiet
  <1>2. \A n : IdsIn(n, gr, os) = IdsIn(n, gr, None)
    BY <1>1, QuietIds
  <1>3. \A row : /\ MemberIn(gr, os, row) = MemberIn(gr, None, row)
                 /\ IncludeIn(gr, os, row) = IncludeIn(gr, None, row)
    BY <1>2, SameRow
  <1>4. StayingIn(os, us) = DOMAIN us
    BY QuietIds
  <1> QED
    BY <1>3, <1>4 DEF AMember, AInclude

LEMMA NoneIds == \A n, gr : IdsIn(n, gr, None) = Named(n, gr)
  <1>1. Quiet(None)
    BY NoneEmpty DEF Quiet
  <1> QED
    BY <1>1, QuietIds

(* Names of groups there are stand for these groups.                       *)
LEMMA MembersThere ==
    ASSUME NEW gr, NEW row, row.groups \subseteq Live(gr), row.groups # {}
    PROVE  /\ MemberIn(gr, None, row) = UNION {Named(n, gr) : n \in row.groups}
           /\ MemberIn(gr, None, row) # {}
           /\ MemberIn(gr, None, row) \subseteq DOMAIN gr
  <1>1. \A n \in row.groups : Named(n, gr) # {} /\ Named(n, gr) \subseteq DOMAIN gr
    BY DEF Named, Live
  <1>2. \A n \in row.groups : GroupingsIn(n, gr, None) = Named(n, gr)
    BY <1>1, NoneIds DEF GroupingsIn
  <1>3. {GroupingsIn(n, gr, None) : n \in row.groups} = {Named(n, gr) : n \in row.groups}
    BY <1>2
  <1>4. MemberIn(gr, None, row) = UNION {Named(n, gr) : n \in row.groups}
    BY <1>3 DEF MemberIn
  <1>5. PICK n \in row.groups : TRUE
    OBVIOUS
  <1>6. PICK g : g \in Named(n, gr)
    BY <1>1
  <1>7. Named(n, gr) \in {Named(m, gr) : m \in row.groups}
    OBVIOUS
  <1>8. g \in UNION {Named(m, gr) : m \in row.groups}
    BY <1>6, <1>7
  <1> QED
    BY <1>1, <1>4, <1>8

LEMMA NothingChosen ==
    ASSUME NEW gr, NEW os, NEW row, row.prefs = None
    PROVE  IncludeIn(gr, os, row) = M!Nothing
  BY NoneEmpty DEF IncludeIn, M!Nothing

LEMMA AllChosen ==
    ASSUME NEW gr, NEW row, row.groups \subseteq Live(gr), row.groups # {},
           DOMAIN row.prefs = row.groups
    PROVE  IncludeIn(gr, None, row) \in [MemberIn(gr, None, row) -> BOOLEAN]
  <1>1. MemberIn(gr, None, row) = UNION {Named(n, gr) : n \in row.groups}
    BY MembersThere
  <1>2. {IdsIn(n, gr, None) : n \in DOMAIN row.prefs} = {Named(n, gr) : n \in row.groups}
    BY NoneIds
  <1> QED
    BY <1>1, <1>2 DEF IncludeIn

-----------------------------------------------------------------------------
(* Users that get new groups.                                              *)
LEMMA EnrolStep ==
    ASSUME IInv, Quiet(ops), Quiet(ops'), UNCHANGED group,
           NEW us \in SUBSET Users, NEW names, names # {}, names \subseteq Live(group),
           NEW kept \in SUBSET (us \cap DOMAIN user),
           DOMAIN user' = DOMAIN user \cup us,
           \A v \in us : user'[v].groups = names,
           \A v \in DOMAIN user \ us : user'[v] = user[v],
           \A v \in kept : user'[v].prefs = user[v].prefs,
           \A v \in us \ kept : user'[v].prefs = None
    PROVE  M!MNext
  <1> DEFINE gs == UNION {Named(n, group) : n \in names}
  <1>1. /\ Belongs = [u \in DOMAIN user |-> MemberIn(group, None, user[u])]
        /\ Chosen = [u \in DOMAIN user |-> IncludeIn(group, None, user[u])]
    BY QuietRows DEF Belongs, Chosen
  <1>2. /\ Belongs' = [u \in DOMAIN user' |-> MemberIn(group, None, user'[u])]
        /\ Chosen' = [u \in DOMAIN user' |-> IncludeIn(group, None, user'[u])]
    BY QuietRows DEF Belongs, Chosen
  <1>3. \A v \in us : MemberIn(group, None, user'[v]) = gs
    BY MembersThere
  <1>4. gs # {} /\ gs \subseteq DOMAIN group
    <2> DEFINE row == [groups |-> names]
    <2>1. row.groups = names
      OBVIOUS
    <2> HIDE DEF row
    <2>2. /\ MemberIn(group, None, row) = UNION {Named(n, group) : n \in row.groups}
          /\ MemberIn(group, None, row) # {}
          /\ MemberIn(group, None, row) \subseteq DOMAIN group
      BY <2>1, MembersThere
    <2> QED
      BY <2>1, <2>2
  <1>5. gs \in SUBSET Gids /\ gs \subseteq DOMAIN AName(group)
    BY <1>4 DEF IInv, Tables, AName
  <1> HIDE DEF gs
  <1>6. \A v \in kept : IncludeIn(group, None, user'[v]) = IncludeIn(group, None, user[v])
    BY DEF IncludeIn
  <1>7. \A v \in us \ kept : IncludeIn(group, None, user'[v]) = M!Nothing
    BY NothingChosen
  <1>8. Belongs' = [v \in DOMAIN Belongs \cup us |-> IF v \in us THEN gs ELSE Belongs[v]]
    BY <1>1, <1>2, <1>3
  <1>9. Chosen' = [v \in DOMAIN Belongs \cup us |->
                      IF v \in us \ kept THEN M!Nothing ELSE Chosen[v]]
    BY <1>1, <1>2, <1>6, <1>7
  <1>10. kept \in SUBSET (us \cap DOMAIN Belongs) /\ AName(group)' = AName(group)
    BY <1>1 DEF AName
  <1> QED
    BY <1>4, <1>5, <1>8, <1>9, <1>10, MapEnrol, ZenonT(30)

LEMMA EnrolSteps ==
    ASSUME TakeTurns, IInv, TurnInv, NEW o \in DOMAIN ops,
           SaveUser(o) \/ SetGroup(o) \/ \E t \in ops[o].todo : RegroupUser(o, t)
    PROVE  M!MNext \/ UNCHANGED M!mvars
  <1> DEFINE op == ops[o]
  <1>1. /\ OpsOK /\ op \in Op /\ OpOK(op) /\ Fits(op, group, user)
        /\ DOMAIN user \subseteq Users /\ \A u \in DOMAIN user : user[u] \in UserRow
    BY DEF IInv, OpsOK, OpOK, TurnInv, Tables
  <1>2. UNCHANGED group /\ op.pc \in {"assert", "readBulk", "bulk"}
    BY DEF SaveUser, SetGroup, RegroupUser, WriteUser
  <1>3. Quiet(ops)
    BY <1>1, <1>2, QuietNow
  <1>4. CASE SaveUser(o)
    <2> DEFINE row == [groups |-> op.names, prefs |-> None]
    <2>1. /\ op.pc = "assert" /\ op.todo = {} /\ End(o) /\ op.names # {}
          /\ op.kind \in {"createUser", "updateUser"}
      BY <1>1, <1>4 DEF SaveUser, OpOK
    <2>2. op.names \subseteq Live(group) /\ op.who \in SUBSET Users
      BY <1>1, <2>1 DEF Fits, Holding, Op
    <2>3. row.groups = op.names /\ row.prefs = None
      OBVIOUS
    <2> HIDE DEF row
    <2>4. Quiet(ops')
      BY <1>1, <2>1, QuietEnds
    <2>5. CASE op.kind = "createUser"
      <3> DEFINE us == op.who \ DOMAIN user
      <3>1. user' = [u \in DOMAIN user \cup op.who |-> IF u \in DOMAIN user THEN user[u] ELSE row]
        BY <1>4, <2>1, <2>5 DEF SaveUser, row
      <3>2. /\ DOMAIN user' = DOMAIN user \cup us
            /\ \A v \in us : user'[v] = row
            /\ \A v \in DOMAIN user \ us : user'[v] = user[v]
            /\ us \in SUBSET Users /\ {} \in SUBSET (us \cap DOMAIN user)
        BY <2>2, <3>1
      <3> HIDE DEF us
      <3> QED
        BY <1>2, <1>3, <2>1, <2>2, <2>3, <2>4, <3>2, EnrolStep
    <2>6. CASE op.kind = "updateUser"
      <3> DEFINE us == op.who \cap DOMAIN user
      <3>1. user' = [u \in DOMAIN user |-> IF u \in op.who THEN row ELSE user[u]]
        BY <1>4, <2>1, <2>6 DEF SaveUser, row
      <3>2. /\ DOMAIN user' = DOMAIN user \cup us
            /\ \A v \in us : user'[v] = row
            /\ \A v \in DOMAIN user \ us : user'[v] = user[v]
            /\ us \in SUBSET Users /\ {} \in SUBSET (us \cap DOMAIN user)
        BY <2>2, <3>1
      <3> HIDE DEF us
      <3> QED
        BY <1>2, <1>3, <2>1, <2>2, <2>3, <2>4, <3>2, EnrolStep
    <2> QED
      BY <2>1, <2>5, <2>6
  <1>5. CASE SetGroup(o)
    <2> DEFINE new == [op EXCEPT !.pc = "bulk"]
               us == op.who \cap DOMAIN user
               names == {op.new}
    <2>1. op.pc = "readBulk" /\ Goto(o, new)
      BY <1>5 DEF SetGroup
    <2>2. new.pc = "bulk"
      BY <1>1 DEF Op
    <2> HIDE DEF new
    <2>3. Quiet(ops')
      BY <1>1, <2>1, <2>2, QuietGoes
    <2>4. names \subseteq Live(group) /\ names # {}
      BY <1>1, <2>1 DEF Fits, Holding
    <2>5. /\ DOMAIN user' = DOMAIN user \cup us
          /\ \A v \in us : user'[v].groups = names
          /\ \A v \in us : user'[v].prefs = user[v].prefs
          /\ \A v \in us \ us : user'[v].prefs = None
          /\ \A v \in DOMAIN user \ us : user'[v] = user[v]
          /\ us \in SUBSET Users /\ us \in SUBSET (us \cap DOMAIN user)
      BY <1>1, <1>5 DEF SetGroup, UserRow
    <2> HIDE DEF us, names
    <2> QED
      BY <1>2, <1>3, <2>3, <2>4, <2>5, EnrolStep
  <1>6. ASSUME NEW t \in op.todo, RegroupUser(o, t)
        PROVE  M!MNext
    <2> DEFINE new == [op EXCEPT !.todo = @ \ {t}]
               names == Regrouped(op, t.was)
               us == {t.id}
    <2>1. op.pc = "bulk"
      BY <1>6 DEF RegroupUser
    <2>2. t.id \in DOMAIN user /\ names \subseteq Live(group) /\ names # {}
      BY <1>1, <2>1 DEF Fits, Copies, OpOK
    <2>3. Goto(o, new)
      BY <1>6, <2>2 DEF RegroupUser, WriteUser
    <2>4. new.pc = "bulk"
      BY <1>1, <2>1 DEF Op
    <2> HIDE DEF new
    <2>5. Quiet(ops')
      BY <1>1, <2>3, <2>4, QuietGoes
    <2>6. /\ DOMAIN user' = DOMAIN user \cup us
          /\ \A v \in us : user'[v].groups = names
          /\ \A v \in us : user'[v].prefs = user[v].prefs
          /\ \A v \in us \ us : user'[v].prefs = None
          /\ \A v \in DOMAIN user \ us : user'[v] = user[v]
          /\ us \in SUBSET Users /\ us \in SUBSET (us \cap DOMAIN user)
      BY <1>1, <1>6, <2>2, ZenonT(30) DEF RegroupUser, WriteUser, UserRow
    <2> HIDE DEF names, us
    <2> QED
      BY <1>2, <1>3, <2>2, <2>5, <2>6, EnrolStep
  <1> QED
    BY <1>4, <1>5, <1>6

(* Choices that are forgotten or made.                                     *)
LEMMA ChoiceSteps ==
    ASSUME TakeTurns, IInv, TurnInv, NEW o \in DOMAIN ops,
           ResetPrefs(o) \/ WritePrefs(o)
    PROVE  M!MNext
  <1> DEFINE op == ops[o]
  <1>1. /\ OpsOK /\ op \in Op /\ Fits(op, group, user)
        /\ \A u \in DOMAIN user : user[u] \in UserRow
    BY DEF IInv, OpsOK, OpOK, TurnInv, Tables
  <1>2. UNCHANGED group /\ op.pc \in {"bulk", "writePrefs"} /\ End(o)
    BY DEF ResetPrefs, WritePrefs
  <1>3. Quiet(ops) /\ Quiet(ops')
    BY <1>1, <1>2, QuietNow, QuietEnds
  <1>4. /\ Belongs = [u \in DOMAIN user |-> MemberIn(group, None, user[u])]
        /\ Chosen = [u \in DOMAIN user |-> IncludeIn(group, None, user[u])]
        /\ Belongs' = [u \in DOMAIN user' |-> MemberIn(group, None, user'[u])]
        /\ Chosen' = [u \in DOMAIN user' |-> IncludeIn(group, None, user'[u])]
    BY <1>2, <1>3, QuietRows DEF Belongs, Chosen
  <1>5. AName(group)' = AName(group)
    BY <1>2 DEF AName
  <1>6. CASE ResetPrefs(o)
    <2>1. /\ DOMAIN user' = DOMAIN user
          /\ \A u \in DOMAIN user : user'[u].groups = user[u].groups
          /\ \A u \in DOMAIN user : IF u \in op.who THEN user'[u].prefs = None
                                                    ELSE user'[u].prefs = user[u].prefs
      BY <1>1, <1>6 DEF ResetPrefs, UserRow
    <2>2. \A u \in DOMAIN user : MemberIn(group, None, user'[u]) = MemberIn(group, None, user[u])
      BY <2>1 DEF MemberIn
    <2>3. \A u \in DOMAIN user : u \in op.who => IncludeIn(group, None, user'[u]) = M!Nothing
      BY <2>1, NothingChosen
    <2>4. \A u \in DOMAIN user :
             u \notin op.who => IncludeIn(group, None, user'[u]) = IncludeIn(group, None, user[u])
      BY <2>1 DEF IncludeIn
    <2>5. Belongs' = Belongs
      BY <1>4, <2>1, <2>2
    <2>6. Chosen' = [v \in DOMAIN Chosen |-> IF v \in op.who THEN M!Nothing ELSE Chosen[v]]
      BY <1>4, <2>1, <2>3, <2>4
    <2>7. op.who \in SUBSET Users
      BY <1>1 DEF Op
    <2> QED
      BY <1>5, <2>5, <2>6, <2>7, MapForget
  <1>7. CASE WritePrefs(o)
    <2>1. PICK t \in op.todo :
             user' = [u \in DOMAIN user |-> IF u = t.id THEN [user[u] EXCEPT !.prefs = t.was]
                                                        ELSE user[u]]
      BY <1>7 DEF WritePrefs
    <2>2. t.id \in DOMAIN user /\ DOMAIN t.was = user[t.id].groups /\ Settled(group, user)
      BY <1>1, <1>7 DEF WritePrefs, Fits, Copies, Rows
    <2>3. /\ DOMAIN user' = DOMAIN user
          /\ \A u \in DOMAIN user : user'[u].groups = user[u].groups
          /\ user'[t.id].prefs = t.was
          /\ \A u \in DOMAIN user : u # t.id => user'[u].prefs = user[u].prefs
      BY <1>1, <2>1, <2>2 DEF UserRow
    <2>4. \A u \in DOMAIN user : MemberIn(group, None, user'[u]) = MemberIn(group, None, user[u])
      BY <2>3 DEF MemberIn
    <2>5. \A u \in DOMAIN user :
             u # t.id => IncludeIn(group, None, user'[u]) = IncludeIn(group, None, user[u])
      BY <2>3 DEF IncludeIn
    <2> DEFINE p == IncludeIn(group, None, user'[t.id])
    <2>6. p \in [Belongs[t.id] -> BOOLEAN]
      <3>1. /\ user'[t.id].groups \subseteq Live(group) /\ user'[t.id].groups # {}
            /\ DOMAIN user'[t.id].prefs = user'[t.id].groups
        BY <1>1, <2>2, <2>3 DEF Settled, UserRow
      <3>2. p \in [MemberIn(group, None, user'[t.id]) -> BOOLEAN]
        BY <3>1, AllChosen
      <3> QED
        BY <1>4, <2>2, <2>4, <3>2
    <2>7. Belongs' = Belongs /\ t.id \in DOMAIN Belongs
      BY <1>4, <2>2, <2>3, <2>4
    <2>8. Chosen' = [Chosen EXCEPT ![t.id] = p]
      BY <1>4, <2>2, <2>3, <2>5
    <2> HIDE DEF p
    <2> QED
      BY <1>5, <2>6, <2>7, <2>8, MapChoose
  <1> QED
    BY <1>6, <1>7

(* The last step of a rename is the rename.                                *)
LEMMA WriteGroupStep ==
    ASSUME TakeTurns, IInv, SoloInv, TurnInv, NEW o \in DOMAIN ops, WriteGroup(o)
    PROVE  M!MNext \/ UNCHANGED M!mvars
  <1> DEFINE op == ops[o]
  <1>1. /\ OpsOK /\ op \in Op /\ Fits(op, group, user) /\ OwnNames(group) /\ DOMAIN ops = {o}
        /\ Known(op, group, tags, user) /\ DOMAIN group \subseteq Gids
    BY OnlyOne DEF IInv, OpsOK, OpOK, TurnInv, SoloInv, Tables
  <1>2. /\ UNCHANGED user /\ End(o) /\ op.pc \in {"writeGroup", "prefs"}
        /\ DOMAIN group' = DOMAIN group
        /\ \A g \in DOMAIN group : g # op.gid => group'[g].name = group[g].name
    BY DEF WriteGroup
  <1>3. Quiet(ops')
    BY <1>1, <1>2, QuietEnds
  <1>4. CASE op.pc = "writeGroup"
    <2>1. \A g \in DOMAIN group : group'[g].name = group[g].name
      BY <1>4 DEF WriteGroup
    <2>2. AName(group') = AName(group)
      BY <1>2, <2>1 DEF AName
    <2>3. Quiet(ops)
      BY <1>1, <1>4, QuietNow
    <2> QED
      BY <1>2, <1>3, <2>2, <2>3, QuietStutters
  <1>5. CASE op.pc = "prefs"
    <2>1. /\ op.gid \in DOMAIN group /\ group[op.gid].name = op.old /\ op.old # op.new
          /\ \A g \in DOMAIN group : group[g].name # op.new
          /\ op.todo = {} /\ op.gid \in Gids /\ op.new \in Names
      BY <1>1, <1>5 DEF Fits, Holding, Known, Renaming, Live, WriteGroup, Op
    <2>2. group'[op.gid].name = op.new
      BY <1>5, <2>1 DEF WriteGroup
    <2>3. \A n, gr : IdsIn(n, gr, ops) = Named(n, gr) \cup (IF n = op.new THEN {op.gid} ELSE {})
      <3>1. ops[o].pc \in {"retag", "regroup", "prefs"}
        BY <1>5
      <3> QED
        BY <1>1, <3>1, RenamingIds
    <2>4. StayingIn(ops, user) = DOMAIN user /\ StayingIn(ops', user) = DOMAIN user
      <3>1. ops[o].pc \in {"retag", "regroup", "prefs"}
        BY <1>5
      <3> QED
        BY <1>1, <1>3, <3>1, RenamingIds, QuietIds
    <2>5. \A n : n # op.old => IdsIn(n, group, ops) = IdsIn(n, group', ops')
      <3>1. \A n : IdsIn(n, group', ops') = Named(n, group')
        BY <1>3, QuietIds
      <3>2. \A n : n # op.old =>
               Named(n, group') = Named(n, group) \cup (IF n = op.new THEN {op.gid} ELSE {})
        BY <1>2, <2>1, <2>2 DEF Named
      <3> QED
        BY <2>3, <3>1, <3>2
    <2>6. \A u \in DOMAIN user : op.old \notin user[u].groups /\ op.old \notin DOMAIN user[u].prefs
      BY <1>1, <1>5, <2>1 DEF Known
    <2>7. ASSUME NEW u \in DOMAIN user
          PROVE  /\ MemberIn(group, ops, user[u]) = MemberIn(group', ops', user[u])
                 /\ IncludeIn(group, ops, user[u]) = IncludeIn(group', ops', user[u])
      <3>1. /\ \A n \in user[u].groups : IdsIn(n, group, ops) = IdsIn(n, group', ops')
            /\ \A n \in DOMAIN user[u].prefs : IdsIn(n, group, ops) = IdsIn(n, group', ops')
        BY <2>5, <2>6
      <3> QED
        BY <3>1, SameRow
    <2>8. Belongs' = Belongs /\ Chosen' = Chosen
      BY <1>2, <2>4, <2>7 DEF Belongs, Chosen, AMember, AInclude
    <2>9. /\ op.gid \in DOMAIN AName(group)
          /\ \A h \in DOMAIN AName(group) : AName(group)[h] # op.new
          /\ AName(group)' = [AName(group) EXCEPT ![op.gid] = op.new]
      BY <1>2, <2>1, <2>2 DEF AName
    <2> QED
      BY <2>1, <2>8, <2>9, MapRename
  <1> QED
    BY <1>2, <1>4, <1>5

(* The first step of a deletion is the deletion.                           *)
LEMMA DeleteGroupStep ==
    ASSUME TakeTurns, IInv, TurnInv, NEW o \in DOMAIN ops, DeleteGroup(o)
    PROVE  M!MNext
  <1> DEFINE op == ops[o]
             new == [op EXCEPT !.pc = "deleteUsers"]
             gone == {u \in DOMAIN user : op.old \in user[u].groups}
             left == DOMAIN user \ gone
  <1>1. /\ OpsOK /\ op \in Op /\ Fits(op, group, user) /\ OwnNames(group) /\ DOMAIN ops = {o}
        /\ DOMAIN group \subseteq Gids /\ \A u \in DOMAIN user : user[u] \in UserRow
    BY OnlyOne DEF IInv, OpsOK, OpOK, TurnInv, Tables
  <1>2. /\ op.pc = "deleteGroup" /\ op.gid \in DOMAIN group /\ group[op.gid].name = op.old
        /\ Settled(group, user) /\ op.gid \in Gids
    BY <1>1 DEF DeleteGroup, Fits, Holding, Rows
  <1>3. /\ Goto(o, new) /\ UNCHANGED user
        /\ group' = Restrict(group, DOMAIN group \ {op.gid})
    BY <1>2 DEF DeleteGroup
  <1>4. new.pc = "deleteUsers" /\ new.old = op.old
    BY <1>1 DEF Op
  <1> HIDE DEF new
  <1>5. DOMAIN ops' = {o} /\ ops'[o] = new
    BY <1>1, <1>3, QuietGoes
  <1>6. StayingIn(ops', user') = left
    BY <1>3, <1>4, <1>5 DEF StayingIn
  <1>7. Quiet(ops)
    BY <1>1, <1>2, QuietNow
  <1>8. /\ Belongs = [u \in DOMAIN user |-> MemberIn(group, None, user[u])]
        /\ Chosen = [u \in DOMAIN user |-> IncludeIn(group, None, user[u])]
    BY <1>7, QuietRows DEF Belongs, Chosen
  <1>9. /\ DOMAIN group' = DOMAIN group \ {op.gid}
        /\ \A g \in DOMAIN group' : group'[g] = group[g]
    BY <1>3 DEF Restrict
  <1>10. \A n : n # op.old => IdsIn(n, group', ops') = IdsIn(n, group, None)
    <2>1. \A n : IdsIn(n, group', ops') = Named(n, group')
      BY <1>4, <1>5 DEF IdsIn
    <2>2. \A n : n # op.old => Named(n, group') = Named(n, group)
      BY <1>2, <1>9 DEF Named
    <2> QED
      BY <2>1, <2>2, NoneIds
  <1>11. ASSUME NEW u \in left
         PROVE  /\ MemberIn(group', ops', user[u]) = MemberIn(group, None, user[u])
                /\ IncludeIn(group', ops', user[u]) = IncludeIn(group, None, user[u])
    <2>1. op.old \notin user[u].groups /\ op.old \notin DOMAIN user[u].prefs
      BY <1>2 DEF Settled
    <2>2. /\ \A n \in user[u].groups : IdsIn(n, group', ops') = IdsIn(n, group, None)
          /\ \A n \in DOMAIN user[u].prefs : IdsIn(n, group', ops') = IdsIn(n, group, None)
      BY <1>10, <2>1
    <2> QED
      BY <2>2, SameRow
  <1>12. ASSUME NEW u \in DOMAIN user
         PROVE  op.gid \in MemberIn(group, None, user[u]) <=> u \in gone
    <2>1. user[u].groups \subseteq Live(group) /\ user[u].groups # {}
      BY <1>1, <1>2 DEF Settled, UserRow
    <2>2. MemberIn(group, None, user[u]) = UNION {Named(n, group) : n \in user[u].groups}
      BY <2>1, MembersThere
    <2>3. \A n : op.gid \in Named(n, group) <=> n = op.old
      BY <1>2 DEF Named
    <2>4. op.gid \in MemberIn(group, None, user[u]) <=> \E n \in user[u].groups : op.gid \in Named(n, group)
      BY <2>2
    <2> QED
      BY <2>3, <2>4
  <1>13. left = {u \in DOMAIN Belongs : op.gid \notin Belongs[u]}
    BY <1>8, <1>12
  <1>14. left \subseteq DOMAIN user
    OBVIOUS
  <1> HIDE DEF left, gone
  <1>15. Belongs' = [u \in left |-> MemberIn(group, None, user[u])]
         /\ Chosen' = [u \in left |-> IncludeIn(group, None, user[u])]
    BY <1>3, <1>6, <1>11 DEF Belongs, Chosen, AMember, AInclude
  <1>16. Belongs' = Restrict(Belongs, left) /\ Chosen' = Restrict(Chosen, left)
    BY <1>8, <1>14, <1>15 DEF Restrict
  <1>17. /\ op.gid \in DOMAIN AName(group)
         /\ AName(group)' = Restrict(AName(group), DOMAIN AName(group) \ {op.gid})
    BY <1>2, <1>9 DEF AName, Restrict
  <1> QED
    BY <1>2, <1>13, <1>16, <1>17, MapDelete

(* Requests that are one write.                                            *)
LEMMA AtOnceSteps ==
    ASSUME TakeTurns, IInv, TurnInv,
           \/ \E g \in Gids, n \in Names, main \in BOOLEAN : CreateGroup(g, n, main)
           \/ \E u \in Users : DeleteUser(u)
    PROVE  M!MNext
  <1>1. Tables /\ OpsOK
    BY DEF IInv
  <1>2. DOMAIN ops = {} /\ DOMAIN ops' = {}
    BY <1>1 DEF OpsOK, TakeTurns, CreateGroup, DeleteUser, AtOnce
  <1>3. OwnNames(group) /\ Settled(group, user) /\ Quiet(ops) /\ Quiet(ops')
    BY <1>2 DEF TurnInv, Quiet
  <1>4. /\ Belongs = [u \in DOMAIN user |-> MemberIn(group, None, user[u])]
        /\ Chosen = [u \in DOMAIN user |-> IncludeIn(group, None, user[u])]
        /\ Belongs' = [u \in DOMAIN user' |-> MemberIn(group', None, user'[u])]
        /\ Chosen' = [u \in DOMAIN user' |-> IncludeIn(group', None, user'[u])]
    BY <1>3, QuietRows DEF Belongs, Chosen
  <1>5. ASSUME NEW g \in Gids, NEW n \in Names, NEW main \in BOOLEAN, CreateGroup(g, n, main)
        PROVE  M!MNext
    <2>1. /\ g \notin DOMAIN group /\ \A h \in DOMAIN group : group[h].name # n
          /\ DOMAIN group' = DOMAIN group \cup {g}
          /\ \A h \in DOMAIN group : group'[h] = group[h]
          /\ group'[g].name = n
          /\ UNCHANGED user
      BY <1>1, <1>5 DEF CreateGroup, LiveNames, Tables
    <2>2. \A m : m # n => Named(m, group') = Named(m, group)
      BY <2>1 DEF Named
    <2>3. \A m : m # n => IdsIn(m, group', None) = IdsIn(m, group, None)
      BY <2>2, NoneIds
    <2>4. n \notin Live(group)
      BY <2>1 DEF Live
    <2>5. ASSUME NEW u \in DOMAIN user
          PROVE  /\ MemberIn(group', None, user[u]) = MemberIn(group, None, user[u])
                 /\ IncludeIn(group', None, user[u]) = IncludeIn(group, None, user[u])
      <3>1. n \notin user[u].groups /\ n \notin DOMAIN user[u].prefs
        BY <1>3, <2>4 DEF Settled
      <3>2. /\ \A m \in user[u].groups : IdsIn(m, group', None) = IdsIn(m, group, None)
            /\ \A m \in DOMAIN user[u].prefs : IdsIn(m, group', None) = IdsIn(m, group, None)
        BY <2>3, <3>1
      <3> QED
        BY <3>2, SameRow
    <2>6. Belongs' = Belongs /\ Chosen' = Chosen
      BY <1>4, <2>1, <2>5
    <2>7. /\ g \notin DOMAIN AName(group)
          /\ \A h \in DOMAIN AName(group) : AName(group)[h] # n
          /\ AName(group)' = [h \in DOMAIN AName(group) \cup {g} |->
                                 IF h = g THEN n ELSE AName(group)[h]]
      BY <2>1 DEF AName
    <2> QED
      BY <2>6, <2>7, MapCreate
  <1>6. ASSUME NEW u \in Users, DeleteUser(u)
        PROVE  M!MNext
    <2>1. u \in DOMAIN user /\ user' = Restrict(user, DOMAIN user \ {u}) /\ UNCHANGED group
      BY <1>6 DEF DeleteUser
    <2>2. /\ DOMAIN user' = DOMAIN user \ {u}
          /\ \A v \in DOMAIN user' : user'[v] = user[v]
      BY <2>1 DEF Restrict
    <2>3. /\ Belongs' = Restrict(Belongs, DOMAIN Belongs \ {u})
          /\ Chosen' = Restrict(Chosen, DOMAIN Chosen \ {u})
      BY <1>4, <2>1, <2>2 DEF Restrict
    <2>4. u \in DOMAIN Belongs /\ AName(group)' = AName(group)
      BY <1>4, <2>1 DEF AName
    <2> QED
      BY <2>3, <2>4, MapLeave
  <1> QED
    BY <1>5, <1>6

-----------------------------------------------------------------------------
LEMMA MappedInit == Init => M!MInit
  <1> SUFFICES ASSUME Init PROVE M!MInit
    OBVIOUS
  <1>1. /\ group = [g \in {UngroupedId} |-> [name |-> Ungrouped, main |-> FALSE]]
        /\ DOMAIN user = {}
    BY NoneEmpty DEF Init
  <1>2. AName(group) = [h \in {UngroupedId} |-> Ungrouped]
    BY <1>1 DEF AName
  <1>3. DOMAIN Belongs = {} /\ DOMAIN Chosen = {}
    BY <1>1 DEF Belongs, Chosen, AMember, AInclude, StayingIn
  <1>4. Belongs = M!Nothing /\ Chosen = M!Nothing
    BY <1>3 DEF M!Nothing, Belongs, Chosen, AMember, AInclude
  <1>5. \E g \in Gids, n \in Names :
           [h \in DOMAIN group |-> group[h].name] = [h \in {g} |-> n]
    <2>1. UngroupedId \in Gids /\ Ungrouped \in Names
      BY NamesAssumption
    <2>2. [h \in DOMAIN group |-> group[h].name] = [h \in {UngroupedId} |-> Ungrouped]
      BY <1>2 DEF AName
    <2> QED
      BY <2>1, <2>2, Zenon
  <1> QED
    BY <1>4, <1>5, Mapped, Zenon DEF M!MInit

LEMMA MappedNext ==
    ASSUME TakeTurns
    PROVE  IInv /\ SoloInv /\ TurnInv /\ [Next]_vars => [M!MNext]_M!mvars
  <1> SUFFICES ASSUME IInv, SoloInv, TurnInv, [Next]_vars
               PROVE  M!MNext \/ UNCHANGED M!mvars
    OBVIOUS
  <1>1. ASSUME NEW o \in Slots, Request(o)
        PROVE  UNCHANGED M!mvars
    BY <1>1, RequestsStutter
  <1>2. ASSUME NEW o \in Slots, Step(o)
        PROVE  M!MNext \/ UNCHANGED M!mvars
    <2>1. o \in DOMAIN ops
      BY <1>2 DEF Step
    <2>2. CASE DeleteGroup(o) \/ WriteGroup(o) \/ DeleteUsers(o)
      BY <2>1, <2>2, DeleteGroupStep, WriteGroupStep, DeleteUsersStutters
    <2>3. CASE \/ CheckTaken(o) \/ PullTag(o) \/ WriteTags(o) \/ CheckMains(o)
               \/ CheckBulk(o) \/ ReadBulk(o)
               \/ \E n \in ops[o].todo : AssertGroupExists(o, n)
      BY <2>1, <2>3, ReadsStutter
    <2>4. CASE \/ FindTagged(o) \/ FindMembers(o) \/ FindPrefs(o)
               \/ \E t \in ops[o].todo : Retag(o, t)
      BY <2>1, <2>4, RenameStutters
    <2>5. ASSUME NEW t \in ops[o].todo, RenameMember(o, t) \/ RenamePrefs(o, t)
          PROVE  UNCHANGED M!mvars
      BY <2>1, <2>5, RenameRowsStutters
    <2>6. CASE SaveUser(o) \/ SetGroup(o) \/ \E t \in ops[o].todo : RegroupUser(o, t)
      BY <2>1, <2>6, EnrolSteps
    <2>7. CASE ResetPrefs(o) \/ WritePrefs(o)
      BY <2>1, <2>7, ChoiceSteps
    <2> QED
      BY <1>2, <2>2, <2>3, <2>4, <2>5, <2>6, <2>7 DEF Step
  <1>3. CASE \/ \E g \in Gids, n \in Names, main \in BOOLEAN : CreateGroup(g, n, main)
             \/ \E u \in Users : DeleteUser(u)
    BY <1>3, AtOnceSteps
  <1>4. ASSUME NEW o \in DOMAIN ops, Throw(o)
        PROVE  FALSE
    BY <1>4 DEF Throw, TakeTurns
  <1>5. CASE UNCHANGED vars
    <2>1. UNCHANGED <<group, user, ops>>
      BY <1>5 DEF vars
    <2>2. /\ \A u : /\ MemberIn(group, ops, user[u]) = MemberIn(group', ops', user'[u])
                    /\ IncludeIn(group, ops, user[u]) = IncludeIn(group', ops', user'[u])
          /\ AName(group') = AName(group)
          /\ StayingIn(ops', user') = StayingIn(ops, user)
      BY <2>1
    <2> QED
      BY <2>2, Stutters
  <1> QED
    BY <1>1, <1>2, <1>3, <1>4, <1>5 DEF Next

(* Requests that take turns and do not stop half-way implement Membership: *)
(* rewriting the name of a group on connects, users and choices amounts to *)
(* a rename, users belong to groups there are, and a user's choices follow *)
(* the group (updateGroupSettings, deleteGroup, createUser,                *)
(* updatePanelUser, bulkUpdatePanelUsers,                                  *)
(* savePublicSubscriptionGroupPrefs).                                      *)
THEOREM ImplementsMembershipCorrect ==
    ASSUME TakeTurns
    PROVE  Spec => ImplementsMembership
  <1>1. Init => IInv /\ SoloInv /\ TurnInv /\ M!MInit
    BY InitOK, SoloInit, TurnInit, MappedInit
  <1>2. IInv /\ SoloInv /\ TurnInv /\ [Next]_vars => IInv' /\ SoloInv' /\ TurnInv'
    BY Inductive, SoloInductive, TurnInductive
  <1>3. IInv /\ SoloInv /\ TurnInv /\ [Next]_vars => [M!MNext]_M!mvars
    BY MappedNext
  <1> QED
    BY <1>1, <1>2, <1>3, PTL DEF Spec, ImplementsMembership, M!MSpec

=============================================================================
