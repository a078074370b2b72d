-------------------------------- MODULE Groups --------------------------------
(***************************************************************************)
(* ManagementService: groups, and the copies of their names that connects  *)
(* (groupNames) and panel users (groupNames, subscriptionGroupPrefs) carry.*)
(* There are no foreign keys: createGroup, updateGroupSettings,            *)
(* deleteGroup, setConnectGroups, createUser, updatePanelUser, the group   *)
(* modes of bulkUpdatePanelUsers, savePublicSubscriptionGroupPrefs and     *)
(* deleteUser keep the copies together by sequences of separate database   *)
(* calls, each of which is a step here.                                    *)
(*                                                                         *)
(* Orders within groupNames and prefs are left out: both are sets of       *)
(* names.  Rows of connects come and go in ConnectSync, not here.          *)
(***************************************************************************)
EXTENDS FiniteSets, Functions

CONSTANTS
    Names,       \* names a group can have
    Ungrouped,   \* the reserved name UNGROUPED_CONNECT_GROUP_NAME
    Gids,        \* ObjectIds of groups; an id is handed out once
    UngroupedId,
    Conns,
    Users,       \* codes of panel users
    Slots,       \* requests that can be in progress at the same time
    Requests,    \* which kinds of requests occur
    CanCrash     \* whether a request may stop half-way

ASSUME NamesAssumption ==
    /\ IsFiniteSet(Names)
    /\ Ungrouped \in Names /\ UngroupedId \in Gids
    /\ CanCrash \in BOOLEAN

VARIABLES
    group,    \* live group id -> [name, main]
    fresh,    \* ids not handed out yet
    tags,     \* connect -> groupNames
    user,     \* live user -> [groups, prefs]
    ops,      \* slot -> local variables of the request in progress
    serial,   \* history: no two requests have overlapped yet
    crashed   \* history: some request has stopped half-way

vars == <<group, fresh, tags, user, ops, serial, crashed>>

-----------------------------------------------------------------------------
None == [n \in {} |-> TRUE]

LiveNames == {group[g].name : g \in DOMAIN group}

(* normalizeConnectGroupNamesForStorage                                    *)
Normalized(names) ==
    IF names \subseteq {Ungrouped} THEN {Ungrouped} ELSE names \ {Ungrouped}

(* assertConnectHasAtMostOneMainGroup                                      *)
Mains(names) == {n \in names : \E g \in DOMAIN group : group[g].name = n /\ group[g].main}

TwoMains(names) == Cardinality(Mains(names)) > 1

(* Slip: the old name stays.                                               *)
RenamedAdding(names, old, new) == names \cup {new}

Renamed(names, old, new) == (names \ {old}) \cup {new}

(* Slip: saved choices are forgotten by the rename.                        *)
PrefsKept(prefs, old, new) == {prefs}

(* syncSubscriptionPrefsAfterGroupRename.  When both names are listed, the *)
(* entry that comes first decides.                                         *)
PrefsRenamed(prefs, old, new) ==
    {p \in [Renamed(DOMAIN prefs, old, new) -> BOOLEAN] :
        \A n \in DOMAIN p : IF n = new THEN p[n] \in {prefs[m] : m \in DOMAIN prefs \cap {old, new}}
                                       ELSE p[n] = prefs[n]}

(* The group modes of bulkUpdatePanelUsers: addGroupName, removeGroupName, *)
(* groupName with restrictToCurrentGroupName.                              *)
Regrouped(op, names) ==
    CASE op.mode = "add"    -> names \cup {op.new}
      [] op.mode = "remove" -> names \ {op.new}
      [] op.mode = "move"   -> (names \ {op.old}) \cup {op.new}

MembersOf(n) == {u \in DOMAIN user : n \in user[u].groups}

-----------------------------------------------------------------------------
(* The local variables of a request.                                       *)
NewOp(kind) ==
    [kind |-> kind, pc |-> "start", gid |-> UngroupedId, con |-> {}, who |-> {},
     old |-> Ungrouped, new |-> Ungrouped, flag |-> "same", mode |-> "none",
     names |-> {},  \* names requested, or still to be looked up
     todo |-> {},   \* documents read and still to be written
     solo |-> DOMAIN ops = {}]

Init ==
    /\ group = [g \in {UngroupedId} |-> [name |-> Ungrouped, main |-> FALSE]]
    /\ fresh = Gids \ {UngroupedId}
    /\ tags = [c \in Conns |-> {Ungrouped}]
    /\ user = None
    /\ ops = None
    /\ serial = TRUE
    /\ crashed = FALSE

Begin(o, op) ==
    /\ o \in Slots \ DOMAIN ops
    /\ op.kind \in Requests
    /\ ops' = [q \in DOMAIN ops \cup {o} |->
                  IF q = o THEN op ELSE [ops[q] EXCEPT !.solo = FALSE]]
    /\ serial' = (serial /\ DOMAIN ops = {})
    /\ UNCHANGED <<group, fresh, tags, user, crashed>>

(* A request that is one write.                                            *)
AtOnce ==
    /\ DOMAIN ops # Slots
    /\ ops' = [q \in DOMAIN ops |-> [ops[q] EXCEPT !.solo = FALSE]]
    /\ serial' = (serial /\ DOMAIN ops = {})
    /\ UNCHANGED crashed

Goto(o, op) == ops' = [ops EXCEPT ![o] = op] /\ UNCHANGED <<serial, crashed>>
End(o) == ops' = Restrict(ops, DOMAIN ops \ {o}) /\ UNCHANGED <<serial, crashed>>

(* A database call or the process fails between two steps.                 *)
Throw(o) ==
    /\ CanCrash
    /\ ops' = Restrict(ops, DOMAIN ops \ {o})
    /\ crashed' = TRUE
    /\ UNCHANGED <<group, fresh, tags, user, serial>>

-----------------------------------------------------------------------------
(* createGroup: the unique index refuses a name that is taken.             *)
CreateGroup(g, n, main) ==
    /\ g \in fresh
    /\ n # Ungrouped /\ n \notin LiveNames
    /\ group' = [h \in DOMAIN group \cup {g} |->
                    IF h = g THEN [name |-> n, main |-> main] ELSE group[h]]
    /\ fresh' = fresh \ {g}
    /\ AtOnce
    /\ UNCHANGED <<tags, user>>

-----------------------------------------------------------------------------
(* deleteGroup *)
BeginDelete(o, g) ==
    /\ g \in DOMAIN group /\ group[g].name # Ungrouped
    /\ Begin(o, [NewOp("delete") EXCEPT !.pc = "deleteGroup", !.gid = g,
                                        !.old = group[g].name])

DeleteGroup(o) ==
    LET op == ops[o] IN
    /\ op.pc = "deleteGroup"
    /\ group' = Restrict(group, DOMAIN group \ {op.gid})
    /\ IF op.gid \in DOMAIN group
       THEN Goto(o, [op EXCEPT !.pc = "deleteUsers"])
       ELSE End(o)
    /\ UNCHANGED <<fresh, tags, user>>

DeleteUsers(o) ==
    LET op == ops[o] IN
    /\ op.pc = "deleteUsers"
    /\ user' = Restrict(user, DOMAIN user \ MembersOf(op.old))
    /\ Goto(o, [op EXCEPT !.pc = "pull"])
    /\ UNCHANGED <<group, fresh, tags>>

PullTag(o) ==
    LET op == ops[o] IN
    /\ op.pc = "pull"
    /\ tags' = [c \in Conns |-> tags[c] \ {op.old}]
    /\ End(o)
    /\ UNCHANGED <<group, fresh, user>>

-----------------------------------------------------------------------------
(* updateGroupSettings: a new name, the main flag, or both.                *)
BeginUpdate(o, g, n, flag) ==
    /\ g \in DOMAIN group
    /\ n # group[g].name => group[g].name # Ungrouped /\ n # Ungrouped
    /\ ~ (group[g].name = Ungrouped /\ flag = "on")
    /\ n # group[g].name \/ flag # "same"
    /\ Begin(o, [NewOp("update") EXCEPT !.gid = g, !.old = group[g].name, !.new = n,
                    !.flag = flag,
                    !.pc = IF n = group[g].name THEN "writeGroup" ELSE "check"])

CheckTaken(o) ==
    LET op == ops[o] IN
    /\ op.pc = "check"
    /\ IF op.new \in LiveNames THEN End(o) ELSE Goto(o, [op EXCEPT !.pc = "tagged"])
    /\ UNCHANGED <<group, fresh, tags, user>>

(* renameGroupTagEverywhere: what was read is written back, renamed.       *)
FindTagged(o) ==
    LET op == ops[o] IN
    /\ op.pc = "tagged"
    /\ Goto(o, [op EXCEPT !.pc = "retag",
                   !.todo = {[id |-> c, was |-> tags[c]] :
                                c \in {c \in Conns : op.old \in tags[c]}}])
    /\ UNCHANGED <<group, fresh, tags, user>>

Retag(o, t) ==
    LET op == ops[o] IN
    /\ op.pc = "retag" /\ t \in op.todo
    /\ tags' = [tags EXCEPT ![t.id] = Renamed(t.was, op.old, op.new)]
    /\ Goto(o, [op EXCEPT !.todo = @ \ {t}])
    /\ UNCHANGED <<group, fresh, user>>

FindMembers(o) ==
    LET op == ops[o] IN
    /\ op.pc = "retag" /\ op.todo = {}
    /\ Goto(o, [op EXCEPT !.pc = "regroup",
                   !.todo = {[id |-> u, was |-> user[u].groups] : u \in MembersOf(op.old)}])
    /\ UNCHANGED <<group, fresh, tags, user>>

(* A write to one user that was read earlier; a user that is gone throws.  *)
WriteUser(o, t, new) ==
    /\ user' = [u \in DOMAIN user |-> IF u = t.id THEN new[u] ELSE user[u]]
    /\ IF t.id \in DOMAIN user THEN Goto(o, [ops[o] EXCEPT !.todo = @ \ {t}])
                               ELSE End(o)
    /\ UNCHANGED <<group, fresh, tags>>

RenameMember(o, t) ==
    LET op == ops[o] IN
    /\ op.pc = "regroup" /\ t \in op.todo
    /\ WriteUser(o, t, [u \in DOMAIN user |->
                          [user[u] EXCEPT !.groups = Renamed(t.was, op.old, op.new)]])

FindPrefs(o) ==
    LET op == ops[o] IN
    /\ op.pc = "regroup" /\ op.todo = {}
    /\ Goto(o, [op EXCEPT !.pc = "prefs",
                   !.todo = {[id |-> u, was |-> user[u].prefs] :
                       u \in {u \in DOMAIN user : op.old \in DOMAIN user[u].prefs}}])
    /\ UNCHANGED <<group, fresh, tags, user>>

RenamePrefs(o, t) ==
    LET op == ops[o] IN
    /\ op.pc = "prefs" /\ t \in op.todo
    /\ \E p \in PrefsRenamed(t.was, op.old, op.new) :
          WriteUser(o, t, [u \in DOMAIN user |-> [user[u] EXCEPT !.prefs = p]])

(* group.update, which throws when the group is gone or the name taken.    *)
WriteGroup(o) ==
    LET op == ops[o]
        ok == /\ op.gid \in DOMAIN group
              /\ \A g \in DOMAIN group : group[g].name = op.new => g = op.gid
    IN
    /\ \/ op.pc = "writeGroup"
       \/ op.pc = "prefs" /\ op.todo = {}
    /\ group' = [g \in DOMAIN group |->
                    IF g = op.gid /\ ok
                    THEN [name |-> IF op.pc = "prefs" THEN op.new ELSE group[g].name,
                          main |-> IF op.flag = "same" THEN group[g].main
                                                       ELSE op.flag = "on"]
                    ELSE group[g]]
    /\ End(o)
    /\ UNCHANGED <<fresh, tags, user>>

-----------------------------------------------------------------------------
(* setConnectGroups: that the names exist is not checked.                  *)
BeginTag(o, c, names) ==
    Begin(o, [NewOp("tag") EXCEPT !.con = {c}, !.names = Normalized(names),
                 !.pc = IF Cardinality(Normalized(names)) < 2 THEN "writeTags" ELSE "mains"])

(* Slip: a limit of two.                                                   *)
CheckMainsUpToTwo(o) ==
    LET op == ops[o] IN
    /\ op.pc = "mains"
    /\ IF Cardinality(Mains(op.names)) > 2 THEN End(o)
                                           ELSE Goto(o, [op EXCEPT !.pc = "writeTags"])
    /\ UNCHANGED <<group, fresh, tags, user>>

CheckMains(o) ==
    LET op == ops[o] IN
    /\ op.pc = "mains"
    /\ IF TwoMains(op.names) THEN End(o) ELSE Goto(o, [op EXCEPT !.pc = "writeTags"])
    /\ UNCHANGED <<group, fresh, tags, user>>

WriteTags(o) ==
    LET op == ops[o] IN
    /\ op.pc = "writeTags"
    /\ tags' = [c \in Conns |-> IF c \in op.con THEN op.names ELSE tags[c]]
    /\ End(o)
    /\ UNCHANGED <<group, fresh, user>>

-----------------------------------------------------------------------------
(* createUser and updatePanelUser.  assertPanelGroupNamesExist looks the   *)
(* names up one by one; createUser then waits for crypto.happ.su.          *)
BeginUser(o, kind, u, names) ==
    /\ names # {}
    /\ kind = "updateUser" => u \in DOMAIN user
    /\ Begin(o, [NewOp(kind) EXCEPT !.pc = "assert", !.who = {u}, !.names = names,
                                    !.todo = names])

AssertGroupExists(o, n) ==
    LET op == ops[o] IN
    /\ op.pc = "assert" /\ n \in op.todo
    /\ IF n \in LiveNames THEN Goto(o, [op EXCEPT !.todo = @ \ {n}]) ELSE End(o)
    /\ UNCHANGED <<group, fresh, tags, user>>

SaveUser(o) ==
    LET op  == ops[o]
        row == [groups |-> op.names, prefs |-> None]
    IN
    /\ op.pc = "assert" /\ op.todo = {}
    /\ user' = CASE op.kind = "createUser" ->
                      [u \in DOMAIN user \cup op.who |->
                          IF u \in DOMAIN user THEN user[u] ELSE row]
                 [] op.kind = "updateUser" ->
                      [u \in DOMAIN user |-> IF u \in op.who THEN row ELSE user[u]]
    /\ End(o)
    /\ UNCHANGED <<group, fresh, tags>>

DeleteUser(u) ==
    /\ u \in DOMAIN user
    /\ user' = Restrict(user, DOMAIN user \ {u})
    /\ AtOnce
    /\ UNCHANGED <<group, fresh, tags>>

-----------------------------------------------------------------------------
(* bulkUpdatePanelUsers *)
BeginBulk(o, mode, us, n, from) ==
    /\ us # {} /\ us \subseteq DOMAIN user
    /\ Begin(o, [NewOp("bulk") EXCEPT !.pc = "checkBulk", !.mode = mode, !.who = us,
                                      !.new = n, !.old = from])

CheckBulk(o) ==
    LET op == ops[o] IN
    /\ op.pc = "checkBulk"
    /\ IF op.new \in LiveNames THEN Goto(o, [op EXCEPT !.pc = "readBulk"]) ELSE End(o)
    /\ UNCHANGED <<group, fresh, tags, user>>

(* Slip: the list is tested before the name is taken out.                  *)
LastGroupBefore(op, names) == op.mode = "remove" /\ names = {}

(* A user whose only group is to be removed makes the request fail.        *)
LastGroup(op, names) == op.mode = "remove" /\ names = {op.new}

ReadBulk(o) ==
    LET op   == ops[o]
        rows == {[id |-> u, was |-> user[u].groups] :
                    u \in {u \in op.who \cap DOMAIN user :
                              op.mode = "move" => op.old \in user[u].groups}}
    IN
    /\ op.pc = "readBulk" /\ op.mode # "set"
    /\ IF \E t \in rows : LastGroup(op, t.was)
       THEN End(o)
       ELSE Goto(o, [op EXCEPT !.pc = "bulk",
                        !.todo = {t \in rows : op.mode = "move" \/ Regrouped(op, t.was) # t.was}])
    /\ UNCHANGED <<group, fresh, tags, user>>

RegroupUser(o, t) ==
    LET op == ops[o] IN
    /\ op.pc = "bulk" /\ t \in op.todo
    /\ WriteUser(o, t, [u \in DOMAIN user |->
                          [user[u] EXCEPT !.groups = Regrouped(op, t.was)]])

(* groupName alone: one updateMany.                                        *)
SetGroup(o) ==
    LET op == ops[o] IN
    /\ op.pc = "readBulk" /\ op.mode = "set"
    /\ user' = [u \in DOMAIN user |-> IF u \in op.who THEN [user[u] EXCEPT !.groups = {op.new}]
                                                      ELSE user[u]]
    /\ Goto(o, [op EXCEPT !.pc = "bulk"])
    /\ UNCHANGED <<group, fresh, tags>>

ResetPrefs(o) ==
    LET op == ops[o] IN
    /\ op.pc = "bulk" /\ op.todo = {}
    /\ user' = [u \in DOMAIN user |-> IF u \in op.who THEN [user[u] EXCEPT !.prefs = None]
                                                      ELSE user[u]]
    /\ End(o)
    /\ UNCHANGED <<group, fresh, tags>>

-----------------------------------------------------------------------------
(* savePublicSubscriptionGroupPrefs: the list must name every group of the *)
(* user, as read, exactly once.                                            *)
BeginPrefs(o, u, p) ==
    /\ u \in DOMAIN user
    /\ DOMAIN p = user[u].groups
    /\ Begin(o, [NewOp("savePrefs") EXCEPT !.pc = "writePrefs",
                                           !.todo = {[id |-> u, was |-> p]}])

WritePrefs(o) ==
    LET op == ops[o] IN
    /\ op.pc = "writePrefs"
    /\ \E t \in op.todo :
          user' = [u \in DOMAIN user |-> IF u = t.id THEN [user[u] EXCEPT !.prefs = t.was]
                                                     ELSE user[u]]
    /\ End(o)
    /\ UNCHANGED <<group, fresh, tags>>

-----------------------------------------------------------------------------
Step(o) ==
    /\ o \in DOMAIN ops
    /\ \/ DeleteGroup(o) \/ DeleteUsers(o) \/ PullTag(o)
       \/ CheckTaken(o) \/ FindTagged(o) \/ FindMembers(o) \/ FindPrefs(o) \/ WriteGroup(o)
       \/ \E t \in ops[o].todo :
             \/ Retag(o, t) \/ RenameMember(o, t) \/ RenamePrefs(o, t) \/ RegroupUser(o, t)
             \/ AssertGroupExists(o, t)
       \/ CheckMains(o) \/ WriteTags(o)
       \/ SaveUser(o)
       \/ CheckBulk(o) \/ ReadBulk(o) \/ SetGroup(o) \/ ResetPrefs(o)
       \/ WritePrefs(o)

Request(o) ==
    \/ \E g \in Gids : BeginDelete(o, g)
    \/ \E g \in Gids, n \in Names, flag \in {"same", "on", "off"} : BeginUpdate(o, g, n, flag)
    \/ \E c \in Conns, names \in SUBSET Names : BeginTag(o, c, names)
    \/ \E kind \in {"createUser", "updateUser"}, u \in Users, names \in SUBSET Names :
          BeginUser(o, kind, u, names)
    \/ \E mode \in {"add", "remove", "move", "set"}, us \in SUBSET Users, n, from \in Names :
          /\ from # Ungrouped => mode = "move"
          /\ BeginBulk(o, mode, us, n, from)
    \/ \E u \in DOMAIN user : \E p \in [user[u].groups -> BOOLEAN] : BeginPrefs(o, u, p)

Next ==
    \/ \E o \in Slots : Request(o)
    \/ \E o \in Slots : Step(o)
    \/ \E o \in DOMAIN ops : Throw(o)
    \/ \E g \in Gids, n \in Names, main \in BOOLEAN : CreateGroup(g, n, main)
    \/ \E u \in Users : DeleteUser(u)

Spec == Init /\ [][Next]_vars

-----------------------------------------------------------------------------
(* The types of the collections; the reserved group is there, unchanged;   *)
(* ids are handed out once.                                                *)
Types ==
    /\ group \in [DOMAIN group -> [name: Names, main: BOOLEAN]]
    /\ DOMAIN group \subseteq Gids \ fresh
    /\ UngroupedId \in DOMAIN group
    /\ group[UngroupedId] = [name |-> Ungrouped, main |-> FALSE]
    /\ tags \in [Conns -> SUBSET Names]
    /\ DOMAIN user \subseteq Users
    /\ \A u \in DOMAIN user :
          /\ user[u].groups \subseteq Names
          /\ DOMAIN user[u].prefs \subseteq Names
          /\ \A n \in DOMAIN user[u].prefs : user[u].prefs[n] \in BOOLEAN
    /\ DOMAIN ops \subseteq Slots
    /\ serial \in BOOLEAN /\ crashed \in BOOLEAN

(* The reserved tag stands for "in no group": it never stands beside       *)
(* another one, although the tags are written back from copies read        *)
(* earlier (normalizeConnectGroupNamesForStorage, renameGroupTagEverywhere)*)
UngroupedAlone ==
    \A c \in Conns : Ungrouped \in tags[c] => tags[c] = {Ungrouped}

(* Every panel user belongs to some group, however membership changes      *)
(* overlap (the check of removeGroupName in bulkUpdatePanelUsers).         *)
UserHasGroup == \A u \in DOMAIN user : user[u].groups # {}

(* Well-formed collections, however requests overlap and stop.             *)
TypeOK == Types /\ UngroupedAlone /\ UserHasGroup

(* A rename nothing overlaps with leaves the old name on no connect, no    *)
(* user and in no saved choice, also when it repeats one that stopped      *)
(* half-way (updateGroupSettings writes the group last).                   *)
RenameLeavesNoTrace ==
    \A o \in DOMAIN ops : LET op == ops[o] IN
        op.pc = "prefs" /\ op.todo = {} /\ op.solo =>
            /\ \A c \in Conns : op.old \notin tags[c]
            /\ \A u \in DOMAIN user : op.old \notin user[u].groups \cup DOMAIN user[u].prefs

(* As long as nothing overlaps, a change of tags never gives a connect a   *)
(* second main group (assertConnectHasAtMostOneMainGroup).                 *)
NoSecondMainByTags ==
    [][\A c \in Conns :
          tags'[c] # tags[c] /\ (\A o \in DOMAIN ops : ops[o].solo) =>
              (TwoMains(tags'[c]) => TwoMains(tags[c]))]_vars

-----------------------------------------------------------------------------
(* The ids the names stand for.  The new name of a rename in progress      *)
(* stands for the group being renamed; members of a group that is deleted  *)
(* are gone with it.                                                       *)
IdsOf(n) ==
    {g \in DOMAIN group : group[g].name = n} \cup
    {ops[o].gid : o \in {o \in DOMAIN ops : /\ ops[o].pc \in {"retag", "regroup", "prefs"}
                                            /\ ops[o].new = n}}

(* A name that stands for no group stands for itself, so that no user of   *)
(* the abstract specification can belong to it.                            *)
Groupings(n) == IF IdsOf(n) = {} THEN {n} ELSE IdsOf(n)

Leaving(u) == \E o \in DOMAIN ops : ops[o].pc = "deleteUsers" /\ u \in MembersOf(ops[o].old)

Staying == {u \in DOMAIN user : ~ Leaving(u)}

M == INSTANCE Membership WITH
        name    <- [g \in DOMAIN group |-> group[g].name],
        member  <- [u \in Staying |-> UNION {Groupings(n) : n \in user[u].groups}],
        include <- [u \in Staying |->
                      [g \in UNION {IdsOf(n) : n \in DOMAIN user[u].prefs} |->
                          \A n \in DOMAIN user[u].prefs : g \in IdsOf(n) => user[u].prefs[n]]]

(* Requests that neither overlap nor stop half-way keep the promise of     *)
(* module Membership: rewriting names everywhere amounts to a rename,      *)
(* users belong to groups that exist, and a user's choices follow the      *)
(* group.                                                                  *)
ImplementsMembership == M!MSpec
=============================================================================
