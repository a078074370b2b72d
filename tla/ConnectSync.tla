----------------------------- MODULE ConnectSync -----------------------------
(***************************************************************************)
(* SubscriptionsService.fetchConnects / fetchConnectsFromJson: the routine *)
(* that makes the Connect rows of a subscription mirror the list a remote  *)
(* feed serves, together with SubscriptionsService.remove,                 *)
(* ConnectsService.remove and BalancersService.removeConnectFromAll-       *)
(* Balancers, which delete rows in the same multi-step manner.             *)
(*                                                                         *)
(* Every await of the code is a step of its own.  Nothing in the code      *)
(* keeps two runs apart: the queue worker has concurrency 4, jobs carry no *)
(* jobId, and POST /subscriptions/:id/fetch runs the same code.            *)
(*                                                                         *)
(* A remote entry is a member of Uris.  Identity[u] stands for             *)
(* normalizedConnectIdentity(u) and Stable[u] for stableMatchIdentity(u),  *)
(* with NoCore for null.  Opaque are the entries uriToOutbound cannot      *)
(* convert.  Of a row, the columns that take part in matching are kept;    *)
(* what an operator sets (name, groupNames, tags, status, hidden) lives    *)
(* and dies with the row.                                                  *)
(***************************************************************************)
EXTENDS Integers, Sequences, Functions

CONSTANTS
    Subs,       \* subscriptions of the panel
    JsonSubs,   \* those with feedMode JSON; the others are BASE64
    Runs,       \* slots for concurrent invocations: worker slots and requests
    Uris,       \* the entries a remote feed can list
    Identity,   \* [Uris -> identity]
    Stable,     \* [Uris -> stable core or NoCore]
    NoCore,
    Opaque,     \* entries without a rawJson
    Lists,      \* the sequences of entries a remote feed may serve
    Budget      \* bound on the moves of the environment: feed changes,
                \* faults, writes and deletions by operators

ASSUME UrisAssumption ==
    /\ JsonSubs \subseteq Subs
    /\ Opaque \subseteq Uris
    /\ Lists \subseteq Seq(Uris)
    /\ Budget \in Nat

VARIABLES
    subs,    \* ids in the Subscription collection
    remote,  \* remote[s]: the list the feed of s serves now
    conn,    \* the Connect collection: a function from live ids to rows
    nextId,  \* the next ObjectId: ids are never reused, and grow with createdAt
    bal,     \* Balancer collection: live balancer -> connectIds, as a set
    runs,    \* invocations in progress: slot -> local variables
    budget,
    serial   \* history: no invocation has yet overlapped another one or an
             \* operator's write

vars == <<subs, remote, conn, nextId, bal, runs, budget, serial>>

-----------------------------------------------------------------------------
(* subscriptionIncomingDedupeKey: the stable core, or the full identity.   *)
DedupeKey(u) == IF Stable[u] # NoCore THEN <<"stable", Stable[u]>>
                                      ELSE <<"full", Identity[u]>>

(* The Map incomingByDedupeKey: of the entries with one key the last wins. *)
Incoming(list) ==
    {list[i] : i \in {i \in DOMAIN list :
        \A j \in DOMAIN list : j > i => DedupeKey(list[j]) # DedupeKey(list[i])}}

(* connectMatchesIdentity *)
Matches(row, u) ==
    \/ Identity[row.raw] = Identity[u]
    \/ row.identityKey = Identity[u]
    \/ Stable[row.raw] # NoCore /\ Stable[row.raw] = Stable[u]

(* Position in poolSorted: by sortOrder, then by age.                      *)
Before(c, d) ==
    \/ c.sortOrder < d.sortOrder
    \/ c.sortOrder = d.sortOrder /\ c.id < d.id

RowsOf(s) == {i \in DOMAIN conn : conn[i].sub = s}

None == [i \in {} |-> i]

(* The local variables of an invocation.                                   *)
NewRun(kind, s) ==
    [kind    |-> kind,    \* "sync", "removeSubscription", "removeConnect"
     pc      |-> "purge", \* the await the invocation is at
     sub     |-> s,
     list    |-> <<>>,    \* the response
     snap    |-> {},      \* existingConnects
     next    |-> 0,       \* nextSortOrder
     todo    |-> {},      \* incoming entries not yet processed
     matched |-> {},      \* matchedIds
     doomed  |-> {},      \* ids to delete
     purge   |-> {},      \* doomed ids still to be taken out of the pools
     cur     |-> 0,       \* the id being taken out
     aff     |-> {},      \* affected balancers, connectIds as read
     solo    |-> DOMAIN runs = {}]  \* history: nothing ran in parallel

Goto(r, run) == runs' = [runs EXCEPT ![r] = run]

(* The invocation returns or throws: its local variables are gone.         *)
End(r) == runs' = Restrict(runs, DOMAIN runs \ {r})

(* An operator's write reaches the database while invocations are active.  *)
OperatorWrite ==
    /\ budget > 0
    /\ budget' = budget - 1
    /\ runs' = [r \in DOMAIN runs |-> [runs[r] EXCEPT !.solo = FALSE]]
    /\ serial' = (serial /\ DOMAIN runs = {})

Init ==
    /\ subs = Subs
    /\ remote \in [Subs -> Lists]
    /\ conn = None
    /\ nextId = 1
    /\ bal = None
    /\ runs = None
    /\ budget = Budget
    /\ serial = TRUE

-----------------------------------------------------------------------------
(* An invocation starts.  Those already active are no longer alone.        *)
Begin(r, run) ==
    /\ r \in Runs \ DOMAIN runs
    /\ runs' = [q \in DOMAIN runs \cup {r} |->
                    IF q = r THEN run ELSE [runs[q] EXCEPT !.solo = FALSE]]
    /\ serial' = (serial /\ DOMAIN runs = {})
    /\ UNCHANGED <<subs, remote, conn, nextId, bal>>

(* fetchConnects finds the subscription and sends the request.             *)
BeginSync(r, s) ==
    /\ s \in subs
    /\ Begin(r, [NewRun("sync", s) EXCEPT !.pc = "fetch"])
    /\ UNCHANGED budget

(* SubscriptionsService.remove: ensureExists.                              *)
BeginRemoveSubscription(r, s) ==
    /\ s \in subs
    /\ budget > 0
    /\ Begin(r, [NewRun("removeSubscription", s) EXCEPT !.pc = "read"])
    /\ budget' = budget - 1

(* ConnectsService.remove: ensureExists.                                   *)
BeginRemoveConnect(r, i) ==
    /\ i \in DOMAIN conn
    /\ budget > 0
    /\ Begin(r, [NewRun("removeConnect", conn[i].sub) EXCEPT
                    !.doomed = {i}, !.purge = {i}])
    /\ budget' = budget - 1

(* The feed answers with the list it serves at this moment.                *)
Receive(r) ==
    LET run == runs[r] IN
    /\ run.pc = "fetch"
    /\ Goto(r, [run EXCEPT !.pc = "read", !.list = remote[run.sub]])
    /\ UNCHANGED <<subs, remote, conn, nextId, bal, budget, serial>>

(* The columns of existingConnects that later steps look at.               *)
Read(i) == [id |-> i, raw |-> conn[i].raw, identityKey |-> conn[i].identityKey,
            sortOrder |-> conn[i].sortOrder]

(* existingConnects; an empty answer for a subscription that has rows is   *)
(* refused with EMPTY_REMOTE_LIST_MESSAGE.                                 *)
ReadExisting(r) ==
    LET run  == runs[r]
        rows == RowsOf(run.sub)
    IN
    /\ run.kind = "sync" /\ run.pc = "read"
    /\ IF run.list = <<>> /\ rows # {}
       THEN End(r)
       ELSE Goto(r, [run EXCEPT !.pc = "max", !.snap = {Read(i) : i \in rows},
                                !.todo = Incoming(run.list)])
    /\ UNCHANGED <<subs, remote, conn, nextId, bal, budget, serial>>

(* globalMaxAgg: the largest sortOrder of all rows of all subscriptions.   *)
IsMaxSortOrder(m) ==
    \/ conn = None /\ m = 0
    \/ /\ m \in {conn[i].sortOrder : i \in DOMAIN conn}
       /\ \A i \in DOMAIN conn : conn[i].sortOrder <= m

ReadMaxSortOrder(r) ==
    LET run == runs[r] IN
    /\ run.pc = "max"
    /\ \E m \in {0} \cup {conn[i].sortOrder : i \in DOMAIN conn} :
          /\ IsMaxSortOrder(m)
          /\ Goto(r, [run EXCEPT !.pc = "upsert", !.next = m])
    /\ UNCHANGED <<subs, remote, conn, nextId, bal, budget, serial>>

(* A slip: the stable core is not looked at.                               *)
FullIdentityOnly(run, u) ==
    {c \in run.snap : c.id \notin run.matched /\ c.identityKey = Identity[u]}

(* The rows poolSorted.find may return for entry u; it returns the first.  *)
Candidates(run, u) ==
    {c \in run.snap : c.id \notin run.matched /\ Matches(c, u)}

(* No row matches the entry: create one at the end of the common order.    *)
CreateRow(r, u) ==
    LET run == runs[r]
        row == [sub |-> run.sub, raw |-> u, identityKey |-> Identity[u],
                sortOrder |-> run.next + 1]
    IN
    /\ run.pc = "upsert" /\ u \in run.todo
    /\ Candidates(run, u) = {}
    /\ conn' = [i \in DOMAIN conn \cup {nextId} |->
                    IF i = nextId THEN row ELSE conn[i]]
    /\ nextId' = nextId + 1
    /\ Goto(r, [run EXCEPT !.next = @ + 1, !.todo = @ \ {u}])
    /\ UNCHANGED <<subs, remote, bal, budget, serial>>

(* The row takes over the entry.  Only the columns that differ from what   *)
(* the invocation read are written; writing a row that is gone throws      *)
(* (P2025).  An entry equal to the row causes no write in BASE64 mode,     *)
(* unless the row still lacks its rawJson; in JSON mode rawJson is written *)
(* always.                                                                 *)
UpdateRow(r, u, c) ==
    LET run  == runs[r]
        same == /\ run.sub \notin JsonSubs /\ u \notin Opaque
                /\ c.raw = u
                /\ c.identityKey = Identity[u]
    IN
    /\ run.pc = "upsert" /\ u \in run.todo
    /\ c \in Candidates(run, u)
    /\ \A d \in Candidates(run, u) : d = c \/ Before(c, d)
    /\ IF same \/ c.id \in DOMAIN conn
       THEN Goto(r, [run EXCEPT !.todo = @ \ {u}, !.matched = @ \cup {c.id}])
       ELSE End(r)
    /\ conn' = [i \in DOMAIN conn |->
                  IF i # c.id \/ same THEN conn[i]
                  ELSE [conn[i] EXCEPT
                          !.raw = IF c.raw = u THEN @ ELSE u,
                          !.identityKey = IF c.identityKey = Identity[u]
                                          THEN @ ELSE Identity[u]]]
    /\ UNCHANGED <<subs, remote, nextId, bal, budget, serial>>

(* Slips: duplicates of a listed node are kept; the pools are not purged.  *)
StaleIfUnlisted(r) ==
    LET run   == runs[r]
        stale == {c.id : c \in {c \in run.snap :
                     \A u \in Incoming(run.list) : ~ Matches(c, u)}}
    IN
    /\ run.pc = "upsert" /\ run.todo = {}
    /\ Goto(r, [run EXCEPT !.pc = "purge", !.doomed = stale, !.purge = stale])
    /\ UNCHANGED <<subs, remote, conn, nextId, bal, budget, serial>>

StaleWithoutPurge(r) ==
    LET run   == runs[r]
        stale == {c.id : c \in run.snap} \ run.matched
    IN
    /\ run.pc = "upsert" /\ run.todo = {}
    /\ Goto(r, [run EXCEPT !.pc = "purge", !.doomed = stale])
    /\ UNCHANGED <<subs, remote, conn, nextId, bal, budget, serial>>

(* staleConnects: the rows that were read and that no entry matched.       *)
SelectStale(r) ==
    LET run   == runs[r]
        stale == {c.id : c \in run.snap} \ run.matched
    IN
    /\ run.pc = "upsert" /\ run.todo = {}
    /\ Goto(r, [run EXCEPT !.pc = "purge", !.doomed = stale, !.purge = stale])
    /\ UNCHANGED <<subs, remote, conn, nextId, bal, budget, serial>>

(* SubscriptionsService.remove: connectsToDelete.                          *)
SelectAll(r) ==
    LET run == runs[r] IN
    /\ run.kind = "removeSubscription" /\ run.pc = "read"
    /\ Goto(r, [run EXCEPT !.pc = "purge", !.purge = RowsOf(run.sub)])
    /\ UNCHANGED <<subs, remote, conn, nextId, bal, budget, serial>>

-----------------------------------------------------------------------------
(* removeConnectFromAllBalancers(x), called for one doomed id after        *)
(* another.  FindAffected is its findMany, which reads the pools whole.    *)
FindAffected(r, x) ==
    LET run == runs[r]
        aff == {b \in DOMAIN bal : x \in bal[b]}
    IN
    /\ run.pc = "purge" /\ x \in run.purge
    /\ Goto(r, [run EXCEPT !.purge = @ \ {x}, !.cur = x,
                           !.aff = {[id |-> b, pool |-> bal[b]] : b \in aff},
                           !.pc = IF aff = {} THEN "purge" ELSE "detach"])
    /\ UNCHANGED <<subs, remote, conn, nextId, bal, budget, serial>>

(* One affected balancer: what was read, less x, is written back, or the   *)
(* balancer is deleted when nothing remains.  A missing balancer throws.   *)
Detach(r, a) ==
    LET run  == runs[r]
        pool == a.pool \ {run.cur}
        rest == run.aff \ {a}
    IN
    /\ run.pc = "detach" /\ a \in run.aff
    /\ bal' = IF a.id \notin DOMAIN bal THEN bal
              ELSE IF pool = {} THEN Restrict(bal, DOMAIN bal \ {a.id})
              ELSE [bal EXCEPT ![a.id] = pool]
    /\ IF a.id \notin DOMAIN bal
       THEN End(r)
       ELSE Goto(r, [run EXCEPT !.aff = rest,
                                !.pc = IF rest = {} THEN "purge" ELSE "detach"])
    /\ UNCHANGED <<subs, remote, conn, nextId, budget, serial>>

(* A slip: deleteMany({ subscriptionId, id: { notIn: matchedIds } }).      *)
RowsNotMatched(run) ==
    IF run.kind = "removeConnect" THEN run.doomed ELSE RowsOf(run.sub) \ run.matched

(* The rows go: deleteMany by id, deleteMany by subscriptionId (whatever   *)
(* rows it has by now), or delete by id.                                   *)
RowsToDelete(run) ==
    IF run.kind = "removeSubscription" THEN RowsOf(run.sub) ELSE run.doomed

DeleteRows(r) ==
    LET run == runs[r] IN
    /\ run.pc = "purge" /\ run.purge = {}
    /\ conn' = Restrict(conn, DOMAIN conn \ RowsToDelete(run))
    /\ IF run.kind = "removeConnect"
       THEN End(r)
       ELSE Goto(r, [run EXCEPT !.pc = "finish"])
    /\ UNCHANGED <<subs, remote, nextId, bal, budget, serial>>

(* The last write: subscription.update, which throws when the subscription *)
(* is gone, or subscription.delete.                                        *)
Finish(r) ==
    LET run == runs[r] IN
    /\ run.pc = "finish"
    /\ subs' = IF run.kind = "removeSubscription" THEN subs \ {run.sub} ELSE subs
    /\ End(r)
    /\ UNCHANGED <<remote, conn, nextId, bal, budget, serial>>

(* HTTP error, time-out, unreadable answer, failing database call, or the  *)
(* end of the process: the invocation stops where it is.                   *)
Throw(r) ==
    /\ r \in DOMAIN runs
    /\ budget > 0
    /\ budget' = budget - 1
    /\ End(r)
    /\ UNCHANGED <<subs, remote, conn, nextId, bal, serial>>

-----------------------------------------------------------------------------
(* The environment.                                                        *)
ChangeFeed(s) ==
    /\ budget > 0
    /\ budget' = budget - 1
    /\ \E list \in Lists : remote' = [remote EXCEPT ![s] = list]
    /\ UNCHANGED <<subs, conn, nextId, bal, runs, serial>>

(* BalancersService.create and update: a pool of connects that exist.      *)
CreateBalancer(pool) ==
    /\ pool # {} /\ pool \subseteq DOMAIN conn
    /\ bal' = [b \in DOMAIN bal \cup {nextId} |->
                    IF b = nextId THEN pool ELSE bal[b]]
    /\ nextId' = nextId + 1
    /\ OperatorWrite
    /\ UNCHANGED <<subs, remote, conn>>

(* A slip: the pool that remains is not checked.                           *)
UpdateUnchecked(b, requested) ==
    /\ b \in DOMAIN bal
    /\ bal' = [bal EXCEPT ![b] = requested \cap DOMAIN conn]
    /\ OperatorWrite
    /\ UNCHANGED <<subs, remote, conn, nextId>>

UpdateBalancer(b, requested) ==
    LET pool == requested \cap DOMAIN conn IN
    /\ b \in DOMAIN bal
    /\ pool # {}
    /\ bal' = [bal EXCEPT ![b] = pool]
    /\ OperatorWrite
    /\ UNCHANGED <<subs, remote, conn, nextId>>

RemoveBalancer(b) ==
    /\ b \in DOMAIN bal
    /\ bal' = Restrict(bal, DOMAIN bal \ {b})
    /\ OperatorWrite
    /\ UNCHANGED <<subs, remote, conn, nextId>>

-----------------------------------------------------------------------------
Upsert(r) == \E u \in runs[r].todo :
                \/ CreateRow(r, u)
                \/ \E c \in runs[r].snap : UpdateRow(r, u, c)

Purge(r) == \/ \E x \in runs[r].purge : FindAffected(r, x)
            \/ \E a \in runs[r].aff : Detach(r, a)

(* What an active invocation does when the event loop gets to it.          *)
Step(r) ==
    /\ r \in DOMAIN runs
    /\ \/ Receive(r) \/ ReadExisting(r) \/ ReadMaxSortOrder(r) \/ Upsert(r)
       \/ SelectStale(r) \/ SelectAll(r) \/ Purge(r) \/ DeleteRows(r) \/ Finish(r)

Operator ==
    \/ \E r \in Runs, s \in Subs : BeginRemoveSubscription(r, s)
    \/ \E r \in Runs, i \in DOMAIN conn : BeginRemoveConnect(r, i)
    \/ \E pool \in SUBSET DOMAIN conn : CreateBalancer(pool)
    \/ \E b \in DOMAIN bal, pool \in SUBSET DOMAIN conn : UpdateBalancer(b, pool)
    \/ \E b \in DOMAIN bal : RemoveBalancer(b)

Next ==
    \/ \E r \in Runs : Step(r) \/ Throw(r)
    \/ \E r \in Runs, s \in Subs : BeginSync(r, s)
    \/ \E s \in Subs : ChangeFeed(s)
    \/ Operator

Spec == Init /\ [][Next]_vars

(* An active invocation is eventually resumed, and the scheduler keeps     *)
(* starting a synchronisation of every subscription.  Nothing is assumed   *)
(* of the operator, of the feed, or of failures.                           *)
FairSpec ==
    /\ Spec
    /\ \A r \in Runs : WF_vars(Step(r))
    /\ \A s \in Subs : WF_vars(\E r \in Runs : BeginSync(r, s))

-----------------------------------------------------------------------------
Kinds == {"sync", "removeSubscription", "removeConnect"}
Places == {"fetch", "read", "max", "upsert", "purge", "detach", "finish"}

Row == [sub: Subs, raw: Uris, identityKey: {Identity[u] : u \in Uris},
        sortOrder: Nat]

UsedIds == {i \in Nat : 0 < i /\ i < nextId}

Table(f, S) == f \in [DOMAIN f -> S] /\ DOMAIN f \subseteq UsedIds

SnapRow == [id: UsedIds, raw: Uris, identityKey: {Identity[u] : u \in Uris},
            sortOrder: Nat]

Run == [kind: Kinds, pc: Places, sub: Subs, list: Lists \cup {<<>>},
        snap: SUBSET SnapRow, next: Nat, todo: SUBSET Uris,
        matched: SUBSET UsedIds, doomed: SUBSET UsedIds, purge: SUBSET UsedIds,
        cur: Nat, aff: SUBSET [id: UsedIds, pool: SUBSET UsedIds],
        solo: BOOLEAN]

(* The types of the collections and of the local variables; every stored   *)
(* reference is to an id that was handed out.                              *)
Types ==
    /\ subs \subseteq Subs
    /\ remote \in [Subs -> Lists]
    /\ nextId \in Nat \ {0}
    /\ Table(conn, Row)
    /\ Table(bal, SUBSET UsedIds)
    /\ runs \in [DOMAIN runs -> Run] /\ DOMAIN runs \subseteq Runs
    /\ budget \in Nat
    /\ serial \in BOOLEAN

(* removeConnectFromAllBalancers deletes a balancer rather than leave it   *)
(* without a pool, however its reads and writes interleave with others.    *)
PoolNeverEmpty == \A b \in DOMAIN bal : bal[b] # {}

(* Well-formed collections: what the types say, and no empty pool.         *)
TypeOK == Types /\ PoolNeverEmpty

(* The rows of s are exactly the given entries, one row each.              *)
Mirrors(s, entries) ==
    /\ {conn[i].raw : i \in RowsOf(s)} = entries
    /\ \A i, j \in RowsOf(s) : conn[i].raw = conn[j].raw => i = j

(* A synchronisation nothing ran in parallel with leaves exactly one row   *)
(* per listed node, whatever earlier runs, interleaved or cut short, left  *)
(* behind (upsert loop and staleConnects of fetchConnects).                *)
SoloSyncMirrors ==
    \A r \in DOMAIN runs : LET run == runs[r] IN
        run.kind = "sync" /\ run.pc = "finish" /\ run.solo
            => Mirrors(run.sub, Incoming(run.list))

(* A row goes as stale only if every listed entry that would have matched  *)
(* it went to an older-placed row, which in a solo run is there to stay:   *)
(* an operator's names and groups are lost only with the node itself or    *)
(* with a duplicate (poolSorted.find and matchedIds of fetchConnects).     *)
StaleIsUnlistedOrDuplicate ==
    \A r \in DOMAIN runs : LET run == runs[r] IN
        run.kind = "sync" /\ run.pc \in {"purge", "detach", "finish"}
            => \A c \in run.snap, u \in Incoming(run.list) :
                  c.id \in run.doomed /\ Matches(c, u) =>
                    \E d \in run.snap :
                        /\ d.id \in run.matched
                        /\ Before(d, c) /\ Matches(d, u)
                        /\ run.solo => d.id \in DOMAIN conn /\ conn[d.id].raw = u

(* A step removes a row only as its invocation is entitled to: a           *)
(* synchronisation only rows of its own subscription that it read and did  *)
(* not match, and none after an empty answer; a removal only its own.      *)
(* Rows other invocations created meanwhile are left alone.                *)
MayDelete(run, i) ==
    CASE run.kind = "sync" ->
            /\ i \in {c.id : c \in run.snap} \ run.matched
            /\ conn[i].sub = run.sub
            /\ run.list # <<>>
      [] run.kind = "removeSubscription" -> conn[i].sub = run.sub
      [] run.kind = "removeConnect" -> run.doomed = {i}

OnlyOwnRowsDeleted ==
    [][\A i \in DOMAIN conn \ DOMAIN conn' :
          \E r \in DOMAIN runs \cap Runs :
             /\ runs[r].pc = "purge" /\ runs[r].purge = {}
             /\ MayDelete(runs[r], i)]_vars

(* sortOrder is unique over all subscriptions and no reference dangles:    *)
(* pools name live rows, rows name live subscriptions.                     *)
UniqueSortOrder ==
    \A i, j \in DOMAIN conn : conn[i].sortOrder = conn[j].sortOrder => i = j

NoDanglingReference ==
    /\ \A b \in DOMAIN bal : bal[b] \subseteq DOMAIN conn
    /\ \A i \in DOMAIN conn : conn[i].sub \in subs

(* As long as invocations and operator's writes have not overlapped, both  *)
(* hold in every state, also between the steps of a deletion and after an  *)
(* invocation stopped half-way (globalMaxAgg; purge before deleteMany).    *)
SerialIntegrity == serial => UniqueSortOrder /\ NoDanglingReference

(* When the feed has stopped changing, scheduled runs bring the table of   *)
(* every live subscription to the list, duplicates of overlapping runs     *)
(* included.  A feed that serves nothing leaves the table as it is.        *)
Converges ==
    \A s \in Subs :
        <>[](s \in subs /\ remote[s] # <<>> => Mirrors(s, Incoming(remote[s])))
=============================================================================
