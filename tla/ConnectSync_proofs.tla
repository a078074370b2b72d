------------------------- MODULE ConnectSync_proofs -------------------------
(***************************************************************************)
(* Theorems about synchronisation, which finds the rows of the entries of  *)
(* a feed again by their keys.                                             *)
(*                                                                         *)
(* Of ConnectSync, for every set of subscriptions, invocations and remote  *)
(* entries: what every interleaving keeps (types, pools that are not       *)
(* empty, which rows may go), what a synchronisation that nothing overlaps *)
(* with makes of the table, and what invocations that take turns keep      *)
(* between the tables.                                                     *)
(*                                                                         *)
(* Of ConnectIdentity, which says what the keys are made of, for any       *)
(* words, ports and URIs: types; that two spellings with one full key have *)
(* one key for the removal of duplicates; and that no sequence of          *)
(* respellings and renewals costs a node its row, or gives it to another.  *)
(* The argument: without its spelling, a query is what the reference       *)
(* (NodeOf, CredentialsOf) sees of it and a rest that never changes, for   *)
(* schemes whose keys have that rest.                                      *)
(***************************************************************************)
EXTENDS ConnectSync, ConnectIdentity, TLAPS

-----------------------------------------------------------------------------
(* Sequences and tables.                                                   *)

(* The Map built from a response only holds entries of the response.       *)
LEMMA IncomingUris ==
    ASSUME NEW list \in Seq(Uris)
    PROVE  Incoming(list) \subseteq Uris
  BY DEF Incoming

(* What an invocation may hold is still well typed after ids were handed   *)
(* out.                                                                    *)
LEMMA MoreIds ==
    ASSUME nextId \in Nat, nextId' \in Nat, nextId' >= nextId
    PROVE  /\ UsedIds \subseteq UsedIds'
           /\ Run \subseteq Run'
           /\ \A f, S : Table(f, S) => DOMAIN f \subseteq UsedIds'
  <1>1. UsedIds \subseteq UsedIds'
    <2> SUFFICES ASSUME NEW i \in UsedIds
                 PROVE  i \in UsedIds'
      OBVIOUS
    <2> QED
      BY DEF UsedIds
  <1>2. SnapRow \subseteq SnapRow'
    BY <1>1 DEF SnapRow
  <1>3. [id: UsedIds, pool: SUBSET UsedIds] \subseteq [id: UsedIds, pool: SUBSET UsedIds]'
    BY <1>1
  <1>4. Run \subseteq Run'
    BY <1>1, <1>2, <1>3 DEF Run
  <1> QED
    BY <1>1, <1>4 DEF Table

-----------------------------------------------------------------------------
(* The slots of the invocations.                                           *)
RunsOK == runs \in [DOMAIN runs -> Run] /\ DOMAIN runs \subseteq Runs

LEMMA GotoKeepsRunsOK ==
    ASSUME RunsOK, NEW r \in DOMAIN runs, NEW run, run \in Run', Goto(r, run),
           Run \subseteq Run'
    PROVE  RunsOK'
  BY DEF RunsOK, Goto

LEMMA EndKeepsRunsOK ==
    ASSUME RunsOK, NEW r, End(r), Run \subseteq Run'
    PROVE  RunsOK'
  BY DEF RunsOK, End, Restrict

LEMMA BeginKeepsRunsOK ==
    ASSUME RunsOK, NEW r, NEW run, run \in Run, Begin(r, run), Run' = Run
    PROVE  RunsOK'
  <1>1. ASSUME NEW q \in DOMAIN runs
        PROVE  [runs[q] EXCEPT !.solo = FALSE] \in Run
    BY DEF RunsOK, Run
  <1> QED
    BY <1>1 DEF RunsOK, Begin

LEMMA OperatorWriteKeepsRunsOK ==
    ASSUME RunsOK, OperatorWrite, Run \subseteq Run'
    PROVE  RunsOK'
  <1>1. ASSUME NEW q \in DOMAIN runs
        PROVE  [runs[q] EXCEPT !.solo = FALSE] \in Run
    BY ZenonT(30) DEF RunsOK, Run
  <1> QED
    BY <1>1 DEF RunsOK, OperatorWrite

-----------------------------------------------------------------------------
(* The same, for the steps of an invocation that hand out no id: what the  *)
(* collections hold is untouched, so only the new local variables matter.  *)
LEMMA LocalStep ==
    ASSUME Types, UNCHANGED <<subs, remote, conn, nextId, bal, budget, serial>>,
           NEW r \in DOMAIN runs,
           \/ End(r)
           \/ \E run \in Run : Goto(r, run)
    PROVE  Types'
  <1>1. UsedIds' = UsedIds /\ Run' = Run
    BY DEF UsedIds, Run, SnapRow, Row
  <1>2. RunsOK'
    BY <1>1, GotoKeepsRunsOK, EndKeepsRunsOK DEF Types, RunsOK
  <1> QED
    BY <1>1, <1>2 DEF Types, RunsOK, Table, Row

LEMMA BeginTypes ==
    ASSUME Types, NEW r \in Runs,
           \/ \E s \in Subs : BeginSync(r, s) \/ BeginRemoveSubscription(r, s)
           \/ \E i \in DOMAIN conn : BeginRemoveConnect(r, i)
    PROVE  Types'
  <1>1. ASSUME NEW kind \in Kinds, NEW s \in Subs
        PROVE  NewRun(kind, s) \in Run
    BY DEF NewRun, Run, Places
  <1>2. PICK run \in Run : Begin(r, run) /\ budget' \in Nat
    <2>1. CASE \E s \in Subs : BeginSync(r, s)
      <3>1. PICK s \in Subs : BeginSync(r, s)
        BY <2>1
      <3>2. [NewRun("sync", s) EXCEPT !.pc = "fetch"] \in Run
        BY <1>1 DEF Run, Kinds, Places
      <3> QED
        BY <3>1, <3>2 DEF BeginSync, Types
    <2>2. CASE \E s \in Subs : BeginRemoveSubscription(r, s)
      <3>1. PICK s \in Subs : BeginRemoveSubscription(r, s)
        BY <2>2
      <3>2. [NewRun("removeSubscription", s) EXCEPT !.pc = "read"] \in Run
        BY <1>1 DEF Run, Kinds, Places
      <3> QED
        BY <3>1, <3>2 DEF BeginRemoveSubscription, Types
    <2>3. CASE \E i \in DOMAIN conn : BeginRemoveConnect(r, i)
      <3>1. PICK i \in DOMAIN conn : BeginRemoveConnect(r, i)
        BY <2>3
      <3>2. i \in UsedIds /\ conn[i].sub \in Subs
        BY DEF Types, Table, Row
      <3>3. [NewRun("removeConnect", conn[i].sub) EXCEPT !.doomed = {i}, !.purge = {i}]
                \in Run
        <4>1. NewRun("removeConnect", conn[i].sub) \in Run
          BY <1>1, <3>2 DEF Kinds
        <4>2. \A run \in Run : [run EXCEPT !.doomed = {i}, !.purge = {i}] \in Run
          BY <3>2 DEF Run
        <4> QED
          BY <4>1, <4>2
      <3> QED
        <4>1. budget \in Nat /\ budget > 0 /\ budget' = budget - 1
          BY <3>1 DEF BeginRemoveConnect, Types
        <4>2. budget' \in Nat
          BY <4>1
        <4> QED
          BY <3>1, <3>3, <4>2 DEF BeginRemoveConnect
    <2> QED
      BY <2>1, <2>2, <2>3
  <1>3. UsedIds' = UsedIds /\ Run' = Run
    BY <1>2 DEF Begin, UsedIds, Run, SnapRow, Row
  <1>4. RunsOK'
    BY <1>2, <1>3, BeginKeepsRunsOK DEF Types, RunsOK
  <1> QED
    BY <1>2, <1>3, <1>4 DEF Types, RunsOK, Begin, Table, Row

LEMMA ReadTypes ==
    ASSUME Types, NEW r \in DOMAIN runs,
           Receive(r) \/ ReadExisting(r) \/ ReadMaxSortOrder(r) \/ SelectStale(r)
                      \/ SelectAll(r)
    PROVE  Types'
  <1> DEFINE run == runs[r]
  <1>0. run \in Run /\ UNCHANGED <<subs, remote, conn, nextId, bal, budget, serial>>
    BY DEF Types, Receive, ReadExisting, ReadMaxSortOrder, SelectStale, SelectAll
  <1>1. CASE Receive(r)
    <2>1. [run EXCEPT !.pc = "read", !.list = remote[run.sub]] \in Run
      BY <1>0 DEF Types, Run, Places
    <2> QED
      BY <1>0, <1>1, <2>1, LocalStep DEF Receive
  <1>2. CASE ReadExisting(r)
    <2>1. \A i \in RowsOf(run.sub) : Read(i) \in SnapRow
      BY DEF Types, Table, RowsOf, Read, Row, SnapRow
    <2>2. Incoming(run.list) \subseteq Uris
      <3>1. <<>> \in Seq(Uris)
        OBVIOUS
      <3>2. run.list \in Seq(Uris)
        BY <1>0, <3>1, UrisAssumption DEF Run
      <3> QED
        BY <3>2, IncomingUris
    <2>3. [run EXCEPT !.pc = "max", !.snap = {Read(i) : i \in RowsOf(run.sub)},
                      !.todo = Incoming(run.list)] \in Run
      <3>1. \A snap \in SUBSET SnapRow, todo \in SUBSET Uris :
               [run EXCEPT !.pc = "max", !.snap = snap, !.todo = todo] \in Run
        BY <1>0 DEF Run, Places
      <3>2. {Read(i) : i \in RowsOf(run.sub)} \in SUBSET SnapRow
        BY <2>1
      <3> QED
        BY <2>2, <3>1, <3>2
    <2> QED
      BY <1>0, <1>2, <2>3, LocalStep DEF ReadExisting
  <1>3. CASE ReadMaxSortOrder(r)
    <2>1. PICK m \in {0} \cup {conn[i].sortOrder : i \in DOMAIN conn} :
             Goto(r, [run EXCEPT !.pc = "upsert", !.next = m])
      BY <1>3 DEF ReadMaxSortOrder
    <2>2. m \in Nat
      BY DEF Types, Table, Row
    <2>3. [run EXCEPT !.pc = "upsert", !.next = m] \in Run
      BY <1>0, <2>2 DEF Run, Places
    <2> QED
      BY <1>0, <2>1, <2>3, LocalStep
  <1>4. CASE SelectStale(r)
    <2> DEFINE stale == {c.id : c \in run.snap} \ run.matched
    <2>1. stale \subseteq UsedIds
      BY <1>0 DEF Run, SnapRow
    <2>2. [run EXCEPT !.pc = "purge", !.doomed = stale, !.purge = stale] \in Run
      BY <1>0, <2>1 DEF Run, Places
    <2> QED
      BY <1>0, <1>4, <2>2, LocalStep DEF SelectStale
  <1>5. CASE SelectAll(r)
    <2>1. RowsOf(run.sub) \subseteq UsedIds
      BY DEF Types, Table, RowsOf
    <2>2. [run EXCEPT !.pc = "purge", !.purge = RowsOf(run.sub)] \in Run
      BY <1>0, <2>1 DEF Run, Places
    <2> QED
      BY <1>0, <1>5, <2>2, LocalStep DEF SelectAll
  <1> QED
    BY <1>1, <1>2, <1>3, <1>4, <1>5

(* CreateRow is the only step of an invocation that hands out an id.       *)
LEMMA CreateRowTypes ==
    ASSUME Types, NEW r \in DOMAIN runs, NEW u \in Uris, CreateRow(r, u)
    PROVE  Types'
  <1> DEFINE run == runs[r]
             row == [sub |-> run.sub, raw |-> u, identityKey |-> Identity[u],
                     sortOrder |-> run.next + 1]
  <1>1. /\ run \in Run /\ nextId \in Nat /\ 0 < nextId
        /\ nextId' = nextId + 1
        /\ UNCHANGED <<subs, remote, bal, budget, serial>>
    BY DEF Types, CreateRow
  <1>2. /\ UsedIds \subseteq UsedIds' /\ nextId \in UsedIds'
        /\ Run \subseteq Run'
    BY <1>1, MoreIds DEF UsedIds
  <1>3. row \in Row
    BY <1>1 DEF Run, Row
  <1>4. Table(conn, Row)'
    <2>1. conn' = [i \in DOMAIN conn \cup {nextId} |->
                      IF i = nextId THEN row ELSE conn[i]]
      BY DEF CreateRow
    <2> QED
      BY <1>2, <1>3, <2>1 DEF Types, Table, Row
  <1>5. Table(bal, SUBSET UsedIds)'
    BY <1>1, <1>2 DEF Types, Table
  <1>6. RunsOK'
    <2>1. [run EXCEPT !.next = @ + 1, !.todo = @ \ {u}] \in Run
      <3>1. run.next + 1 \in Nat /\ run.todo \ {u} \in SUBSET Uris
        BY <1>1 DEF Run
      <3>2. \A n \in Nat, todo \in SUBSET Uris :
               [run EXCEPT !.next = n, !.todo = todo] \in Run
        BY <1>1 DEF Run
      <3> QED
        BY <3>1, <3>2
    <2> QED
      BY <1>2, <2>1, GotoKeepsRunsOK DEF Types, RunsOK, CreateRow
  <1> QED
    BY <1>1, <1>4, <1>5, <1>6 DEF Types, RunsOK

LEMMA UpdateRowTypes ==
    ASSUME Types, NEW r \in DOMAIN runs, NEW u \in Uris, NEW c, UpdateRow(r, u, c)
    PROVE  Types'
  <1> DEFINE run == runs[r]
  <1>1. /\ run \in Run
        /\ UNCHANGED <<subs, remote, nextId, bal, budget, serial>>
        /\ c \in run.snap
    BY DEF Types, UpdateRow, Candidates
  <1>2. UsedIds' = UsedIds /\ Run' = Run
    BY <1>1 DEF UsedIds, Run, SnapRow, Row
  <1>3. Table(conn, Row)'
    <2>1. \A row \in Row : \A raw \in Uris, key \in {Identity[w] : w \in Uris} :
             [row EXCEPT !.raw = raw, !.identityKey = key] \in Row
      BY DEF Row
    <2>2. DOMAIN conn' = DOMAIN conn
      BY DEF UpdateRow
    <2>3. ASSUME NEW i \in DOMAIN conn
          PROVE  conn'[i] \in Row
      <3>1. conn[i] \in Row /\ conn[i].raw \in Uris
                            /\ conn[i].identityKey \in {Identity[w] : w \in Uris}
        BY DEF Types, Table, Row
      <3>2. CASE conn'[i] = conn[i]
        BY <3>1, <3>2
      <3>3. CASE conn'[i] = [conn[i] EXCEPT
                    !.raw = IF c.raw = u THEN @ ELSE u,
                    !.identityKey = IF c.identityKey = Identity[u]
                                    THEN @ ELSE Identity[u]]
        <4> DEFINE raw == IF c.raw = u THEN conn[i].raw ELSE u
                   key == IF c.identityKey = Identity[u] THEN conn[i].identityKey
                                                         ELSE Identity[u]
        <4>1. raw \in Uris /\ key \in {Identity[w] : w \in Uris}
          BY <3>1
        <4>2. conn'[i] = [conn[i] EXCEPT !.raw = raw, !.identityKey = key]
          BY <3>3
        <4> HIDE DEF raw, key
        <4>3. [conn[i] EXCEPT !.raw = raw, !.identityKey = key] \in Row
          BY <2>1, <3>1, <4>1
        <4> QED
          BY <4>2, <4>3
      <3> QED
        BY <3>2, <3>3 DEF UpdateRow
    <2>4. conn' = [i \in DOMAIN conn |-> conn'[i]]
      BY DEF UpdateRow
    <2> QED
      BY <1>2, <2>2, <2>3, <2>4 DEF Types, Table, Row
  <1>4. RunsOK'
    <2>1. c.id \in UsedIds
      BY <1>1 DEF Run, SnapRow
    <2>2. [run EXCEPT !.todo = @ \ {u}, !.matched = @ \cup {c.id}] \in Run
      BY <1>1, <2>1 DEF Run
    <2> QED
      BY <1>2, <2>2, GotoKeepsRunsOK, EndKeepsRunsOK DEF Types, RunsOK, UpdateRow
  <1> QED
    BY <1>1, <1>2, <1>3, <1>4 DEF Types, RunsOK, Table

LEMMA PurgeTypes ==
    ASSUME Types, NEW r \in DOMAIN runs,
           \/ \E x \in runs[r].purge : FindAffected(r, x)
           \/ \E a \in runs[r].aff : Detach(r, a)
    PROVE  Types'
  <1> DEFINE run == runs[r]
  <1>0. run \in Run
    BY DEF Types
  <1>1. ASSUME NEW x \in run.purge, FindAffected(r, x)
        PROVE  Types'
    <2> DEFINE ids == {b \in DOMAIN bal : x \in bal[b]}
               aff == {[id |-> b, pool |-> bal[b]] : b \in ids}
               pc == IF ids = {} THEN "purge" ELSE "detach"
    <2>1. aff \in SUBSET [id: UsedIds, pool: SUBSET UsedIds]
      BY DEF Types, Table
    <2>2. x \in Nat /\ run.purge \ {x} \in SUBSET UsedIds /\ pc \in Places
      BY <1>0 DEF Run, UsedIds, Places
    <2>3. Goto(r, [run EXCEPT !.purge = @ \ {x}, !.cur = x, !.aff = aff, !.pc = pc])
      BY <1>1 DEF FindAffected
    <2> HIDE DEF aff, pc
    <2>4. [run EXCEPT !.purge = @ \ {x}, !.cur = x, !.aff = aff, !.pc = pc] \in Run
      BY <1>0, <2>1, <2>2 DEF Run
    <2> QED
      BY <1>1, <2>3, <2>4, LocalStep DEF FindAffected
  <1>2. ASSUME NEW a \in run.aff, Detach(r, a)
        PROVE  Types'
    <2> DEFINE pool == a.pool \ {run.cur}
               rest == run.aff \ {a}
    <2>1. a.id \in UsedIds /\ pool \subseteq UsedIds
      BY <1>0 DEF Run
    <2>2. UsedIds' = UsedIds /\ Run' = Run
          /\ UNCHANGED <<subs, remote, conn, nextId, budget, serial>>
      BY <1>2 DEF Detach, UsedIds, Run, SnapRow, Row
    <2>3. Table(bal, SUBSET UsedIds)'
      BY <1>2, <2>1, <2>2 DEF Detach, Types, Table, Restrict
    <2>4. RunsOK'
      <3>1. \A pc \in Places : [run EXCEPT !.aff = rest, !.pc = pc] \in Run
        BY <1>0 DEF Run
      <3>2. End(r) \/ \E pc \in Places : Goto(r, [run EXCEPT !.aff = rest, !.pc = pc])
        BY <1>2 DEF Detach, Places
      <3> QED
        BY <2>2, <3>1, <3>2, GotoKeepsRunsOK, EndKeepsRunsOK DEF Types, RunsOK
    <2> QED
      BY <2>2, <2>3, <2>4 DEF Types, RunsOK, Table, Row
  <1> QED
    BY <1>1, <1>2

LEMMA LastStepTypes ==
    ASSUME Types, NEW r \in DOMAIN runs, DeleteRows(r) \/ Finish(r) \/ Throw(r)
    PROVE  Types'
  <1> DEFINE run == runs[r]
  <1>1. /\ run \in Run
        /\ UNCHANGED <<remote, nextId, bal, serial>>
        /\ UsedIds' = UsedIds /\ Run' = Run
    BY DEF Types, DeleteRows, Finish, Throw, UsedIds, Run, SnapRow, Row
  <1>2. RunsOK'
    <2>1. [run EXCEPT !.pc = "finish"] \in Run
      BY <1>1 DEF Run, Places
    <2>2. End(r) \/ Goto(r, [run EXCEPT !.pc = "finish"])
      BY DEF DeleteRows, Finish, Throw
    <2> QED
      BY <1>1, <2>1, <2>2, GotoKeepsRunsOK, EndKeepsRunsOK DEF Types, RunsOK
  <1>3. Table(conn, Row)' /\ Table(bal, SUBSET UsedIds)'
    BY <1>1 DEF Types, Table, DeleteRows, Finish, Throw, Restrict, Row
  <1>4. subs' \subseteq Subs /\ budget' \in Nat
    BY DEF Types, DeleteRows, Finish, Throw
  <1> QED
    BY <1>1, <1>2, <1>3, <1>4 DEF Types, RunsOK

LEMMA EnvironmentTypes ==
    ASSUME Types,
           \/ \E s \in Subs : ChangeFeed(s)
           \/ \E pool \in SUBSET DOMAIN conn : CreateBalancer(pool)
           \/ \E b \in DOMAIN bal, pool \in SUBSET DOMAIN conn : UpdateBalancer(b, pool)
           \/ \E b \in DOMAIN bal : RemoveBalancer(b)
    PROVE  Types'
  <1>1. CASE \E s \in Subs : ChangeFeed(s)
    <2>1. UsedIds' = UsedIds /\ Run' = Run
      BY <1>1 DEF ChangeFeed, UsedIds, Run, SnapRow, Row
    <2> QED
      BY <1>1, <2>1 DEF ChangeFeed, Types, Table
  <1>2. CASE \E pool \in SUBSET DOMAIN conn : CreateBalancer(pool)
    <2>1. PICK pool \in SUBSET DOMAIN conn : CreateBalancer(pool)
      BY <1>2
    <2>2. nextId \in Nat /\ nextId' = nextId + 1 /\ 0 < nextId
      BY <2>1 DEF CreateBalancer, Types
    <2>3. UsedIds \subseteq UsedIds' /\ nextId \in UsedIds' /\ Run \subseteq Run'
      BY <2>2, MoreIds DEF UsedIds
    <2>4. RunsOK'
      BY <2>1, <2>3, OperatorWriteKeepsRunsOK DEF CreateBalancer, Types, RunsOK
    <2>5. Table(bal, SUBSET UsedIds)' /\ Table(conn, Row)'
      BY <2>1, <2>3 DEF CreateBalancer, Types, Table, Row
    <2> QED
      BY <2>1, <2>2, <2>4, <2>5 DEF CreateBalancer, OperatorWrite, Types, RunsOK
  <1>3. CASE \E b \in DOMAIN bal, pool \in SUBSET DOMAIN conn : UpdateBalancer(b, pool)
    <2>1. PICK b \in DOMAIN bal, pool \in SUBSET DOMAIN conn : UpdateBalancer(b, pool)
      BY <1>3
    <2>2. UsedIds' = UsedIds /\ Run' = Run
      BY <2>1 DEF UpdateBalancer, UsedIds, Run, SnapRow, Row
    <2>3. RunsOK'
      BY <2>1, <2>2, OperatorWriteKeepsRunsOK DEF UpdateBalancer, Types, RunsOK
    <2>4. Table(bal, SUBSET UsedIds)'
      BY <2>1, <2>2 DEF UpdateBalancer, Types, Table
    <2> QED
      BY <2>1, <2>2, <2>3, <2>4 DEF UpdateBalancer, OperatorWrite, Types, RunsOK, Table, Row
  <1>4. CASE \E b \in DOMAIN bal : RemoveBalancer(b)
    <2>1. PICK b \in DOMAIN bal : RemoveBalancer(b)
      BY <1>4
    <2>2. UsedIds' = UsedIds /\ Run' = Run
      BY <2>1 DEF RemoveBalancer, UsedIds, Run, SnapRow, Row
    <2>3. RunsOK'
      BY <2>1, <2>2, OperatorWriteKeepsRunsOK DEF RemoveBalancer, Types, RunsOK
    <2>4. Table(bal, SUBSET UsedIds)'
      BY <2>1, <2>2 DEF RemoveBalancer, Types, Table, Restrict
    <2>5. Table(conn, Row)'
      BY <2>1, <2>2 DEF RemoveBalancer, Types, Table, Row
    <2>6. budget' \in Nat /\ serial' \in BOOLEAN
      BY <2>1 DEF RemoveBalancer, OperatorWrite, Types
    <2> QED
      BY <2>1, <2>3, <2>4, <2>5, <2>6 DEF RemoveBalancer, Types, RunsOK
  <1> QED
    BY <1>1, <1>2, <1>3, <1>4

(* Which lemma is about which step.                                        *)
LEMMA TypeNext == Types /\ [Next]_vars => Types'
  <1> SUFFICES ASSUME Types, [Next]_vars
               PROVE  Types'
    OBVIOUS
  <1>1. CASE \E r \in Runs : Step(r)
    <2>1. PICK r \in DOMAIN runs : Step(r)
      BY <1>1 DEF Step
    <2>2. CASE Upsert(r)
      <3>1. runs[r].todo \subseteq Uris
        BY DEF Types, Run
      <3> QED
        BY <2>2, <3>1, CreateRowTypes, UpdateRowTypes DEF Upsert
    <2>3. CASE Purge(r)
      BY <2>3, PurgeTypes DEF Purge
    <2>4. CASE DeleteRows(r) \/ Finish(r)
      BY <2>4, LastStepTypes
    <2> QED
      BY <2>1, <2>2, <2>3, <2>4, ReadTypes DEF Step
  <1>2. CASE \E r \in Runs : Throw(r)
    BY <1>2, LastStepTypes DEF Throw
  <1>3. CASE \/ \E r \in Runs, s \in Subs : BeginSync(r, s)
             \/ \E r \in Runs, s \in Subs : BeginRemoveSubscription(r, s)
             \/ \E r \in Runs, i \in DOMAIN conn : BeginRemoveConnect(r, i)
    BY <1>3, BeginTypes
  <1>4. CASE UNCHANGED vars
    <2>1. UsedIds' = UsedIds /\ Run' = Run /\ Row' = Row
      BY <1>4 DEF vars, UsedIds, Run, SnapRow, Row
    <2> QED
      BY <1>4, <2>1 DEF vars, Types, Table
  <1> QED
    BY <1>1, <1>2, <1>3, <1>4, EnvironmentTypes DEF Next, Operator

LEMMA TypeInit == Init => Types
  <1> SUFFICES ASSUME Init
               PROVE  Types
    OBVIOUS
  <1>1. Table(None, Row) /\ Table(None, SUBSET UsedIds)
    BY DEF None, Table
  <1>2. runs \in [DOMAIN runs -> Run] /\ DOMAIN runs \subseteq Runs
    BY DEF Init, None
  <1> QED
    BY <1>1, <1>2, UrisAssumption DEF Init, Types

(* Every reachable state is well typed, and every reference that is stored *)
(* in a pool or held by an invocation is an id that was handed out.        *)
THEOREM TypesCorrect == Spec => []Types
  BY TypeInit, TypeNext, PTL DEF Spec

-----------------------------------------------------------------------------
(* What an invocation holds, given the rows there are, entitles it to the  *)
(* deletion it will make.                                                  *)
SnapIds(run) == {c.id : c \in run.snap}

Entitled(run, rows) ==
    /\ run.kind = "removeConnect" =>
          /\ run.pc \in {"purge", "detach"}
          /\ \E i \in run.doomed : run.doomed = {i}
    /\ run.kind = "removeSubscription" => run.pc \notin {"fetch", "max", "upsert"}
    /\ run.kind = "sync" =>
          /\ \A c \in run.snap : c.id \in DOMAIN rows => rows[c.id].sub = run.sub
          /\ run.pc \notin {"fetch", "read"} /\ run.list = <<>> => run.snap = {}
          /\ run.pc \in {"purge", "detach", "finish"} =>
                run.doomed = SnapIds(run) \ run.matched

AllEntitled == \A r \in DOMAIN runs : Entitled(runs[r], conn)

(* No row moves to another subscription, and no id is used again.          *)
RowsKept ==
    \A i \in UsedIds : i \in DOMAIN conn' => i \in DOMAIN conn /\ conn'[i].sub = conn[i].sub

LEMMA EntitledKept ==
    ASSUME NEW run, NEW old, NEW new, Entitled(run, old),
           \A c \in run.snap : c.id \in DOMAIN new =>
                c.id \in DOMAIN old /\ new[c.id].sub = old[c.id].sub
    PROVE  Entitled(run, new)
  BY DEF Entitled

(* It suffices to look at the invocation that moves.                       *)
LEMMA EntitledRest ==
    ASSUME Types, AllEntitled, RowsKept,
           \/ UNCHANGED runs
           \/ OperatorWrite
           \/ \E r : End(r)
           \/ \E r \in DOMAIN runs : \E run : Goto(r, run) /\ Entitled(run, conn')
           \/ \E r, run : Begin(r, run) /\ Entitled(run, conn')
    PROVE  AllEntitled'
  <1>1. ASSUME NEW r \in DOMAIN runs
        PROVE  /\ Entitled(runs[r], conn')
               /\ Entitled([runs[r] EXCEPT !.solo = FALSE], conn')
    <2>1. runs[r] \in Run
      BY DEF Types
    <2>2. \A c \in runs[r].snap : c.id \in UsedIds
      BY <2>1 DEF Run, SnapRow
    <2>3. Entitled(runs[r], conn')
      BY <2>2, EntitledKept DEF AllEntitled, RowsKept
    <2>4. \A run \in Run : LET q == [run EXCEPT !.solo = FALSE] IN
             /\ q.kind = run.kind /\ q.pc = run.pc /\ q.sub = run.sub
             /\ q.list = run.list /\ q.snap = run.snap
             /\ q.matched = run.matched /\ q.doomed = run.doomed
      BY DEF Run
    <2> QED
      BY <2>1, <2>3, <2>4 DEF Entitled, SnapIds
  <1>2. CASE UNCHANGED runs
    BY <1>1, <1>2 DEF AllEntitled
  <1>3. CASE OperatorWrite
    BY <1>1, <1>3 DEF AllEntitled, OperatorWrite
  <1>4. CASE \E r : End(r)
    BY <1>1, <1>4 DEF AllEntitled, End, Restrict
  <1>5. CASE \E r \in DOMAIN runs : \E run : Goto(r, run) /\ Entitled(run, conn')
    BY <1>1, <1>5 DEF AllEntitled, Goto
  <1>6. CASE \E r, run : Begin(r, run) /\ Entitled(run, conn')
    BY <1>1, <1>6 DEF AllEntitled, Begin
  <1> QED
    BY <1>2, <1>3, <1>4, <1>5, <1>6

(* On its way through the pools an invocation keeps what it holds.         *)
LEMMA EntitledPurge ==
    ASSUME NEW run, NEW new, NEW rows, Entitled(run, rows),
           new.kind = run.kind, new.sub = run.sub, new.list = run.list,
           new.snap = run.snap, new.matched = run.matched, new.doomed = run.doomed,
           run.pc \in {"purge", "detach"},
           \/ new.pc \in {"purge", "detach"}
           \/ new.pc = "finish" /\ run.kind # "removeConnect"
    PROVE  Entitled(new, rows)
  BY DEF Entitled, SnapIds

LEMMA StepKeepsRows ==
    ASSUME Types, NEW r \in DOMAIN runs, Step(r)
    PROVE  RowsKept
  <1>1. ASSUME NEW u, CreateRow(r, u)
        PROVE  RowsKept
    BY <1>1 DEF CreateRow, RowsKept, UsedIds
  <1>2. ASSUME NEW u, NEW c, UpdateRow(r, u, c)
        PROVE  RowsKept
    <2>2. DOMAIN conn' = DOMAIN conn /\ \A i \in DOMAIN conn : conn[i] \in Row
      BY <1>2 DEF UpdateRow, Types, Table
    <2>3. ASSUME NEW i \in DOMAIN conn
          PROVE  conn'[i].sub = conn[i].sub
      <3> DEFINE raw == IF c.raw = u THEN conn[i].raw ELSE u
                 key == IF c.identityKey = Identity[u] THEN conn[i].identityKey
                                                       ELSE Identity[u]
      <3>1. \/ conn'[i] = conn[i]
            \/ conn'[i] = [conn[i] EXCEPT !.raw = raw, !.identityKey = key]
        BY <1>2 DEF UpdateRow
      <3> HIDE DEF raw, key
      <3>2. [conn[i] EXCEPT !.raw = raw, !.identityKey = key].sub = conn[i].sub
        BY <2>2 DEF Row
      <3> QED
        BY <3>1, <3>2
    <2> QED
      BY <2>2, <2>3 DEF RowsKept
  <1>3. ASSUME DeleteRows(r)
        PROVE  RowsKept
    BY <1>3 DEF DeleteRows, Restrict, RowsKept
  <1>4. ASSUME UNCHANGED conn
        PROVE  RowsKept
    BY <1>4 DEF RowsKept
  <1> QED
    BY <1>1, <1>2, <1>3, <1>4 DEF Step, Upsert, Purge, Receive, ReadExisting,
       ReadMaxSortOrder, SelectStale, SelectAll, FindAffected, Detach, Finish

LEMMA EntitledStep ==
    ASSUME Types, AllEntitled, NEW r \in DOMAIN runs, Step(r)
    PROVE  AllEntitled'
  <1> DEFINE run == runs[r]
  <1>1. run \in Run /\ RowsKept
    BY StepKeepsRows DEF Types
  <1>2. Entitled(run, conn')
    <2>1. \A c \in run.snap : c.id \in UsedIds
      BY <1>1 DEF Run, SnapRow
    <2> QED
      BY <1>1, <2>1, EntitledKept DEF AllEntitled, RowsKept
  <1>3. SUFFICES ASSUME ~ \E q : End(q)
                 PROVE  \E new : Goto(r, new) /\ Entitled(new, conn')
    BY <1>1, EntitledRest
  <1>4. CASE Receive(r)
    <2> DEFINE new == [run EXCEPT !.pc = "read", !.list = remote[run.sub]]
    <2>1. /\ new.kind = run.kind /\ new.pc = "read" /\ new.sub = run.sub
          /\ new.snap = run.snap /\ new.doomed = run.doomed
      BY <1>1 DEF Run
    <2>2. run.pc = "fetch" /\ Goto(r, new)
      BY <1>4 DEF Receive
    <2>3. Entitled(new, conn')
      BY <1>2, <2>1, <2>2 DEF Entitled
    <2> QED
      BY <2>2, <2>3
  <1>5. CASE ReadExisting(r)
    <2> DEFINE snap == {Read(i) : i \in RowsOf(run.sub)}
               new == [run EXCEPT !.pc = "max", !.snap = snap,
                                  !.todo = Incoming(run.list)]
    <2>1. /\ new.kind = "sync" /\ new.pc = "max" /\ new.sub = run.sub
          /\ new.snap = snap /\ new.list = run.list
      BY <1>1, <1>5 DEF Run, ReadExisting
    <2>2. Goto(r, new) /\ (run.list = <<>> => snap = {}) /\ conn' = conn
      BY <1>3, <1>5 DEF ReadExisting
    <2>3. \A c \in snap : conn[c.id].sub = run.sub
      BY DEF RowsOf, Read
    <2>4. Entitled(new, conn')
      BY <2>1, <2>2, <2>3 DEF Entitled
    <2> QED
      BY <2>2, <2>4
  <1>6. CASE ReadMaxSortOrder(r)
    <2>1. PICK m : Goto(r, [run EXCEPT !.pc = "upsert", !.next = m])
      BY <1>6 DEF ReadMaxSortOrder
    <2> DEFINE new == [run EXCEPT !.pc = "upsert", !.next = m]
    <2>2. /\ new.kind = run.kind /\ new.pc = "upsert" /\ new.sub = run.sub
          /\ new.snap = run.snap /\ new.list = run.list /\ run.kind \in Kinds
      BY <1>1 DEF Run
    <2>3. run.pc = "max"
      BY <1>6 DEF ReadMaxSortOrder
    <2>4. Entitled(new, conn')
      BY <1>2, <2>2, <2>3 DEF Entitled, Kinds
    <2> QED
      BY <2>1, <2>4
  <1>7. CASE Upsert(r)
    <2>1. ASSUME NEW next, NEW todo, NEW matched, run.pc = "upsert"
          PROVE  Entitled([run EXCEPT !.next = next, !.todo = todo, !.matched = matched],
                          conn')
      <3> DEFINE new == [run EXCEPT !.next = next, !.todo = todo, !.matched = matched]
      <3>1. /\ new.kind = run.kind /\ new.pc = run.pc /\ new.sub = run.sub
            /\ new.snap = run.snap /\ new.list = run.list /\ new.doomed = run.doomed
        BY <1>1 DEF Run
      <3> HIDE DEF new
      <3>2. Entitled(new, conn')
        BY <1>2, <2>1, <3>1 DEF Entitled
      <3> QED
        BY <3>2 DEF new
    <2>2. CASE \E u \in run.todo : CreateRow(r, u)
      <3>1. PICK u \in run.todo : CreateRow(r, u)
        BY <2>2
      <3> DEFINE new == [run EXCEPT !.next = run.next + 1, !.todo = run.todo \ {u}]
                 same == [run EXCEPT !.next = run.next + 1, !.todo = run.todo \ {u},
                                     !.matched = run.matched]
      <3>2. new = same
        BY <1>1 DEF Run
      <3>3. Goto(r, new) /\ run.pc = "upsert"
        BY <3>1 DEF CreateRow
      <3> QED
        BY <2>1, <3>2, <3>3
    <2>3. CASE \E u \in run.todo : \E c \in run.snap : UpdateRow(r, u, c)
      <3>1. PICK u \in run.todo, c \in run.snap : UpdateRow(r, u, c)
        BY <2>3
      <3> DEFINE new == [run EXCEPT !.todo = run.todo \ {u},
                                    !.matched = run.matched \cup {c.id}]
                 same == [run EXCEPT !.next = run.next, !.todo = run.todo \ {u},
                                     !.matched = run.matched \cup {c.id}]
      <3>2. new = same
        BY <1>1 DEF Run
      <3>3. Goto(r, new) /\ run.pc = "upsert"
        BY <1>3, <3>1 DEF UpdateRow
      <3> QED
        BY <2>1, <3>2, <3>3
    <2> QED
      BY <1>7, <2>2, <2>3 DEF Upsert
  <1>8. CASE SelectStale(r)
    <2> DEFINE stale == SnapIds(run) \ run.matched
               new == [run EXCEPT !.pc = "purge", !.doomed = stale, !.purge = stale]
    <2>1. /\ new.kind = run.kind /\ new.pc = "purge" /\ new.sub = run.sub
          /\ new.snap = run.snap /\ new.list = run.list
          /\ new.matched = run.matched /\ new.doomed = stale
      BY <1>1 DEF Run
    <2>2. Goto(r, new) /\ run.pc = "upsert"
      BY <1>8 DEF SelectStale, SnapIds
    <2> HIDE DEF new, stale
    <2>3. Entitled(new, conn')
      BY <1>2, <2>1, <2>2 DEF Entitled, SnapIds, stale
    <2> QED
      BY <2>2, <2>3
  <1>9. CASE SelectAll(r)
    <2> DEFINE new == [run EXCEPT !.pc = "purge", !.purge = RowsOf(run.sub)]
    <2>1. new.kind = "removeSubscription" /\ new.pc = "purge"
      BY <1>1, <1>9 DEF Run, SelectAll
    <2>2. Goto(r, new) /\ Entitled(new, conn')
      BY <1>9, <2>1 DEF SelectAll, Entitled
    <2> QED
      BY <2>2
  <1>10. CASE \E x \in run.purge : FindAffected(r, x)
    <2>0. PICK x \in run.purge : FindAffected(r, x)
      BY <1>10
    <2> DEFINE ids == {b \in DOMAIN bal : x \in bal[b]}
               aff == {[id |-> b, pool |-> bal[b]] : b \in ids}
               pc  == IF ids = {} THEN "purge" ELSE "detach"
               new == [run EXCEPT !.purge = @ \ {x}, !.cur = x, !.aff = aff, !.pc = pc]
    <2>1. Goto(r, new) /\ pc \in {"purge", "detach"}
      BY <2>0 DEF FindAffected
    <2> HIDE DEF aff, pc
    <2>2. /\ new.kind = run.kind /\ new.sub = run.sub /\ new.list = run.list
          /\ new.snap = run.snap /\ new.matched = run.matched
          /\ new.doomed = run.doomed /\ new.pc = pc
      BY <1>1 DEF Run
    <2>3. run.pc = "purge"
      BY <1>10 DEF FindAffected
    <2> HIDE DEF new
    <2>4. Entitled(new, conn')
      BY <1>2, <2>1, <2>2, <2>3, EntitledPurge
    <2> QED
      BY <2>1, <2>4 DEF new
  <1>11. CASE \E a \in run.aff : Detach(r, a)
    <2>0. PICK a \in run.aff : Detach(r, a)
      BY <1>11
    <2> DEFINE rest == run.aff \ {a}
               pc  == IF rest = {} THEN "purge" ELSE "detach"
               new == [run EXCEPT !.aff = rest, !.pc = pc]
    <2>1. Goto(r, new) /\ pc \in {"purge", "detach"}
      BY <1>3, <2>0 DEF Detach
    <2> HIDE DEF rest, pc
    <2>2. /\ new.kind = run.kind /\ new.sub = run.sub /\ new.list = run.list
          /\ new.snap = run.snap /\ new.matched = run.matched
          /\ new.doomed = run.doomed /\ new.pc = pc
      BY <1>1 DEF Run
    <2>3. run.pc = "detach"
      BY <1>11 DEF Detach
    <2> HIDE DEF new
    <2>4. Entitled(new, conn')
      BY <1>2, <2>1, <2>2, <2>3, EntitledPurge
    <2> QED
      BY <2>1, <2>4 DEF new
  <1>12. CASE DeleteRows(r)
    <2> DEFINE new == [run EXCEPT !.pc = "finish"]
    <2>1. /\ new.kind = run.kind /\ new.sub = run.sub /\ new.list = run.list
          /\ new.snap = run.snap /\ new.matched = run.matched
          /\ new.doomed = run.doomed /\ new.pc = "finish"
      BY <1>1 DEF Run
    <2>2. Goto(r, new) /\ run.pc = "purge" /\ run.kind # "removeConnect"
      BY <1>3, <1>12 DEF DeleteRows
    <2> HIDE DEF new
    <2>3. Entitled(new, conn')
      BY <1>2, <2>1, <2>2, EntitledPurge
    <2> QED
      BY <2>2, <2>3
  <1>13. CASE Finish(r)
    BY <1>3, <1>13 DEF Finish
  <1> QED
    BY <1>4, <1>5, <1>6, <1>7, <1>8, <1>9, <1>10, <1>11, <1>12, <1>13 DEF Step, Purge

LEMMA EntitledNext == Types /\ AllEntitled /\ [Next]_vars => AllEntitled'
  <1> SUFFICES ASSUME Types, AllEntitled, [Next]_vars
               PROVE  AllEntitled'
    OBVIOUS
  <1>1. ASSUME UNCHANGED conn PROVE RowsKept
    BY <1>1 DEF RowsKept
  <1>2. CASE \E r \in Runs : Step(r)
    BY <1>2, EntitledStep DEF Step
  <1>3. CASE \E r \in Runs : Throw(r)
    BY <1>1, <1>3, EntitledRest DEF Throw
  <1>4. CASE \E r \in Runs, s \in Subs : BeginSync(r, s)
    <2>1. PICK r \in Runs, s \in Subs : BeginSync(r, s)
      BY <1>4
    <2> DEFINE new == [NewRun("sync", s) EXCEPT !.pc = "fetch"]
    <2>2. new.kind = "sync" /\ new.pc = "fetch" /\ new.snap = {}
      BY DEF NewRun
    <2>3. Entitled(new, conn')
      BY <2>2 DEF Entitled
    <2> QED
      BY <1>1, <2>1, <2>3, EntitledRest DEF BeginSync, Begin
  <1>5. CASE \E r \in Runs, s \in Subs : BeginRemoveSubscription(r, s)
    <2>1. PICK r \in Runs, s \in Subs : BeginRemoveSubscription(r, s)
      BY <1>5
    <2> DEFINE new == [NewRun("removeSubscription", s) EXCEPT !.pc = "read"]
    <2>2. new.kind = "removeSubscription" /\ new.pc = "read"
      BY DEF NewRun
    <2>3. Entitled(new, conn')
      BY <2>2 DEF Entitled
    <2> QED
      BY <1>1, <2>1, <2>3, EntitledRest DEF BeginRemoveSubscription, Begin
  <1>6. CASE \E r \in Runs, i \in DOMAIN conn : BeginRemoveConnect(r, i)
    <2>1. PICK r \in Runs, i \in DOMAIN conn : BeginRemoveConnect(r, i)
      BY <1>6
    <2> DEFINE new == [NewRun("removeConnect", conn[i].sub) EXCEPT
                          !.doomed = {i}, !.purge = {i}]
    <2>2. new.kind = "removeConnect" /\ new.pc = "purge" /\ new.doomed = {i}
      BY DEF NewRun
    <2>3. Entitled(new, conn')
      BY <2>2 DEF Entitled
    <2> QED
      BY <1>1, <2>1, <2>3, EntitledRest DEF BeginRemoveConnect, Begin
  <1>7. CASE \/ \E s \in Subs : ChangeFeed(s)
             \/ \E pool \in SUBSET DOMAIN conn : CreateBalancer(pool)
             \/ \E b \in DOMAIN bal, pool \in SUBSET DOMAIN conn : UpdateBalancer(b, pool)
             \/ \E b \in DOMAIN bal : RemoveBalancer(b)
    BY <1>1, <1>7, EntitledRest DEF ChangeFeed, CreateBalancer, UpdateBalancer, RemoveBalancer
  <1>8. CASE UNCHANGED vars
    BY <1>1, <1>8, EntitledRest DEF vars
  <1> QED
    BY <1>2, <1>3, <1>4, <1>5, <1>6, <1>7, <1>8 DEF Next, Operator

LEMMA EntitledAlways == Spec => []AllEntitled
  <1>1. Init => AllEntitled
    BY DEF Init, None, AllEntitled
  <1> QED
    BY <1>1, EntitledNext, TypesCorrect, PTL DEF Spec

(* A row leaves the table only in the deleting step of an invocation that  *)
(* is entitled to it: a synchronisation deletes rows of its own            *)
(* subscription that it read and did not match, and none after an empty    *)
(* answer; a removal deletes its own.                                      *)
THEOREM OnlyOwnRowsDeletedCorrect == Spec => OnlyOwnRowsDeleted
  <1> DEFINE Deleted(i) ==
                \E r \in DOMAIN runs \cap Runs :
                   /\ runs[r].pc = "purge" /\ runs[r].purge = {}
                   /\ MayDelete(runs[r], i)
             Deletions == \A i \in DOMAIN conn \ DOMAIN conn' : Deleted(i)
  <1>1. Types /\ AllEntitled /\ [Next]_vars => Deletions
    <2> SUFFICES ASSUME Types, AllEntitled, [Next]_vars,
                        NEW i \in DOMAIN conn \ DOMAIN conn'
                 PROVE  Deleted(i)
      OBVIOUS
    <2>1. PICK r \in DOMAIN runs \cap Runs : DeleteRows(r)
      <3>1. DOMAIN conn' # DOMAIN conn /\ ~ DOMAIN conn \subseteq DOMAIN conn'
        OBVIOUS
      <3>2. ASSUME NEW r, NEW u, CreateRow(r, u) PROVE FALSE
        BY <3>1, <3>2 DEF CreateRow
      <3>3. ASSUME NEW r, NEW u, NEW c, UpdateRow(r, u, c) PROVE FALSE
        BY <3>1, <3>3 DEF UpdateRow
      <3>4. conn' # conn
        BY <3>1
      <3>5. CASE \E r \in Runs : Step(r)
        BY <3>2, <3>3, <3>4, <3>5 DEF Step, Upsert, Purge, Receive, ReadExisting,
           ReadMaxSortOrder, SelectStale, SelectAll, FindAffected, Detach, Finish
      <3> QED
        BY <3>4, <3>5 DEF Next, Operator, Throw, BeginSync, ChangeFeed, Begin,
           BeginRemoveSubscription, BeginRemoveConnect, CreateBalancer,
           UpdateBalancer, RemoveBalancer, vars
    <2> DEFINE run == runs[r]
    <2>2. /\ run.pc = "purge" /\ run.purge = {}
          /\ i \in RowsToDelete(run)
      BY <2>1 DEF DeleteRows, Restrict
    <2>3. Entitled(run, conn) /\ run.kind \in Kinds
      BY DEF AllEntitled, Types, Run
    <2>4. CASE run.kind = "sync"
      <3>1. i \in SnapIds(run) \ run.matched /\ run.list # <<>>
        BY <2>2, <2>3, <2>4 DEF RowsToDelete, Entitled, SnapIds
      <3>2. conn[i].sub = run.sub
        BY <2>3, <2>4, <3>1 DEF Entitled, SnapIds
      <3>3. MayDelete(run, i)
        BY <2>4, <3>1, <3>2 DEF MayDelete, SnapIds
      <3> QED
        BY <2>2, <3>3
    <2>5. CASE run.kind = "removeSubscription"
      <3>1. MayDelete(run, i)
        BY <2>2, <2>5 DEF RowsToDelete, RowsOf, MayDelete
      <3> QED
        BY <2>2, <3>1
    <2>6. CASE run.kind = "removeConnect"
      <3>1. run.doomed = {i}
        BY <2>2, <2>3, <2>6 DEF RowsToDelete, Entitled
      <3>2. MayDelete(run, i)
        BY <2>6, <3>1 DEF MayDelete
      <3> QED
        BY <2>2, <3>2
    <2> QED
      BY <2>3, <2>4, <2>5, <2>6 DEF Kinds
  <1>2. Deletions <=> \A i \in DOMAIN conn \ DOMAIN conn' :
                         \E r \in DOMAIN runs \cap Runs :
                            /\ runs[r].pc = "purge" /\ runs[r].purge = {}
                            /\ MayDelete(runs[r], i)
    OBVIOUS
  <1> QED
    BY <1>1, TypesCorrect, EntitledAlways, PTL DEF Spec, OnlyOwnRowsDeleted

-----------------------------------------------------------------------------
(* A balancer is deleted rather than left without a pool, however the      *)
(* reads and the writes of purges, edits and deletions interleave.         *)
THEOREM PoolNeverEmptyCorrect == Spec => []PoolNeverEmpty
  <1>1. Init => PoolNeverEmpty
    BY DEF Init, None, PoolNeverEmpty
  <1>2. Types /\ PoolNeverEmpty /\ [Next]_vars => PoolNeverEmpty'
    <2> SUFFICES ASSUME Types, PoolNeverEmpty, [Next]_vars
                 PROVE  PoolNeverEmpty'
      OBVIOUS
    <2>1. ASSUME NEW r, NEW a, Detach(r, a) PROVE PoolNeverEmpty'
      BY <2>1 DEF Detach, Restrict, PoolNeverEmpty
    <2>2. ASSUME NEW pool, CreateBalancer(pool) PROVE PoolNeverEmpty'
      BY <2>2 DEF CreateBalancer, PoolNeverEmpty
    <2>3. ASSUME NEW b, NEW pool, UpdateBalancer(b, pool) PROVE PoolNeverEmpty'
      BY <2>3 DEF UpdateBalancer, PoolNeverEmpty
    <2>4. ASSUME NEW b, RemoveBalancer(b) PROVE PoolNeverEmpty'
      BY <2>4 DEF RemoveBalancer, Restrict, PoolNeverEmpty
    <2>5. CASE UNCHANGED bal
      BY <2>5 DEF PoolNeverEmpty
    <2>6. CASE \E r \in Runs : Step(r)
      <3>1. PICK r \in Runs : Step(r)
        BY <2>6
      <3>2. CASE Upsert(r)
        BY <2>5, <3>2 DEF Upsert, CreateRow, UpdateRow
      <3>3. CASE Purge(r)
        BY <2>1, <2>5, <3>3 DEF Purge, FindAffected
      <3>4. CASE \/ Receive(r) \/ ReadExisting(r) \/ ReadMaxSortOrder(r) \/ SelectStale(r)
                 \/ SelectAll(r) \/ DeleteRows(r) \/ Finish(r)
        BY <2>5, <3>4 DEF Receive, ReadExisting, ReadMaxSortOrder, SelectStale,
           SelectAll, DeleteRows, Finish
      <3> QED
        BY <3>1, <3>2, <3>3, <3>4 DEF Step
    <2> QED
      BY <2>2, <2>3, <2>4, <2>5, <2>6 DEF Next, Operator, Throw, BeginSync, Begin,
         ChangeFeed, BeginRemoveSubscription, BeginRemoveConnect, vars
  <1> QED
    BY <1>1, <1>2, TypesCorrect, PTL DEF Spec

(* The tables and what invocations hold keep their types, and no pool is   *)
(* ever empty.                                                             *)
THEOREM TypeCorrect == Spec => []TypeOK
  <1>1. Types /\ PoolNeverEmpty => TypeOK
    BY DEF TypeOK
  <1> QED
    BY <1>1, TypesCorrect, PoolNeverEmptyCorrect, PTL

-----------------------------------------------------------------------------
(* As long as invocations take turns, the one in progress is alone, and    *)
(* what it holds fits the collections: the largest position is still the   *)
(* largest, what it read of the pools still so, and an id it is about to   *)
(* delete is in no pool it has passed.                                     *)
Leaving(run, rows) ==
    IF run.kind = "removeSubscription" THEN {i \in DOMAIN rows : rows[i].sub = run.sub}
                                       ELSE run.doomed

Careful(run, rows, pools, live) ==
    /\ run.pc \in {"fetch", "read", "max", "upsert"} => run.sub \in live
    /\ run.pc = "upsert" => \A i \in DOMAIN rows : rows[i].sortOrder <= run.next
    /\ run.pc \in {"purge", "detach"} =>
          \A i \in Leaving(run, rows), b \in DOMAIN pools :
             i \in pools[b] => i \in run.purge \/ (run.pc = "detach" /\ i = run.cur)
    /\ run.pc = "detach" =>
          /\ \A a \in run.aff : a.id \in DOMAIN pools /\ a.pool = pools[a.id]
          /\ \A b \in DOMAIN pools : run.cur \in pools[b] => \E a \in run.aff : a.id = b
    /\ run.pc = "finish" /\ run.kind = "removeSubscription" => Leaving(run, rows) = {}

Alone == \A q, r \in DOMAIN runs : q = r

AllCareful == Alone /\ \A r \in DOMAIN runs : Careful(runs[r], conn, bal, subs)

SerialInv == serial => UniqueSortOrder /\ NoDanglingReference /\ AllCareful

(* With a single invocation it suffices to look at what that one holds.    *)
LEMMA AloneStep ==
    ASSUME Alone, NEW r \in DOMAIN runs,
           \/ End(r)
           \/ \E new : Goto(r, new) /\ Careful(new, conn', bal', subs')
    PROVE  AllCareful'
  <1>1. CASE End(r)
    BY <1>1 DEF Alone, AllCareful, End, Restrict
  <1>2. CASE \E new : Goto(r, new) /\ Careful(new, conn', bal', subs')
    BY <1>2 DEF Alone, AllCareful, Goto
  <1> QED
    BY <1>1, <1>2

(* The reads: the table, the largest position, the stale rows.             *)
LEMMA CarefulReading ==
    ASSUME Types, AllEntitled, SerialInv, serial, NEW r \in DOMAIN runs,
           Receive(r) \/ ReadExisting(r) \/ ReadMaxSortOrder(r) \/ SelectStale(r)
                      \/ SelectAll(r)
    PROVE  SerialInv'
  <1> DEFINE run == runs[r]
  <1>1. /\ run \in Run /\ Careful(run, conn, bal, subs) /\ Alone
        /\ UniqueSortOrder /\ NoDanglingReference
        /\ UNCHANGED <<subs, conn, bal>>
    BY DEF Types, SerialInv, AllCareful, Receive, ReadExisting, ReadMaxSortOrder,
       SelectStale, SelectAll
  <1>2. SUFFICES ASSUME ~ End(r)
                 PROVE  \E new : Goto(r, new) /\ Careful(new, conn, bal, subs)
    BY <1>1, AloneStep DEF SerialInv, UniqueSortOrder, NoDanglingReference
  <1>3. CASE Receive(r)
    <2> DEFINE new == [run EXCEPT !.pc = "read", !.list = remote[run.sub]]
    <2>1. new.pc = "read" /\ new.sub = run.sub /\ Goto(r, new) /\ run.pc = "fetch"
      BY <1>1, <1>3 DEF Run, Receive
    <2>2. Careful(new, conn, bal, subs)
      BY <1>1, <2>1 DEF Careful
    <2> QED
      BY <2>1, <2>2
  <1>4. CASE ReadExisting(r)
    <2> DEFINE new == [run EXCEPT !.pc = "max", !.snap = {Read(i) : i \in RowsOf(run.sub)},
                                  !.todo = Incoming(run.list)]
    <2>1. new.pc = "max" /\ new.sub = run.sub /\ Goto(r, new) /\ run.pc = "read"
      BY <1>1, <1>2, <1>4 DEF Run, ReadExisting
    <2>2. Careful(new, conn, bal, subs)
      BY <1>1, <2>1 DEF Careful
    <2> QED
      BY <2>1, <2>2
  <1>5. CASE ReadMaxSortOrder(r)
    <2>1. PICK m : IsMaxSortOrder(m) /\ Goto(r, [run EXCEPT !.pc = "upsert", !.next = m])
      BY <1>5 DEF ReadMaxSortOrder
    <2> DEFINE new == [run EXCEPT !.pc = "upsert", !.next = m]
    <2>2. new.pc = "upsert" /\ new.sub = run.sub /\ new.next = m /\ run.pc = "max"
      BY <1>1, <1>5 DEF Run, ReadMaxSortOrder
    <2>3. \A i \in DOMAIN conn : conn[i].sortOrder <= m
      BY <2>1 DEF IsMaxSortOrder, None
    <2>4. Careful(new, conn, bal, subs)
      BY <1>1, <2>2, <2>3 DEF Careful
    <2> QED
      BY <2>1, <2>4
  <1>6. CASE SelectStale(r)
    <2> DEFINE stale == {c.id : c \in run.snap} \ run.matched
               new == [run EXCEPT !.pc = "purge", !.doomed = stale, !.purge = stale]
    <2>1. /\ new.pc = "purge" /\ new.doomed = stale /\ new.purge = stale
          /\ new.kind = run.kind /\ Goto(r, new) /\ run.pc = "upsert"
      BY <1>1, <1>6 DEF Run, SelectStale
    <2>2. run.kind # "removeSubscription"
      BY <2>1 DEF AllEntitled, Entitled
    <2> HIDE DEF stale, new
    <2>3. Careful(new, conn, bal, subs)
      BY <2>1, <2>2 DEF Careful, Leaving
    <2> QED
      BY <2>1, <2>3
  <1>7. CASE SelectAll(r)
    <2> DEFINE new == [run EXCEPT !.pc = "purge", !.purge = RowsOf(run.sub)]
    <2>1. /\ new.pc = "purge" /\ new.purge = RowsOf(run.sub) /\ new.sub = run.sub
          /\ new.kind = "removeSubscription" /\ Goto(r, new)
      BY <1>1, <1>7 DEF Run, SelectAll
    <2> HIDE DEF new
    <2>2. Careful(new, conn, bal, subs)
      BY <2>1 DEF Careful, Leaving, RowsOf
    <2> QED
      BY <2>1, <2>2
  <1> QED
    BY <1>3, <1>4, <1>5, <1>6, <1>7

(* A new row is placed behind all others, of whatever subscription.        *)
LEMMA CarefulCreateRow ==
    ASSUME Types, SerialInv, serial, NEW r \in DOMAIN runs, NEW u \in Uris,
           CreateRow(r, u)
    PROVE  SerialInv'
  <1> DEFINE run == runs[r]
             row == [sub |-> run.sub, raw |-> u, identityKey |-> Identity[u],
                     sortOrder |-> run.next + 1]
             new == [run EXCEPT !.next = run.next + 1, !.todo = run.todo \ {u}]
  <1>1. /\ run \in Run /\ Careful(run, conn, bal, subs) /\ Alone
        /\ UniqueSortOrder /\ NoDanglingReference
        /\ run.pc = "upsert" /\ Goto(r, new) /\ UNCHANGED <<subs, bal>>
        /\ conn' = [i \in DOMAIN conn \cup {nextId} |-> IF i = nextId THEN row ELSE conn[i]]
    BY DEF Types, SerialInv, AllCareful, CreateRow
  <1>2. run.sub \in subs /\ \A i \in DOMAIN conn : conn[i].sortOrder <= run.next
    BY <1>1 DEF Careful
  <1>3. nextId \notin DOMAIN conn
    BY DEF Types, Table, UsedIds
  <1>4. \A i \in DOMAIN conn : conn[i].sortOrder \in Nat
    BY DEF Types, Table, Row
  <1>5. run.next \in Nat
    BY <1>1 DEF Run
  <1>6. /\ DOMAIN conn' = DOMAIN conn \cup {nextId}
        /\ conn'[nextId].sortOrder = run.next + 1 /\ conn'[nextId].sub = run.sub
        /\ \A i \in DOMAIN conn : conn'[i] = conn[i]
    BY <1>1, <1>3
  <1>7. UniqueSortOrder'
    <2>1. \A i \in DOMAIN conn : conn'[i].sortOrder # conn'[nextId].sortOrder
      BY <1>2, <1>4, <1>5, <1>6
    <2> QED
      BY <1>1, <1>6, <2>1 DEF UniqueSortOrder
  <1>8. NoDanglingReference'
    BY <1>1, <1>2, <1>6 DEF NoDanglingReference
  <1>9. Careful(new, conn', bal', subs')
    <2>1. new.pc = "upsert" /\ new.sub = run.sub /\ new.next = run.next + 1
      BY <1>1 DEF Run
    <2>2. \A i \in DOMAIN conn' : conn'[i].sortOrder <= run.next + 1
      BY <1>2, <1>4, <1>5, <1>6
    <2>3. subs' = subs
      BY <1>1
    <2> HIDE DEF new
    <2> QED
      BY <1>1, <1>2, <2>1, <2>2, <2>3, ZenonT(30) DEF Careful
  <1>10. AllCareful'
    BY <1>1, <1>9, AloneStep
  <1> QED
    BY <1>7, <1>8, <1>10 DEF SerialInv

(* Taking over an entry changes neither place nor subscription of a row.   *)
LEMMA RowTakesOver ==
    ASSUME Types, NEW r, NEW u, NEW c, UpdateRow(r, u, c)
    PROVE  /\ DOMAIN conn' = DOMAIN conn
           /\ \A i \in DOMAIN conn : /\ conn'[i].sub = conn[i].sub
                                     /\ conn'[i].sortOrder = conn[i].sortOrder
  <1>1. DOMAIN conn' = DOMAIN conn /\ \A i \in DOMAIN conn : conn[i] \in Row
    BY DEF UpdateRow, Types, Table
  <1>2. ASSUME NEW i \in DOMAIN conn
        PROVE  conn'[i].sub = conn[i].sub /\ conn'[i].sortOrder = conn[i].sortOrder
    <2> DEFINE raw == IF c.raw = u THEN conn[i].raw ELSE u
               key == IF c.identityKey = Identity[u] THEN conn[i].identityKey
                                                     ELSE Identity[u]
               next == [conn[i] EXCEPT !.raw = raw, !.identityKey = key]
    <2>1. conn'[i] = conn[i] \/ conn'[i] = next
      BY DEF UpdateRow
    <2> HIDE DEF raw, key
    <2>2. next.sub = conn[i].sub /\ next.sortOrder = conn[i].sortOrder
      BY <1>1 DEF Row
    <2> QED
      BY <2>1, <2>2
  <1> QED
    BY <1>1, <1>2

LEMMA CarefulUpdateRow ==
    ASSUME Types, SerialInv, serial, NEW r \in DOMAIN runs, NEW u, NEW c,
           UpdateRow(r, u, c)
    PROVE  SerialInv'
  <1> DEFINE run == runs[r]
             new == [run EXCEPT !.todo = run.todo \ {u}, !.matched = run.matched \cup {c.id}]
  <1>1. /\ run \in Run /\ Careful(run, conn, bal, subs) /\ Alone
        /\ UniqueSortOrder /\ NoDanglingReference
        /\ run.pc = "upsert" /\ UNCHANGED <<subs, bal>>
        /\ End(r) \/ Goto(r, new)
    BY DEF Types, SerialInv, AllCareful, UpdateRow
  <1>2. UniqueSortOrder' /\ NoDanglingReference'
    BY <1>1, RowTakesOver DEF UniqueSortOrder, NoDanglingReference
  <1>3. Careful(new, conn', bal', subs')
    <2>1. new.pc = "upsert" /\ new.sub = run.sub /\ new.next = run.next
      BY <1>1 DEF Run
    <2> QED
      BY <1>1, <2>1, RowTakesOver DEF Careful
  <1>4. AllCareful'
    BY <1>1, <1>3, AloneStep
  <1> QED
    BY <1>2, <1>4 DEF SerialInv

(* On the way through the pools: once the balancers an id was found in     *)
(* have been written, no pool names it.                                    *)
LEMMA CarefulPurge ==
    ASSUME Types, SerialInv, serial, NEW r \in DOMAIN runs,
           \/ \E x \in runs[r].purge : FindAffected(r, x)
           \/ \E a \in runs[r].aff : Detach(r, a)
    PROVE  SerialInv'
  <1> DEFINE run == runs[r]
  <1>1. /\ run \in Run /\ Careful(run, conn, bal, subs) /\ Alone
        /\ UniqueSortOrder /\ NoDanglingReference
        /\ UNCHANGED <<subs, conn>>
    BY DEF Types, SerialInv, AllCareful, FindAffected, Detach
  <1>2. UniqueSortOrder'
    BY <1>1 DEF UniqueSortOrder
  <1>3. CASE \E x \in run.purge : FindAffected(r, x)
    <2>0. PICK x \in run.purge : FindAffected(r, x)
      BY <1>3
    <2> DEFINE ids == {b \in DOMAIN bal : x \in bal[b]}
               aff == {[id |-> b, pool |-> bal[b]] : b \in ids}
               pc  == IF ids = {} THEN "purge" ELSE "detach"
               new == [run EXCEPT !.purge = run.purge \ {x}, !.cur = x, !.aff = aff, !.pc = pc]
    <2>1. Goto(r, new) /\ run.pc = "purge" /\ bal' = bal
      BY <2>0 DEF FindAffected
    <2>2. /\ \A a \in aff : a.id \in DOMAIN bal /\ a.pool = bal[a.id]
          /\ \A b \in DOMAIN bal : x \in bal[b] => \E a \in aff : a.id = b
      <3>1. \A b \in ids : [id |-> b, pool |-> bal[b]] \in aff
        OBVIOUS
      <3>2. \A a \in aff : \E b \in ids : a = [id |-> b, pool |-> bal[b]]
        OBVIOUS
      <3> HIDE DEF aff
      <3>3. ASSUME NEW a \in aff
            PROVE  a.id \in DOMAIN bal /\ a.pool = bal[a.id]
        <4>1. PICK b \in ids : a = [id |-> b, pool |-> bal[b]]
          BY <3>2
        <4>2. a.id = b /\ a.pool = bal[b]
          BY <4>1
        <4> QED
          BY <4>2
      <3>4. ASSUME NEW b \in DOMAIN bal, x \in bal[b]
            PROVE  \E a \in aff : a.id = b
        <4>1. [id |-> b, pool |-> bal[b]] \in aff
          BY <3>1, <3>4
        <4>2. [id |-> b, pool |-> bal[b]].id = b
          OBVIOUS
        <4> QED
          BY <4>1, <4>2
      <3> QED
        BY <3>3, <3>4
    <2>3. pc = "purge" => \A b \in DOMAIN bal : x \notin bal[b]
      OBVIOUS
    <2>4. pc \in {"purge", "detach"}
      OBVIOUS
    <2> HIDE DEF aff, pc
    <2>5. /\ new.kind = run.kind /\ new.sub = run.sub /\ new.doomed = run.doomed
          /\ new.pc = pc /\ new.cur = x /\ new.aff = aff /\ new.purge = run.purge \ {x}
      BY <1>1 DEF Run
    <2> HIDE DEF new
    <2>6. Leaving(new, conn) = Leaving(run, conn)
      BY <2>5 DEF Leaving
    <2>7. \A i \in Leaving(run, conn), b \in DOMAIN bal : i \in bal[b] => i \in run.purge
      BY <1>1, <2>1 DEF Careful
    <2>8. Careful(new, conn, bal, subs)
      BY <2>2, <2>3, <2>4, <2>5, <2>6, <2>7 DEF Careful
    <2>9. AllCareful'
      BY <1>1, <2>1, <2>8, AloneStep DEF new
    <2> QED
      BY <1>1, <1>2, <2>1, <2>9 DEF SerialInv, NoDanglingReference
  <1>4. CASE \E a \in run.aff : Detach(r, a)
    <2>0. PICK a \in run.aff : Detach(r, a)
      BY <1>4
    <2> DEFINE rest == run.aff \ {a}
               pool == a.pool \ {run.cur}
               pc  == IF rest = {} THEN "purge" ELSE "detach"
               new == [run EXCEPT !.aff = rest, !.pc = pc]
    <2>1. run.pc = "detach"
      BY <2>0 DEF Detach
    <2>2. /\ \A d \in run.aff : d.id \in DOMAIN bal /\ d.pool = bal[d.id]
          /\ \A b \in DOMAIN bal : run.cur \in bal[b] => \E d \in run.aff : d.id = b
          /\ \A i \in Leaving(run, conn), b \in DOMAIN bal :
                 i \in bal[b] => i \in run.purge \/ i = run.cur
      BY <1>1, <2>1 DEF Careful
    <2>3. /\ Goto(r, new)
          /\ bal' = IF pool = {} THEN Restrict(bal, DOMAIN bal \ {a.id})
                                 ELSE [bal EXCEPT ![a.id] = pool]
      BY <2>0, <2>2 DEF Detach
    <2>4. /\ DOMAIN bal' \subseteq DOMAIN bal
          /\ a.id \in DOMAIN bal' => bal'[a.id] = pool
          /\ \A b \in DOMAIN bal \ {a.id} : b \in DOMAIN bal' /\ bal'[b] = bal[b]
      BY <2>3 DEF Restrict
    <2>5. \A b \in DOMAIN bal' : bal'[b] \subseteq bal[b] /\ (b = a.id => run.cur \notin bal'[b])
      BY <2>2, <2>4
    <2>6. \A d \in run.aff : d.id = a.id => d = a
      <3>1. \A d \in run.aff : d = [id |-> d.id, pool |-> d.pool]
        BY <1>1 DEF Run
      <3> QED
        BY <2>2, <3>1
    <2>7. /\ \A d \in rest : d.id \in DOMAIN bal' /\ d.pool = bal'[d.id]
          /\ \A b \in DOMAIN bal' : run.cur \in bal'[b] => \E d \in rest : d.id = b
      BY <2>2, <2>4, <2>5, <2>6
    <2>8. pc \in {"purge", "detach"} /\ (pc = "purge" => rest = {})
      OBVIOUS
    <2> HIDE DEF rest, pc, pool
    <2>9. /\ new.kind = run.kind /\ new.sub = run.sub /\ new.doomed = run.doomed
          /\ new.pc = pc /\ new.cur = run.cur /\ new.aff = rest /\ new.purge = run.purge
      BY <1>1 DEF Run
    <2> HIDE DEF new
    <2>10. Leaving(new, conn) = Leaving(run, conn)
      BY <2>9 DEF Leaving
    <2>11. \A i \in Leaving(new, conn), b \in DOMAIN bal' :
              i \in bal'[b] => i \in new.purge \/ (new.pc = "detach" /\ i = new.cur)
      BY <2>2, <2>4, <2>5, <2>7, <2>8, <2>9, <2>10
    <2>12. Careful(new, conn, bal', subs)
      BY <2>7, <2>8, <2>9, <2>11 DEF Careful
    <2>13. AllCareful'
      BY <1>1, <2>3, <2>12, AloneStep DEF new
    <2>14. NoDanglingReference'
      BY <1>1, <2>4, <2>5 DEF NoDanglingReference
    <2> QED
      BY <1>2, <2>13, <2>14 DEF SerialInv
  <1> QED
    BY <1>3, <1>4

(* The rows go after every pool was purged of them, and the subscription   *)
(* after its rows.                                                         *)
LEMMA CarefulLastStep ==
    ASSUME Types, SerialInv, serial, NEW r \in DOMAIN runs,
           DeleteRows(r) \/ Finish(r) \/ Throw(r)
    PROVE  SerialInv'
  <1> DEFINE run == runs[r]
  <1>1. /\ run \in Run /\ Careful(run, conn, bal, subs) /\ Alone
        /\ UniqueSortOrder /\ NoDanglingReference
        /\ bal' = bal
    BY DEF Types, SerialInv, AllCareful, DeleteRows, Finish, Throw
  <1>2. CASE DeleteRows(r)
    <2> DEFINE new == [run EXCEPT !.pc = "finish"]
    <2>1. /\ run.pc = "purge" /\ run.purge = {} /\ subs' = subs
          /\ conn' = Restrict(conn, DOMAIN conn \ RowsToDelete(run))
          /\ End(r) \/ Goto(r, new)
      BY <1>2 DEF DeleteRows
    <2>2. RowsToDelete(run) = Leaving(run, conn)
      BY DEF RowsToDelete, Leaving, RowsOf
    <2>3. /\ DOMAIN conn' = DOMAIN conn \ Leaving(run, conn)
          /\ \A i \in DOMAIN conn' : conn'[i] = conn[i]
      BY <2>1, <2>2 DEF Restrict
    <2>4. \A i \in Leaving(run, conn), b \in DOMAIN bal : i \notin bal[b]
      BY <1>1, <2>1 DEF Careful
    <2>5. NoDanglingReference'
      BY <1>1, <2>1, <2>3, <2>4 DEF NoDanglingReference
    <2>6. UniqueSortOrder'
      BY <1>1, <2>3 DEF UniqueSortOrder
    <2>7. new.kind = run.kind /\ new.sub = run.sub /\ new.pc = "finish"
      BY <1>1 DEF Run
    <2> HIDE DEF new
    <2>8. run.kind = "removeSubscription" => Leaving(new, conn') = {}
      BY <2>3, <2>7 DEF Leaving
    <2>9. Careful(new, conn', bal', subs')
      BY <2>7, <2>8 DEF Careful
    <2>10. AllCareful'
      BY <1>1, <2>1, <2>9, AloneStep DEF new
    <2> QED
      BY <2>5, <2>6, <2>10 DEF SerialInv
  <1>3. CASE Finish(r)
    <2>1. /\ run.pc = "finish" /\ conn' = conn /\ End(r)
          /\ subs' = IF run.kind = "removeSubscription" THEN subs \ {run.sub} ELSE subs
      BY <1>3 DEF Finish
    <2>2. run.kind = "removeSubscription" => \A i \in DOMAIN conn : conn[i].sub # run.sub
      BY <1>1, <2>1 DEF Careful, Leaving
    <2>3. NoDanglingReference'
      BY <1>1, <2>1, <2>2 DEF NoDanglingReference
    <2>4. AllCareful'
      BY <1>1, <2>1, AloneStep
    <2> QED
      BY <1>1, <2>1, <2>3, <2>4 DEF SerialInv, UniqueSortOrder
  <1>4. CASE Throw(r)
    <2>1. End(r) /\ conn' = conn /\ subs' = subs
      BY <1>4 DEF Throw
    <2>2. AllCareful'
      BY <1>1, <2>1, AloneStep
    <2> QED
      BY <1>1, <2>1, <2>2 DEF SerialInv, UniqueSortOrder, NoDanglingReference
  <1> QED
    BY <1>2, <1>3, <1>4

(* An invocation that starts while none is in progress.                    *)
LEMMA CarefulBegin ==
    ASSUME Types, SerialInv, serial', NEW r, NEW run, Begin(r, run),
           Careful(run, conn, bal, subs)
    PROVE  SerialInv'
  <1>1. serial /\ DOMAIN runs = {} /\ UNCHANGED <<subs, conn, bal>>
    BY DEF Begin, Types
  <1>2. DOMAIN runs' = {r} /\ runs'[r] = run
    BY <1>1 DEF Begin
  <1>3. AllCareful'
    BY <1>1, <1>2 DEF AllCareful, Alone
  <1> QED
    BY <1>1, <1>3 DEF SerialInv, UniqueSortOrder, NoDanglingReference

(* An operator's write while no invocation is in progress: pools name      *)
(* connects that exist.                                                    *)
LEMMA CarefulWrite ==
    ASSUME Types, SerialInv, serial', OperatorWrite, UNCHANGED <<subs, conn>>,
           \A b \in DOMAIN bal' : bal'[b] \subseteq DOMAIN conn \/ (b \in DOMAIN bal /\ bal'[b] = bal[b])
    PROVE  SerialInv'
  <1>1. serial /\ DOMAIN runs = {} /\ DOMAIN runs' = {}
    BY DEF OperatorWrite, Types
  <1>2. AllCareful'
    BY <1>1 DEF AllCareful, Alone
  <1>3. NoDanglingReference'
    BY <1>1 DEF SerialInv, NoDanglingReference
  <1> QED
    BY <1>1, <1>2, <1>3 DEF SerialInv, UniqueSortOrder

LEMMA SerialNext == Types /\ AllEntitled /\ SerialInv /\ [Next]_vars => SerialInv'
  <1> SUFFICES ASSUME Types, AllEntitled, SerialInv, [Next]_vars, serial'
               PROVE  SerialInv'
    BY DEF SerialInv
  <1>1. CASE \E r \in Runs : Step(r)
    <2>1. PICK r \in DOMAIN runs : Step(r)
      BY <1>1 DEF Step
    <2>2. serial
      BY <2>1 DEF Step, Upsert, CreateRow, UpdateRow, Purge, FindAffected, Detach, Receive,
         ReadExisting, ReadMaxSortOrder, SelectStale, SelectAll, DeleteRows, Finish
    <2>3. runs[r].todo \subseteq Uris
      BY DEF Types, Run
    <2> QED
      BY <2>1, <2>2, <2>3, CarefulReading, CarefulCreateRow, CarefulUpdateRow,
         CarefulPurge, CarefulLastStep DEF Step, Upsert, Purge
  <1>2. CASE \E r \in Runs : Throw(r)
    BY <1>2, CarefulLastStep DEF Throw
  <1>3. CASE \E r \in Runs, s \in Subs : BeginSync(r, s)
    <2>1. PICK r \in Runs, s \in Subs : BeginSync(r, s)
      BY <1>3
    <2> DEFINE run == [NewRun("sync", s) EXCEPT !.pc = "fetch"]
    <2>2. run.pc = "fetch" /\ run.sub = s /\ s \in subs /\ Begin(r, run)
      BY <2>1 DEF NewRun, BeginSync
    <2> HIDE DEF run
    <2>3. Careful(run, conn, bal, subs)
      BY <2>2 DEF Careful
    <2> QED
      BY <2>2, <2>3, CarefulBegin
  <1>4. CASE \E r \in Runs, s \in Subs : BeginRemoveSubscription(r, s)
    <2>1. PICK r \in Runs, s \in Subs : BeginRemoveSubscription(r, s)
      BY <1>4
    <2> DEFINE run == [NewRun("removeSubscription", s) EXCEPT !.pc = "read"]
    <2>2. run.pc = "read" /\ run.sub = s /\ s \in subs /\ Begin(r, run)
      BY <2>1 DEF NewRun, BeginRemoveSubscription
    <2> HIDE DEF run
    <2>3. Careful(run, conn, bal, subs)
      BY <2>2 DEF Careful
    <2> QED
      BY <2>2, <2>3, CarefulBegin
  <1>5. CASE \E r \in Runs, i \in DOMAIN conn : BeginRemoveConnect(r, i)
    <2>1. PICK r \in Runs, i \in DOMAIN conn : BeginRemoveConnect(r, i)
      BY <1>5
    <2> DEFINE run == [NewRun("removeConnect", conn[i].sub) EXCEPT !.doomed = {i}, !.purge = {i}]
    <2>2. /\ run.pc = "purge" /\ run.kind = "removeConnect" /\ run.doomed = {i}
          /\ run.purge = {i} /\ Begin(r, run)
      BY <2>1 DEF NewRun, BeginRemoveConnect
    <2> HIDE DEF run
    <2>3. Careful(run, conn, bal, subs)
      BY <2>2 DEF Careful, Leaving
    <2> QED
      BY <2>2, <2>3, CarefulBegin
  <1>6. CASE \/ \E pool \in SUBSET DOMAIN conn : CreateBalancer(pool)
             \/ \E b \in DOMAIN bal, pool \in SUBSET DOMAIN conn : UpdateBalancer(b, pool)
             \/ \E b \in DOMAIN bal : RemoveBalancer(b)
    <2>1. /\ OperatorWrite /\ UNCHANGED <<subs, conn>>
          /\ \A b \in DOMAIN bal' : \/ bal'[b] \subseteq DOMAIN conn
                                    \/ b \in DOMAIN bal /\ bal'[b] = bal[b]
      BY <1>6 DEF CreateBalancer, UpdateBalancer, RemoveBalancer, Restrict
    <2> QED
      BY <2>1, CarefulWrite
  <1>7. CASE UNCHANGED <<subs, conn, bal, runs, serial>>
    BY <1>7 DEF SerialInv, AllCareful, Alone, UniqueSortOrder, NoDanglingReference
  <1> QED
    BY <1>1, <1>2, <1>3, <1>4, <1>5, <1>6, <1>7 DEF Next, Operator, ChangeFeed, vars

LEMMA SerialAlways == Spec => []SerialInv
  <1>1. Init => SerialInv
    BY DEF Init, None, SerialInv, UniqueSortOrder, NoDanglingReference, AllCareful, Alone
  <1> QED
    BY <1>1, SerialNext, TypesCorrect, EntitledAlways, PTL DEF Spec

(* As long as invocations and operators' writes take turns, positions are  *)
(* unique over all subscriptions, pools name live rows and rows live       *)
(* subscriptions, in every state, also between the steps of a deletion and *)
(* after an invocation stopped half-way (globalMaxAgg; the purge of pools  *)
(* before deleteMany).                                                     *)
THEOREM SerialIntegrityCorrect == Spec => []SerialIntegrity
  <1>1. SerialInv => SerialIntegrity
    BY DEF SerialInv, SerialIntegrity
  <1> QED
    BY <1>1, SerialAlways, PTL

-----------------------------------------------------------------------------
(* What a synchronisation has made of the entries it is done with: a row   *)
(* it read and did not match lost every entry it matches to an older       *)
(* placed one; and if nothing overlaps with it, the rows of the            *)
(* subscription, but those not matched, are these entries, one row each.   *)
Placed(run, rows) ==
    \A c \in run.snap, u \in Incoming(run.list) \ run.todo :
       c.id \notin run.matched /\ Matches(c, u) =>
          \E d \in run.snap :
             /\ d.id \in run.matched
             /\ Before(d, c) /\ Matches(d, u)
             /\ run.solo => d.id \in DOMAIN rows /\ rows[d.id].raw = u

Live(run, rows) ==
    {i \in DOMAIN rows : rows[i].sub = run.sub} \ (SnapIds(run) \ run.matched)

Mirrored(run, rows) ==
    /\ {rows[i].raw : i \in Live(run, rows)} = Incoming(run.list) \ run.todo
    /\ \A i, j \in Live(run, rows) : rows[i].raw = rows[j].raw => i = j

AsRead(run, rows) ==
    \A c \in run.snap : c.id \notin run.matched =>
        c.id \in DOMAIN rows /\ rows[c.id].raw = c.raw

Faithful(run, rows) ==
    run.kind = "sync" =>
       /\ run.pc \in {"fetch", "read"} => run.matched = {}
       /\ run.pc \notin {"fetch", "read"} =>
             /\ run.todo \subseteq Incoming(run.list)
             /\ Placed(run, rows)
             /\ run.solo => Mirrored(run, rows)
       /\ run.pc \in {"max", "upsert"} /\ run.solo => AsRead(run, rows)
       /\ run.pc \in {"purge", "detach", "finish"} => run.todo = {}
       /\ run.pc = "finish" /\ run.solo => (SnapIds(run) \ run.matched) \cap DOMAIN rows = {}

SoloAlone == \A q, r \in DOMAIN runs : runs[q].solo => q = r

AllFaithful == SoloAlone /\ \A r \in DOMAIN runs : Faithful(runs[r], conn)

(* What the rows are does not matter to one that others overlap with.      *)
LEMMA FaithfulCrowded ==
    ASSUME NEW run \in Run, NEW old, NEW new, Faithful(run, old)
    PROVE  /\ Faithful([run EXCEPT !.solo = FALSE], new)
           /\ ~ run.solo => Faithful(run, new)
  <1> DEFINE lost == [run EXCEPT !.solo = FALSE]
  <1>1. /\ lost.kind = run.kind /\ lost.pc = run.pc /\ lost.list = run.list
        /\ lost.snap = run.snap /\ lost.matched = run.matched /\ lost.todo = run.todo
        /\ lost.solo = FALSE /\ run.solo \in BOOLEAN
    BY DEF Run
  <1> HIDE DEF lost
  <1>2. Placed(run, old) => Placed(lost, new)
    BY <1>1 DEF Placed
  <1>3. ~ run.solo /\ Placed(run, old) => Placed(run, new)
    BY DEF Placed
  <1>4. Faithful(lost, new)
    BY <1>1, <1>2 DEF Faithful
  <1>5. ~ run.solo => Faithful(run, new)
    BY <1>3 DEF Faithful
  <1> QED
    BY <1>4, <1>5 DEF lost

(* It suffices to look at the invocation that moves.                       *)
LEMMA FaithfulStep ==
    ASSUME Types, AllFaithful, NEW r \in DOMAIN runs,
           \/ End(r)
           \/ \E new : Goto(r, new) /\ new.solo = runs[r].solo /\ Faithful(new, conn')
    PROVE  AllFaithful'
  <1>1. \A q \in DOMAIN runs \ {r} : runs[q] \in Run /\ ~ runs[q].solo
    BY DEF AllFaithful, SoloAlone, Types
  <1>2. \A q \in DOMAIN runs \ {r} : Faithful(runs[q], conn')
    BY <1>1, FaithfulCrowded DEF AllFaithful
  <1>3. CASE End(r)
    BY <1>2, <1>3 DEF AllFaithful, SoloAlone, End, Restrict
  <1>4. CASE \E new : Goto(r, new) /\ new.solo = runs[r].solo /\ Faithful(new, conn')
    <2>1. PICK new : Goto(r, new) /\ new.solo = runs[r].solo /\ Faithful(new, conn')
      BY <1>4
    <2>2. /\ DOMAIN runs' = DOMAIN runs /\ runs'[r] = new
          /\ \A q \in DOMAIN runs \ {r} : runs'[q] = runs[q]
      BY <2>1 DEF Goto
    <2> QED
      BY <1>2, <2>1, <2>2 DEF AllFaithful, SoloAlone
  <1> QED
    BY <1>3, <1>4

(* The steps that leave the rows alone: response, reads, stale rows, pools. *)
LEMMA FaithfulReading ==
    ASSUME Types, AllFaithful, NEW r \in DOMAIN runs,
           Receive(r) \/ ReadMaxSortOrder(r) \/ SelectStale(r) \/ SelectAll(r)
    PROVE  AllFaithful'
  <1> DEFINE run == runs[r]
  <1>1. run \in Run /\ Faithful(run, conn) /\ conn' = conn
    BY DEF Types, AllFaithful, Receive, ReadMaxSortOrder, SelectStale, SelectAll
  <1>2. CASE Receive(r)
    <2> DEFINE new == [run EXCEPT !.pc = "read", !.list = remote[run.sub]]
    <2>1. /\ new.pc = "read" /\ new.kind = run.kind /\ new.matched = run.matched
          /\ new.solo = run.solo /\ Goto(r, new) /\ run.pc = "fetch"
      BY <1>1, <1>2 DEF Run, Receive
    <2> HIDE DEF new
    <2>2. Faithful(new, conn)
      BY <1>1, <2>1 DEF Faithful
    <2> QED
      BY <1>1, <2>1, <2>2, FaithfulStep
  <1>3. CASE ReadMaxSortOrder(r)
    <2>1. PICK m : Goto(r, [run EXCEPT !.pc = "upsert", !.next = m])
      BY <1>3 DEF ReadMaxSortOrder
    <2> DEFINE new == [run EXCEPT !.pc = "upsert", !.next = m]
    <2>2. /\ new.pc = "upsert" /\ new.kind = run.kind /\ new.sub = run.sub
          /\ new.list = run.list /\ new.snap = run.snap /\ new.todo = run.todo
          /\ new.matched = run.matched /\ new.solo = run.solo /\ run.pc = "max"
      BY <1>1, <1>3 DEF Run, ReadMaxSortOrder
    <2> HIDE DEF new
    <2>3. Faithful(new, conn)
      BY <1>1, <2>2 DEF Faithful, Placed, Mirrored, AsRead, Live, SnapIds
    <2> QED
      BY <1>1, <2>1, <2>2, <2>3, FaithfulStep DEF new
  <1>4. CASE SelectStale(r)
    <2> DEFINE stale == {c.id : c \in run.snap} \ run.matched
               new == [run EXCEPT !.pc = "purge", !.doomed = stale, !.purge = stale]
    <2>1. Goto(r, new) /\ run.pc = "upsert" /\ run.todo = {}
      BY <1>4 DEF SelectStale
    <2> HIDE DEF stale
    <2>2. /\ new.pc = "purge" /\ new.kind = run.kind /\ new.sub = run.sub
          /\ new.list = run.list /\ new.snap = run.snap /\ new.todo = run.todo
          /\ new.matched = run.matched /\ new.solo = run.solo
      BY <1>1 DEF Run
    <2> HIDE DEF new
    <2>3. Faithful(new, conn)
      BY <1>1, <2>1, <2>2 DEF Faithful, Placed, Mirrored, Live, SnapIds
    <2> QED
      BY <1>1, <2>1, <2>2, <2>3, FaithfulStep
  <1>5. CASE SelectAll(r)
    <2> DEFINE new == [run EXCEPT !.pc = "purge", !.purge = RowsOf(run.sub)]
    <2>1. new.kind = "removeSubscription" /\ new.solo = run.solo /\ Goto(r, new)
      BY <1>1, <1>5 DEF Run, SelectAll
    <2> HIDE DEF new
    <2>2. Faithful(new, conn)
      BY <2>1 DEF Faithful
    <2> QED
      BY <1>1, <2>1, <2>2, FaithfulStep
  <1> QED
    BY <1>2, <1>3, <1>4, <1>5

(* Before the first entry: the rows read are all there are.                *)
LEMMA FaithfulReadExisting ==
    ASSUME Types, AllFaithful, NEW r \in DOMAIN runs, ReadExisting(r)
    PROVE  AllFaithful'
  <1> DEFINE run  == runs[r]
             snap == {Read(i) : i \in RowsOf(run.sub)}
             new  == [run EXCEPT !.pc = "max", !.snap = snap, !.todo = Incoming(run.list)]
  <1>1. run \in Run /\ Faithful(run, conn) /\ conn' = conn
    BY DEF Types, AllFaithful, ReadExisting
  <1>2. SUFFICES ASSUME Goto(r, new)
                 PROVE  new.solo = run.solo /\ Faithful(new, conn)
    BY <1>1, FaithfulStep DEF ReadExisting
  <1>3. run.kind = "sync" /\ run.pc = "read"
    BY DEF ReadExisting
  <1>4. run.matched = {}
    BY <1>1, <1>3 DEF Faithful
  <1>5. \A i \in RowsOf(run.sub) : Read(i) \in snap /\ Read(i).id = i
    BY DEF Read
  <1>6. \A c \in snap : c.id \in RowsOf(run.sub) /\ c.raw = conn[c.id].raw
    BY DEF Read
  <1> HIDE DEF snap
  <1>7. /\ new.pc = "max" /\ new.snap = snap /\ new.todo = Incoming(run.list)
        /\ new.list = run.list /\ new.matched = {} /\ new.sub = run.sub
        /\ new.solo = run.solo
    BY <1>1, <1>4 DEF Run
  <1> HIDE DEF new
  <1>8. Placed(new, conn)
    BY <1>7 DEF Placed
  <1>9. AsRead(new, conn)
    BY <1>6, <1>7 DEF AsRead, RowsOf
  <1>10. Live(new, conn) = {}
    BY <1>5, <1>7 DEF Live, SnapIds, RowsOf
  <1>11. Mirrored(new, conn)
    BY <1>7, <1>10 DEF Mirrored
  <1> QED
    BY <1>7, <1>8, <1>9, <1>11 DEF Faithful

(* An entry without a row: nothing that was read and is left matches it.   *)
LEMMA FaithfulCreateRow ==
    ASSUME Types, AllEntitled, AllFaithful, NEW r \in DOMAIN runs,
           NEW u \in runs[r].todo, CreateRow(r, u)
    PROVE  AllFaithful'
  <1> DEFINE run == runs[r]
             row == [sub |-> run.sub, raw |-> u, identityKey |-> Identity[u],
                     sortOrder |-> run.next + 1]
             new == [run EXCEPT !.next = run.next + 1, !.todo = run.todo \ {u}]
  <1>1. /\ run \in Run /\ Faithful(run, conn)
        /\ run.pc = "upsert" /\ Goto(r, new) /\ Candidates(run, u) = {}
        /\ conn' = [i \in DOMAIN conn \cup {nextId} |-> IF i = nextId THEN row ELSE conn[i]]
    BY DEF Types, AllFaithful, CreateRow
  <1>2. run.kind \in {"sync", "removeConnect"} /\ run.kind # "removeConnect"
    BY <1>1 DEF AllEntitled, Entitled, Run, Kinds
  <1>3. nextId \notin DOMAIN conn /\ nextId \notin SnapIds(run)
    <2>1. \A c \in run.snap : c.id \in UsedIds
      BY <1>1 DEF Run, SnapRow
    <2> QED
      BY <2>1 DEF Types, Table, UsedIds, SnapIds
  <1>4. /\ DOMAIN conn' = DOMAIN conn \cup {nextId}
        /\ conn'[nextId].raw = u /\ conn'[nextId].sub = run.sub
        /\ \A i \in DOMAIN conn : conn'[i] = conn[i]
    BY <1>1, <1>3
  <1>5. /\ new.pc = "upsert" /\ new.snap = run.snap /\ new.todo = run.todo \ {u}
        /\ new.list = run.list /\ new.matched = run.matched /\ new.sub = run.sub
        /\ new.solo = run.solo /\ new.kind = "sync"
    BY <1>1, <1>2 DEF Run
  <1> HIDE DEF new, row
  <1>6. /\ run.todo \subseteq Incoming(run.list) /\ Placed(run, conn)
        /\ run.solo => Mirrored(run, conn) /\ AsRead(run, conn)
    BY <1>1, <1>2 DEF Faithful
  <1>7. Placed(new, conn')
    <2>1. \A c \in run.snap : c.id \notin run.matched => ~ Matches(c, u)
      BY <1>1 DEF Candidates
    <2> QED
      BY <1>4, <1>5, <1>6, <2>1 DEF Placed
  <1>8. run.solo => AsRead(new, conn')
    BY <1>4, <1>5, <1>6 DEF AsRead
  <1>9. run.solo => Mirrored(new, conn')
    <2> SUFFICES ASSUME run.solo PROVE Mirrored(new, conn')
      OBVIOUS
    <2>1. Live(new, conn') = Live(run, conn) \cup {nextId} /\ Live(run, conn) \subseteq DOMAIN conn
      BY <1>3, <1>4, <1>5 DEF Live, SnapIds
    <2>2. {conn[i].raw : i \in Live(run, conn)} = Incoming(run.list) \ run.todo
      BY <1>6 DEF Mirrored
    <2>3. {conn'[i].raw : i \in Live(new, conn')}
             = {conn[i].raw : i \in Live(run, conn)} \cup {u}
      BY <1>4, <2>1
    <2>4. {conn'[i].raw : i \in Live(new, conn')} = Incoming(new.list) \ new.todo
      BY <1>5, <1>6, <2>2, <2>3
    <2>5. \A i \in Live(run, conn) : conn'[i].raw # u
      BY <1>4, <2>1, <2>2
    <2> QED
      BY <1>4, <1>6, <2>1, <2>4, <2>5 DEF Mirrored
  <1>10. Faithful(new, conn')
    BY <1>5, <1>6, <1>7, <1>8, <1>9 DEF Faithful
  <1> QED
    BY <1>1, <1>5, <1>10, FaithfulStep DEF new

(* An entry taken over by the first row it matches: the others it matches  *)
(* are placed behind that one.                                             *)
LEMMA FaithfulUpdateRow ==
    ASSUME Types, AllEntitled, AllFaithful, NEW r \in DOMAIN runs,
           NEW u \in runs[r].todo, NEW c \in runs[r].snap, UpdateRow(r, u, c)
    PROVE  AllFaithful'
  <1> DEFINE run == runs[r]
             new == [run EXCEPT !.todo = run.todo \ {u}, !.matched = run.matched \cup {c.id}]
  <1>1. /\ run \in Run /\ Faithful(run, conn) /\ Entitled(run, conn)
        /\ run.pc = "upsert" /\ c.id \notin run.matched /\ Matches(c, u)
        /\ \A d \in Candidates(run, u) : d = c \/ Before(c, d)
    BY DEF Types, AllFaithful, AllEntitled, UpdateRow, Candidates
  <1>2. run.kind = "sync"
    BY <1>1 DEF Entitled, Run, Kinds
  <1>3. /\ new.pc = "upsert" /\ new.snap = run.snap /\ new.todo = run.todo \ {u}
        /\ new.list = run.list /\ new.matched = run.matched \cup {c.id}
        /\ new.sub = run.sub /\ new.solo = run.solo /\ new.kind = "sync"
    BY <1>1, <1>2 DEF Run
  <1>4. End(r) \/ Goto(r, new)
    BY DEF UpdateRow
  <1> HIDE DEF new
  <1>5. /\ run.todo \subseteq Incoming(run.list) /\ Placed(run, conn)
        /\ run.solo => Mirrored(run, conn) /\ AsRead(run, conn)
    BY <1>1, <1>2 DEF Faithful
  <1>6. /\ DOMAIN conn' = DOMAIN conn
        /\ \A i \in DOMAIN conn : i # c.id => conn'[i] = conn[i]
        /\ \A i \in DOMAIN conn : conn'[i].sub = conn[i].sub
    <2>1. \A i \in DOMAIN conn : i # c.id => conn'[i] = conn[i]
      BY DEF UpdateRow
    <2> QED
      BY <2>1, RowTakesOver
  <1>7. run.solo => c.id \in DOMAIN conn /\ conn[c.id].sub = run.sub /\ conn'[c.id].raw = u
    <2> SUFFICES ASSUME run.solo
                 PROVE  c.id \in DOMAIN conn /\ conn[c.id].sub = run.sub /\ conn'[c.id].raw = u
      OBVIOUS
    <2>1. c.id \in DOMAIN conn /\ conn[c.id].raw = c.raw /\ conn[c.id].sub = run.sub
      BY <1>1, <1>2, <1>5 DEF AsRead, Entitled
    <2>2. conn[c.id] \in Row
      BY <2>1 DEF Types, Table
    <2> DEFINE raw == IF c.raw = u THEN conn[c.id].raw ELSE u
               key == IF c.identityKey = Identity[u] THEN conn[c.id].identityKey
                                                     ELSE Identity[u]
               row == [conn[c.id] EXCEPT !.raw = raw, !.identityKey = key]
    <2>3. conn'[c.id] = row \/ (c.raw = u /\ conn'[c.id] = conn[c.id])
      BY <2>1 DEF UpdateRow
    <2>4. raw = u
      BY <2>1
    <2> HIDE DEF raw, key
    <2>5. row.raw = raw
      BY <2>2 DEF Row
    <2> QED
      BY <2>1, <2>3, <2>4, <2>5
  <1>8. Placed(new, conn')
    <2> SUFFICES ASSUME NEW d \in run.snap, NEW w \in Incoming(run.list) \ (run.todo \ {u}),
                        d.id \notin run.matched, d.id # c.id, Matches(d, w)
                 PROVE  \E e \in run.snap :
                           /\ e.id \in run.matched \cup {c.id}
                           /\ Before(e, d) /\ Matches(e, w)
                           /\ run.solo => e.id \in DOMAIN conn' /\ conn'[e.id].raw = w
      BY <1>3 DEF Placed
    <2>1. CASE w = u
      <3>1. Before(c, d)
        BY <1>1, <2>1 DEF Candidates
      <3> QED
        BY <1>1, <1>6, <1>7, <2>1, <3>1
    <2>2. CASE w # u
      <3>1. PICK e \in run.snap :
               /\ e.id \in run.matched
               /\ Before(e, d) /\ Matches(e, w)
               /\ run.solo => e.id \in DOMAIN conn /\ conn[e.id].raw = w
        BY <1>5, <2>2 DEF Placed
      <3>2. e.id # c.id
        BY <1>1, <3>1
      <3> QED
        BY <1>6, <3>1, <3>2
    <2> QED
      BY <2>1, <2>2
  <1>9. run.solo => AsRead(new, conn')
    BY <1>3, <1>5, <1>6 DEF AsRead
  <1>10. run.solo => Mirrored(new, conn')
    <2> SUFFICES ASSUME run.solo PROVE Mirrored(new, conn')
      OBVIOUS
    <2>1. /\ Live(new, conn') = Live(run, conn) \cup {c.id}
          /\ Live(run, conn) \subseteq DOMAIN conn /\ c.id \notin Live(run, conn)
      BY <1>1, <1>3, <1>6, <1>7 DEF Live, SnapIds
    <2>2. {conn[i].raw : i \in Live(run, conn)} = Incoming(run.list) \ run.todo
      BY <1>5 DEF Mirrored
    <2>3. \A i \in Live(run, conn) : conn'[i] = conn[i]
      BY <1>6, <2>1
    <2>4. {conn'[i].raw : i \in Live(new, conn')}
             = {conn[i].raw : i \in Live(run, conn)} \cup {u}
      BY <1>7, <2>1, <2>3
    <2>5. {conn'[i].raw : i \in Live(new, conn')} = Incoming(new.list) \ new.todo
      BY <1>3, <1>5, <2>2, <2>4
    <2>6. \A i \in Live(run, conn) : conn'[i].raw # u
      BY <2>2, <2>3
    <2> QED
      BY <1>5, <1>7, <2>1, <2>3, <2>5, <2>6 DEF Mirrored
  <1>11. Faithful(new, conn')
    BY <1>3, <1>5, <1>8, <1>9, <1>10 DEF Faithful
  <1> QED
    BY <1>3, <1>4, <1>11, FaithfulStep DEF new

(* On its way through the pools a synchronisation keeps what it holds.     *)
LEMMA FaithfulPurge ==
    ASSUME Types, AllFaithful, NEW r \in DOMAIN runs,
           \/ \E x \in runs[r].purge : FindAffected(r, x)
           \/ \E a \in runs[r].aff : Detach(r, a)
    PROVE  AllFaithful'
  <1> DEFINE run == runs[r]
  <1>1. run \in Run /\ Faithful(run, conn) /\ conn' = conn
    BY DEF Types, AllFaithful, FindAffected, Detach
  <1>2. PICK purge, cur, aff, pc :
           /\ pc \in {"purge", "detach"} /\ run.pc \in {"purge", "detach"}
           /\ \/ End(r)
              \/ Goto(r, [run EXCEPT !.purge = purge, !.cur = cur, !.aff = aff, !.pc = pc])
    <2>1. CASE \E x \in run.purge : FindAffected(r, x)
      BY <2>1 DEF FindAffected
    <2>2. CASE \E a \in run.aff : Detach(r, a)
      <3>1. PICK a \in run.aff : Detach(r, a)
        BY <2>2
      <3> DEFINE rest == run.aff \ {a}
                 pc == IF rest = {} THEN "purge" ELSE "detach"
      <3>2. [run EXCEPT !.aff = rest, !.pc = pc]
               = [run EXCEPT !.purge = run.purge, !.cur = run.cur, !.aff = rest, !.pc = pc]
        BY <1>1 DEF Run
      <3>3. /\ End(r) \/ Goto(r, [run EXCEPT !.aff = rest, !.pc = pc])
            /\ run.pc = "detach" /\ pc \in {"purge", "detach"}
        BY <3>1 DEF Detach
      <3> HIDE DEF rest, pc
      <3> QED
        BY <3>2, <3>3, ZenonT(30)
    <2> QED
      BY <2>1, <2>2
  <1> DEFINE new == [run EXCEPT !.purge = purge, !.cur = cur, !.aff = aff, !.pc = pc]
  <1>3. /\ new.kind = run.kind /\ new.sub = run.sub /\ new.list = run.list
        /\ new.snap = run.snap /\ new.matched = run.matched /\ new.todo = run.todo
        /\ new.solo = run.solo /\ new.pc = pc
    BY <1>1 DEF Run
  <1> HIDE DEF new
  <1>4. Faithful(new, conn)
    BY <1>1, <1>2, <1>3 DEF Faithful, Placed, Mirrored, Live, SnapIds
  <1> QED
    BY <1>1, <1>2, <1>3, <1>4, FaithfulStep DEF new

(* The stale rows go: those that stay are the entries.                     *)
LEMMA FaithfulDeleteRows ==
    ASSUME Types, AllEntitled, AllFaithful, NEW r \in DOMAIN runs, DeleteRows(r)
    PROVE  AllFaithful'
  <1> DEFINE run == runs[r]
             new == [run EXCEPT !.pc = "finish"]
  <1>1. /\ run \in Run /\ Faithful(run, conn) /\ Entitled(run, conn) /\ run.pc = "purge"
        /\ conn' = Restrict(conn, DOMAIN conn \ RowsToDelete(run))
        /\ End(r) \/ Goto(r, new)
    BY DEF Types, AllFaithful, AllEntitled, DeleteRows
  <1>2. /\ new.kind = run.kind /\ new.sub = run.sub /\ new.list = run.list
        /\ new.snap = run.snap /\ new.matched = run.matched /\ new.todo = run.todo
        /\ new.solo = run.solo /\ new.pc = "finish"
    BY <1>1 DEF Run
  <1> HIDE DEF new
  <1>3. ASSUME run.kind = "sync"
        PROVE  Faithful(new, conn')
    <2>1. RowsToDelete(run) = SnapIds(run) \ run.matched
      BY <1>1, <1>3 DEF RowsToDelete, Entitled
    <2>2. /\ DOMAIN conn' = DOMAIN conn \ (SnapIds(run) \ run.matched)
          /\ \A i \in DOMAIN conn' : conn'[i] = conn[i]
      BY <1>1, <2>1 DEF Restrict
    <2>3. run.todo \subseteq Incoming(run.list) /\ run.todo = {} /\ Placed(run, conn)
      BY <1>1, <1>3 DEF Faithful
    <2>4. Placed(new, conn')
      BY <1>2, <2>2, <2>3 DEF Placed
    <2>5. Live(new, conn') = Live(run, conn) /\ Live(run, conn) \subseteq DOMAIN conn'
      BY <1>2, <2>2 DEF Live, SnapIds
    <2>6. \A i \in Live(run, conn) : conn'[i] = conn[i]
      BY <2>2, <2>5
    <2>7. Mirrored(run, conn) => Mirrored(new, conn')
      BY <1>2, <2>5, <2>6 DEF Mirrored
    <2>8. (SnapIds(new) \ new.matched) \cap DOMAIN conn' = {}
      BY <1>2, <2>2 DEF SnapIds
    <2>9. run.solo => Mirrored(new, conn')
      BY <1>1, <1>3, <2>7 DEF Faithful
    <2> QED
      BY <1>2, <2>3, <2>4, <2>8, <2>9 DEF Faithful
  <1>4. Faithful(new, conn')
    BY <1>2, <1>3 DEF Faithful
  <1> QED
    BY <1>1, <1>2, <1>4, FaithfulStep DEF new

(* An invocation that starts: those in progress are no longer alone.       *)
LEMMA FaithfulBegin ==
    ASSUME Types, AllFaithful, UNCHANGED conn, NEW r, NEW run, Begin(r, run),
           run.solo = (DOMAIN runs = {}), Faithful(run, conn)
    PROVE  AllFaithful'
  <1>1. /\ r \notin DOMAIN runs /\ DOMAIN runs' = DOMAIN runs \cup {r} /\ runs'[r] = run
        /\ \A q \in DOMAIN runs : runs'[q] = [runs[q] EXCEPT !.solo = FALSE]
    BY DEF Begin
  <1>2. \A q \in DOMAIN runs : /\ runs[q] \in Run
                               /\ ~ [runs[q] EXCEPT !.solo = FALSE].solo
    BY DEF Types, Run
  <1>3. \A q \in DOMAIN runs : Faithful(runs'[q], conn)
    BY <1>1, <1>2, FaithfulCrowded DEF AllFaithful
  <1>4. SoloAlone'
    BY <1>1, <1>2 DEF SoloAlone
  <1> QED
    BY <1>1, <1>3, <1>4 DEF AllFaithful

LEMMA FaithfulNext == Types /\ AllEntitled /\ AllFaithful /\ [Next]_vars => AllFaithful'
  <1> SUFFICES ASSUME Types, AllEntitled, AllFaithful, [Next]_vars
               PROVE  AllFaithful'
    OBVIOUS
  <1>1. CASE \E r \in Runs : Step(r)
    <2>1. PICK r \in DOMAIN runs : Step(r)
      BY <1>1 DEF Step
    <2>2. CASE Finish(r)
      BY <2>2, FaithfulStep DEF Finish
    <2> QED
      BY <2>1, <2>2, FaithfulReading, FaithfulReadExisting, FaithfulCreateRow,
         FaithfulUpdateRow, FaithfulPurge, FaithfulDeleteRows DEF Step, Upsert, Purge
  <1>2. CASE \E r \in Runs : Throw(r)
    BY <1>2, FaithfulStep DEF Throw
  <1>3. CASE \E r \in Runs, s \in Subs : BeginSync(r, s)
    <2>1. PICK r \in Runs, s \in Subs : BeginSync(r, s)
      BY <1>3
    <2> DEFINE run == [NewRun("sync", s) EXCEPT !.pc = "fetch"]
    <2>2. /\ run.pc = "fetch" /\ run.matched = {} /\ run.solo = (DOMAIN runs = {})
          /\ Begin(r, run) /\ conn' = conn
      BY <2>1 DEF NewRun, BeginSync, Begin
    <2> HIDE DEF run
    <2>3. Faithful(run, conn)
      BY <2>2 DEF Faithful
    <2> QED
      BY <2>2, <2>3, FaithfulBegin
  <1>4. CASE \E r \in Runs, s \in Subs : BeginRemoveSubscription(r, s)
    <2>1. PICK r \in Runs, s \in Subs : BeginRemoveSubscription(r, s)
      BY <1>4
    <2> DEFINE run == [NewRun("removeSubscription", s) EXCEPT !.pc = "read"]
    <2>2. /\ run.kind = "removeSubscription" /\ run.solo = (DOMAIN runs = {})
          /\ Begin(r, run) /\ conn' = conn
      BY <2>1 DEF NewRun, BeginRemoveSubscription, Begin
    <2> HIDE DEF run
    <2>3. Faithful(run, conn)
      BY <2>2 DEF Faithful
    <2> QED
      BY <2>2, <2>3, FaithfulBegin
  <1>5. CASE \E r \in Runs, i \in DOMAIN conn : BeginRemoveConnect(r, i)
    <2>1. PICK r \in Runs, i \in DOMAIN conn : BeginRemoveConnect(r, i)
      BY <1>5
    <2> DEFINE run == [NewRun("removeConnect", conn[i].sub) EXCEPT !.doomed = {i}, !.purge = {i}]
    <2>2. /\ run.kind = "removeConnect" /\ run.solo = (DOMAIN runs = {})
          /\ Begin(r, run) /\ conn' = conn
      BY <2>1 DEF NewRun, BeginRemoveConnect, Begin
    <2> HIDE DEF run
    <2>3. Faithful(run, conn)
      BY <2>2 DEF Faithful
    <2> QED
      BY <2>2, <2>3, FaithfulBegin
  <1>6. CASE OperatorWrite /\ UNCHANGED conn
    <2>1. /\ DOMAIN runs' = DOMAIN runs
          /\ \A q \in DOMAIN runs : runs'[q] = [runs[q] EXCEPT !.solo = FALSE]
      BY <1>6 DEF OperatorWrite
    <2>2. \A q \in DOMAIN runs : /\ runs[q] \in Run
                                 /\ ~ [runs[q] EXCEPT !.solo = FALSE].solo
      BY DEF Types, Run
    <2>3. \A q \in DOMAIN runs : Faithful(runs'[q], conn')
      BY <2>1, <2>2, FaithfulCrowded DEF AllFaithful
    <2> QED
      BY <2>1, <2>2, <2>3 DEF AllFaithful, SoloAlone
  <1>7. CASE UNCHANGED <<conn, runs>>
    BY <1>7 DEF AllFaithful, SoloAlone
  <1> QED
    BY <1>1, <1>2, <1>3, <1>4, <1>5, <1>6, <1>7 DEF Next, Operator, ChangeFeed, vars,
       CreateBalancer, UpdateBalancer, RemoveBalancer

LEMMA FaithfulAlways == Spec => []AllFaithful
  <1>1. Init => AllFaithful
    BY DEF Init, None, AllFaithful, SoloAlone
  <1> QED
    BY <1>1, FaithfulNext, TypesCorrect, EntitledAlways, PTL DEF Spec

(* A row goes as stale only if each listed entry that matches it went to a *)
(* row placed before it, which stays, with that entry, unless something    *)
(* overlaps: a name and groups an operator gave are lost with the node or  *)
(* with a duplicate only (poolSorted.find and matchedIds of fetchConnects). *)
THEOREM StaleIsUnlistedOrDuplicateCorrect == Spec => []StaleIsUnlistedOrDuplicate
  <1>1. Types /\ AllEntitled /\ AllFaithful => StaleIsUnlistedOrDuplicate
    <2> SUFFICES ASSUME Types, AllEntitled, AllFaithful,
                        NEW r \in DOMAIN runs, runs[r].kind = "sync",
                        runs[r].pc \in {"purge", "detach", "finish"},
                        NEW c \in runs[r].snap, NEW u \in Incoming(runs[r].list),
                        c.id \in runs[r].doomed, Matches(c, u)
                 PROVE  \E d \in runs[r].snap :
                           /\ d.id \in runs[r].matched
                           /\ Before(d, c) /\ Matches(d, u)
                           /\ runs[r].solo => d.id \in DOMAIN conn /\ conn[d.id].raw = u
      BY DEF StaleIsUnlistedOrDuplicate
    <2>1. Entitled(runs[r], conn) /\ Faithful(runs[r], conn)
      BY DEF AllEntitled, AllFaithful
    <2>2. c.id \notin runs[r].matched
      BY <2>1 DEF Entitled
    <2>3. runs[r].todo = {} /\ Placed(runs[r], conn)
      BY <2>1 DEF Faithful
    <2> QED
      BY <2>2, <2>3 DEF Placed
  <1> QED
    BY <1>1, TypesCorrect, EntitledAlways, FaithfulAlways, PTL

(* A synchronisation that nothing overlaps with leaves exactly one row per *)
(* listed node, whatever earlier ones, interleaved or cut short, left      *)
(* behind (the loop over entries and staleConnects of fetchConnects).      *)
THEOREM SoloSyncMirrorsCorrect == Spec => []SoloSyncMirrors
  <1>1. AllFaithful => SoloSyncMirrors
    <2> SUFFICES ASSUME AllFaithful, NEW r \in DOMAIN runs, runs[r].kind = "sync",
                        runs[r].pc = "finish", runs[r].solo
                 PROVE  Mirrors(runs[r].sub, Incoming(runs[r].list))
      BY DEF SoloSyncMirrors
    <2>1. Faithful(runs[r], conn)
      BY DEF AllFaithful
    <2>2. /\ Mirrored(runs[r], conn) /\ runs[r].todo = {}
          /\ (SnapIds(runs[r]) \ runs[r].matched) \cap DOMAIN conn = {}
      BY <2>1 DEF Faithful
    <2>3. Live(runs[r], conn) = RowsOf(runs[r].sub)
      BY <2>2 DEF Live, RowsOf
    <2> QED
      BY <2>2, <2>3 DEF Mirrored, Mirrors
  <1> QED
    BY <1>1, FaithfulAlways, PTL

-----------------------------------------------------------------------------
(* What the keys of a row are made of.                                     *)
CaseGiven(v) ==
    /\ \A i \in DOMAIN v.query : Cased(v.query[i])
    /\ v.userUpper => v.user \in Uuids

Fine(v) == v \in Uri /\ CaseGiven(v)

(* What neither the reference sees nor the provider changes.               *)
NodeKeys == {"type", "security", "pbk", "path"}
Rest(v) == {Norm(p) : p \in {p \in Range(v.query) : /\ p.word # Empty
                                                   /\ p.key \notin NodeKeys \cup SecretKeys}}

Kept(v, w) ==
    /\ v.scheme = w.scheme /\ v.pathname = w.pathname
    /\ v.scheme # "vless" => Rest(v) = Rest(w)

IInv == IdentityTypeOK /\ Fine(uri) /\ Fine(connect.raw) /\ Kept(uri, connect.raw)

Plainly == [key: Keys, word: Words, upper: BOOLEAN]

-----------------------------------------------------------------------------
(* A canonical query is a set of parameters without their spelling.        *)
LEMMA CanonicalType ==
    ASSUME NEW query \in Seq(Param)
    PROVE  Canonical(query) \subseteq Plainly
<1>1. ASSUME NEW p \in Param PROVE Norm(p) \in Plainly
  <2>1. p.key \in Keys /\ p.word \in Words /\ p.upper \in BOOLEAN
    BY DEF Param
  <2>2. BoolWord(p.word) \in Words
    BY <2>1, IdentityAssumption DEF BoolWord
  <2>3. (p.upper /\ p.word \in Texts /\ p.key \notin CaselessKeys) \in BOOLEAN
    OBVIOUS
  <2> QED BY <2>1, <2>2, <2>3 DEF Norm, Plainly
<1>2. Range(query) \subseteq Param
  BY DEF Range
<1> QED BY <1>1, <1>2 DEF Canonical

(* The core of a vless URI is what the full key has of the core's          *)
(* parameters: what stripRedundantVlessIdentityQuery removes or renames is *)
(* no part of it.                                                          *)
LEMMA CoreWithinIdentity ==
    ASSUME NEW c \in SUBSET Plainly
    PROVE  {x \in StripRedundant(c) : x.key \in CoreKeys \ {"sni", "servername", "sid"}}
             = {x \in c : x.key \in CoreKeys \ {"sni", "servername", "sid"}}
<1> DEFINE sni == {x \in c : x.key = "sni"}
           server == {[x EXCEPT !.key = "sni"] : x \in {x \in c : x.key = "servername"}}
           tcp == \E x \in c : x.key = "type" /\ x.word = "tcp"
           kept == {x \in c :
            /\ ~ (x.key = "encryption" /\ x.word = "none")
            /\ ~ (x.key = "headertype" /\ x.word = "none" /\ tcp)
            /\ x.key # "sid"
            /\ x.key = "servername" => sni \notin {{}, server} }
           more == IF sni = {} THEN server ELSE {}
           K == CoreKeys \ {"sni", "servername", "sid"}
<1>1. StripRedundant(c) = kept \cup more
  BY DEF StripRedundant
<1>2. \A k \in K : k \notin {"encryption", "headertype", "sid", "servername", "sni"}
  BY DEF CoreKeys
<1> HIDE DEF K
<1>3. \A x \in c : x.key \in K => x \in kept
  BY <1>2
<1>4. \A x \in kept : x \in c
  OBVIOUS
<1>5. ASSUME NEW x \in more PROVE x.key \notin K
  <2>1. x \in server
    OBVIOUS
  <2>2. PICK y \in c : x = [y EXCEPT !.key = "sni"] /\ y.key = "servername"
    BY <2>1
  <2>3. x.key = "sni"
    BY <2>2 DEF Plainly
  <2> QED BY <2>3, <1>2
<1> QED BY <1>1, <1>3, <1>4, <1>5 DEF K

-----------------------------------------------------------------------------
(* Two spellings with one full key differ in the port at most.             *)
LEMMA SameKeys ==
    ASSUME NEW v \in Uri, NEW w \in Uri, SamePort(v, w),
           FullKey(v) = FullKey(w)
    PROVE  IncomingKey(v) = IncomingKey(w)
<1>1. /\ v.scheme = w.scheme /\ v.host = w.host /\ v.pathname = w.pathname
      /\ (IF v.scheme \in {"vless", "trojan"} THEN DefaultPort(v) ELSE v.port)
           = (IF w.scheme \in {"vless", "trojan"} THEN DefaultPort(w) ELSE w.port)
      /\ (IF v.scheme = "vless" THEN StripRedundant(Canonical(v.query)) ELSE Canonical(v.query))
           = (IF w.scheme = "vless" THEN StripRedundant(Canonical(w.query)) ELSE Canonical(w.query))
  BY DEF FullKey
<1>2. Canonical(v.query) \in SUBSET Plainly /\ Canonical(w.query) \in SUBSET Plainly
  BY CanonicalType DEF Uri
<1>3. CASE v.scheme = "vless"
  <2>1. DefaultPort(v) = DefaultPort(w) /\ StripRedundant(Canonical(v.query)) = StripRedundant(Canonical(w.query))
    BY <1>1, <1>3
  <2> DEFINE K == CoreKeys \ {"sni", "servername", "sid"}
  <2> HIDE DEF K
  <2>2. {x \in StripRedundant(Canonical(v.query)) : x.key \in K} = {x \in Canonical(v.query) : x.key \in K}
    BY <1>2, CoreWithinIdentity DEF K
  <2>3. {x \in StripRedundant(Canonical(w.query)) : x.key \in K} = {x \in Canonical(w.query) : x.key \in K}
    BY <1>2, CoreWithinIdentity DEF K
  <2>4. VlessCore(v) = VlessCore(w)
    BY <1>1, <2>1, <2>2, <2>3 DEF VlessCore, K
  <2>5. CoreKey(v) = CoreKey(w)
    BY <1>1, <1>3, <2>4 DEF CoreKey
  <2> QED BY <2>5, FullKey(v) = FullKey(w) DEF IncomingKey
<1>4. CASE v.scheme # "vless"
  <2>1. (v.port = NoPort) = (w.port = NoPort)
    BY <1>4 DEF SamePort
  <2>2. v.port = w.port /\ Canonical(v.query) = Canonical(w.query)
    BY <1>1, <1>4, <2>1 DEF DefaultPort
  <2>3. ServerOnly(v) = ServerOnly(w)
    BY <1>1, <2>2 DEF ServerOnly
  <2>4. CoreKey(v) = CoreKey(w)
    BY <1>1, <1>4, <2>3 DEF CoreKey
  <2> QED BY <2>4, FullKey(v) = FullKey(w) DEF IncomingKey
<1> QED BY <1>3, <1>4

-----------------------------------------------------------------------------
(* What is left of a URI's parameters.                                     *)
LEMMA NormOf ==
    ASSUME NEW p \in Param, Cased(p)
    PROVE  /\ Norm(p).key = p.key
           /\ Norm(p).word = IF p.key \in BoolKeys THEN BoolWord(p.word) ELSE p.word
           /\ Norm(p).upper = FALSE
           /\ Norm(p) = [key |-> p.key, upper |-> FALSE,
                         word |-> IF p.key \in BoolKeys THEN BoolWord(p.word) ELSE p.word]
<1>1. (p.upper /\ p.word \in Texts /\ p.key \notin CaselessKeys) = FALSE
  BY DEF Cased, Param
<1> QED BY <1>1 DEF Norm

LEMMA ParamsOf ==
    ASSUME NEW v, Fine(v)
    PROVE  /\ \A p \in Range(v.query) : p \in Param /\ Cased(p)
           /\ Canonical(v.query) \in SUBSET Plainly
BY CanonicalType DEF Fine, Uri, CaseGiven, Range

LEMMA Split ==
    ASSUME NEW v, Fine(v), NEW x \in Plainly
    PROVE  x \in Canonical(v.query) <=>
               \/ x.key \in NodeKeys /\ ~ x.upper /\ x.word \in NodeOf(v).params[x.key]
               \/ x.key \in SecretKeys /\ ~ x.upper /\ x.word \in CredentialsOf(v)[2]
               \/ x \in Rest(v)
<1> DEFINE R == Range(v.query)
<1>0. \A p \in R : p \in Param /\ Cased(p)
  BY ParamsOf
<1>1. x \in Canonical(v.query) <=> \E p \in R : p.word # Empty /\ x = Norm(p)
  BY DEF Canonical
<1>2. x \in Rest(v) <=> \E p \in R : p.word # Empty /\ x = Norm(p) /\ p.key \notin NodeKeys \cup SecretKeys
  BY DEF Rest
<1>3. ASSUME x.key \in NodeKeys
      PROVE  NodeOf(v).params[x.key] = {p.word : p \in {p \in R : p.key = x.key}} \ {Empty}
  BY <1>3 DEF NodeOf, NodeKeys
<1>4. CredentialsOf(v)[2] = {p.word : p \in {p \in R : p.key \in SecretKeys}} \ {Empty}
  BY DEF CredentialsOf
<1>5. \A p \in R : p.key \in NodeKeys \cup SecretKeys =>
          (x = Norm(p) <=> x.key = p.key /\ x.word = p.word /\ ~ x.upper)
  <2> SUFFICES ASSUME NEW p \in R, p.key \in NodeKeys \cup SecretKeys
               PROVE  x = Norm(p) <=> x.key = p.key /\ x.word = p.word /\ ~ x.upper
    OBVIOUS
  <2>1. p.key \notin BoolKeys
    BY DEF NodeKeys, SecretKeys, BoolKeys
  <2>2. Norm(p) = [key |-> p.key, upper |-> FALSE, word |-> p.word]
    BY <1>0, <2>1, NormOf
  <2>3. x = [key |-> x.key, upper |-> x.upper, word |-> x.word] /\ x.upper \in BOOLEAN
    BY DEF Plainly
  <2> QED BY <2>2, <2>3
<1>6. \A p \in R : x = Norm(p) => x.key = p.key
  BY <1>0, NormOf
<1>7. NodeKeys \cap SecretKeys = {} /\ \A k, l \in SecretKeys : k = l
  BY DEF NodeKeys, SecretKeys
<1> HIDE DEF R, NodeKeys, SecretKeys
<1>8. CASE x.key \in NodeKeys
  BY <1>1, <1>2, <1>3, <1>5, <1>6, <1>7, <1>8
<1>9. CASE x.key \in SecretKeys
  BY <1>1, <1>2, <1>4, <1>5, <1>6, <1>7, <1>9
<1>10. CASE x.key \notin NodeKeys \cup SecretKeys
  BY <1>1, <1>2, <1>6, <1>10
<1> QED BY <1>8, <1>9, <1>10

LEMMA RestKeys ==
    ASSUME NEW v, Fine(v), NEW x \in Rest(v)
    PROVE  x.key \notin NodeKeys \cup SecretKeys
<1>1. PICK p \in Range(v.query) : x = Norm(p) /\ p.key \notin NodeKeys \cup SecretKeys
  BY DEF Rest
<1>2. x.key = p.key
  BY <1>1, ParamsOf, NormOf
<1> QED BY <1>1, <1>2

(* The reference sees what the canonical query has.                        *)
LEMMA ParamsFrom ==
    ASSUME NEW v, NEW w, Fine(v), Fine(w),
           \A x \in Plainly : x.key \in NodeKeys =>
               (x \in Canonical(v.query) <=> x \in Canonical(w.query))
    PROVE  NodeOf(v).params = NodeOf(w).params
<1>1. ASSUME NEW y, NEW z, Fine(y), Fine(z), NEW k \in NodeKeys, NEW t \in NodeOf(y).params[k],
             \A x \in Plainly : x.key \in NodeKeys =>
               (x \in Canonical(y.query) <=> x \in Canonical(z.query))
      PROVE  t \in NodeOf(z).params[k]
  <2> DEFINE x == [key |-> k, word |-> t, upper |-> FALSE]
  <2>1. NodeOf(y).params[k] = {p.word : p \in {p \in Range(y.query) : p.key = k}} \ {Empty}
    BY DEF NodeOf, NodeKeys
  <2>2. t \in Words
    BY <1>1, <2>1, ParamsOf DEF Param
  <2>3. x \in Plainly /\ x.key = k /\ x.word = t /\ x.upper = FALSE
    BY <2>2 DEF Plainly, NodeKeys, Keys
  <2> HIDE DEF x
  <2>4. x \in Canonical(y.query)
    BY <1>1, <2>3, Split
  <2>5. x \in Canonical(z.query)
    BY <1>1, <2>3, <2>4
  <2>6. x.key \notin SecretKeys /\ x \notin Rest(z)
    BY <1>1, <2>3, RestKeys DEF NodeKeys, SecretKeys
  <2> QED BY <1>1, <2>3, <2>5, <2>6, Split
<1>2. \A k \in NodeKeys : NodeOf(v).params[k] = NodeOf(w).params[k]
  <2> SUFFICES ASSUME NEW k \in NodeKeys
               PROVE  NodeOf(v).params[k] = NodeOf(w).params[k]
    OBVIOUS
  <2>1. \A t \in NodeOf(v).params[k] : t \in NodeOf(w).params[k]
    BY <1>1
  <2>2. \A t \in NodeOf(w).params[k] : t \in NodeOf(v).params[k]
    BY <1>1
  <2> QED BY <2>1, <2>2
<1>3. /\ NodeOf(v).params = [k \in NodeKeys |-> NodeOf(v).params[k]]
      /\ NodeOf(w).params = [k \in NodeKeys |-> NodeOf(w).params[k]]
  BY DEF NodeOf, NodeKeys
<1> QED BY <1>2, <1>3

-----------------------------------------------------------------------------
(* The keys agree with the reference.                                      *)
LEMMA CoreNode ==
    ASSUME NEW v, Fine(v)
    PROVE  {x \in Canonical(v.query) : x.key \in CoreKeys \ {"sni", "servername", "sid"}}
             = {x \in Plainly : x.key \in NodeKeys /\ ~ x.upper /\ x.word \in NodeOf(v).params[x.key]}
<1>1. CoreKeys \ {"sni", "servername", "sid"} = NodeKeys
  BY DEF CoreKeys, NodeKeys
<1>2. \A x \in Plainly : x.key \in NodeKeys => x.key \notin SecretKeys /\ x \notin Rest(v)
  BY RestKeys DEF NodeKeys, SecretKeys
<1>3. Canonical(v.query) \in SUBSET Plainly
  BY ParamsOf
<1> QED BY <1>1, <1>2, <1>3, Split

(* Without a core of its own, or when the port is respelled, a node is     *)
(* known by its full key.                                                  *)
LEMMA SameFullKey ==
    ASSUME NEW v, NEW w, Fine(v), Fine(w), Kept(v, w), v.scheme # "vless",
           NodeOf(v) = NodeOf(w), CredentialsOf(v) = CredentialsOf(w),
           v.scheme = "trojan" \/ v.port = w.port
    PROVE  FullKey(v) = FullKey(w)
<1>1. /\ v.scheme = w.scheme /\ v.pathname = w.pathname /\ Rest(v) = Rest(w)
      /\ v.host = w.host /\ NodeOf(v).params = NodeOf(w).params
  BY DEF Kept, NodeOf
<1>2. v.user = w.user /\ CredentialsOf(v)[2] = CredentialsOf(w)[2]
  BY DEF CredentialsOf
<1>3. (IF v.scheme \in {"vless", "trojan"} THEN DefaultPort(v) ELSE v.port)
        = (IF w.scheme \in {"vless", "trojan"} THEN DefaultPort(w) ELSE w.port)
  <2>1. CASE v.scheme = "trojan"
    <3>1. DefaultPort(v) = DefaultPort(w)
      BY <1>1, <2>1 DEF NodeOf, PortOptional
    <3> QED BY <1>1, <2>1, <3>1
  <2>2. CASE v.scheme # "trojan"
    BY <1>1, <2>2
  <2> QED BY <2>1, <2>2
<1>4. Canonical(v.query) = Canonical(w.query)
  <2>1. Canonical(v.query) \in SUBSET Plainly /\ Canonical(w.query) \in SUBSET Plainly
    BY ParamsOf
  <2>2. ASSUME NEW x \in Plainly
        PROVE  x \in Canonical(v.query) <=> x \in Canonical(w.query)
    <3>1. /\ x.key \in NodeKeys /\ ~ x.upper /\ x.word \in NodeOf(v).params[x.key]
              <=> x.key \in NodeKeys /\ ~ x.upper /\ x.word \in NodeOf(w).params[x.key]
          /\ x.key \in SecretKeys /\ ~ x.upper /\ x.word \in CredentialsOf(v)[2]
              <=> x.key \in SecretKeys /\ ~ x.upper /\ x.word \in CredentialsOf(w)[2]
          /\ x \in Rest(v) <=> x \in Rest(w)
      BY <1>1, <1>2
    <3> QED BY <3>1, Split
  <2> QED BY <2>1, <2>2
<1>5. (v.userUpper /\ v.user \notin Uuids) = FALSE /\ (w.userUpper /\ w.user \notin Uuids) = FALSE
  <2>1. v.userUpper \in BOOLEAN /\ w.userUpper \in BOOLEAN
    BY DEF Fine, Uri
  <2>2. (v.userUpper => v.user \in Uuids) /\ (w.userUpper => w.user \in Uuids)
    BY DEF Fine, CaseGiven
  <2> QED BY <2>1, <2>2
<1> QED BY <1>1, <1>2, <1>3, <1>4, <1>5 DEF FullKey

LEMMA SameNodeKeys ==
    ASSUME NEW v, NEW w, Fine(v), Fine(w), Kept(v, w), SameNode(v, w), SamePort(v, w)
    PROVE  IncomingKey(v) = IncomingKey(w)
<1>1. /\ v.scheme = w.scheme /\ v.pathname = w.pathname
      /\ NodeOf(v) = NodeOf(w) /\ NodeOf(v).params = NodeOf(w).params
  BY DEF Kept, SameNode
<1>2. /\ v.host = w.host
      /\ (IF v.scheme \in PortOptional THEN DefaultPort(v) ELSE v.port)
           = (IF w.scheme \in PortOptional THEN DefaultPort(w) ELSE w.port)
  BY <1>1 DEF NodeOf
<1>3. CASE v.scheme = "vless"
  <2>1. DefaultPort(v) = DefaultPort(w)
    BY <1>1, <1>2, <1>3 DEF PortOptional
  <2>2. VlessCore(v) = VlessCore(w)
    BY <1>1, <1>2, <2>1, CoreNode DEF VlessCore
  <2>3. CoreKey(v) = VlessCore(v) /\ CoreKey(w) = VlessCore(w) /\ VlessCore(v) # NullCore
    <3>1. VlessCore(v).scheme = "vless" /\ NullCore.scheme = "none"
      BY DEF VlessCore, NullCore
    <3> QED BY <1>1, <1>3, <3>1 DEF CoreKey
  <2> QED BY <2>2, <2>3 DEF IncomingKey
<1>4. CASE v.scheme # "vless"
  <2>1. v.port = w.port /\ Rest(v) = Rest(w)
    <3>1. (v.port = NoPort) = (w.port = NoPort) /\ Rest(v) = Rest(w)
      BY <1>4 DEF SamePort, Kept
    <3> QED BY <1>1, <1>2, <3>1 DEF DefaultPort
  <2>2. Canonical(v.query) \in SUBSET Plainly /\ Canonical(w.query) \in SUBSET Plainly
    BY ParamsOf
  <2>3. {x \in Canonical(v.query) : x.key \notin SecretKeys} = {x \in Canonical(w.query) : x.key \notin SecretKeys}
    BY <1>1, <2>1, <2>2, Split
  <2>4. CASE v.scheme \in {"hysteria2", "trojan"}
    <3>1. ServerOnly(v) = ServerOnly(w)
      BY <1>1, <1>2, <2>1, <2>3 DEF ServerOnly
    <3>2. CoreKey(v) = ServerOnly(v) /\ CoreKey(w) = ServerOnly(w) /\ ServerOnly(v) # NullCore
      <4>1. ServerOnly(v).scheme = v.scheme /\ NullCore.scheme = "none"
        BY DEF ServerOnly, NullCore
      <4> QED BY <1>1, <2>4, <4>1 DEF CoreKey
    <3> QED BY <3>1, <3>2 DEF IncomingKey
  <2>5. CASE v.scheme \notin {"hysteria2", "trojan"}
    <3>1. CoreKey(v) = NullCore /\ CoreKey(w) = NullCore
      BY <1>1, <1>4, <2>5 DEF CoreKey
    <3>2. FullKey(v) = FullKey(w)
      BY <1>1, <1>4, <2>1, <3>1, SameFullKey DEF SameNode
    <3> QED BY <3>1, <3>2 DEF IncomingKey
  <2> QED BY <2>4, <2>5
<1> QED BY <1>3, <1>4

(* Except for vless, the key against duplicates has the port as written.   *)
LEMMA PortInKey ==
    ASSUME NEW v \in Uri, NEW w \in Uri, v.scheme = w.scheme, v.scheme # "vless",
           IncomingKey(v) = IncomingKey(w)
    PROVE  v.port = w.port
<1>1. v.scheme \in Schemes
  BY DEF Uri
<1>2. CASE v.scheme \in {"hysteria2", "trojan"}
  <2>1. CoreKey(v) = ServerOnly(v) /\ CoreKey(w) = ServerOnly(w)
    BY <1>2 DEF CoreKey
  <2>2. ServerOnly(v).scheme # NullCore.scheme /\ ServerOnly(w).scheme # NullCore.scheme
    BY <1>2 DEF ServerOnly, NullCore
  <2>3. ServerOnly(v) = ServerOnly(w)
    BY <2>1, <2>2 DEF IncomingKey
  <2> QED BY <2>3 DEF ServerOnly
<1>3. CASE v.scheme = "ss"
  <2>1. CoreKey(v) = NullCore /\ CoreKey(w) = NullCore
    BY <1>3 DEF CoreKey
  <2>2. FullKey(v) = FullKey(w)
    BY <2>1 DEF IncomingKey
  <2> QED BY <1>3, <2>2 DEF FullKey
<1> QED BY <1>1, <1>2, <1>3 DEF Schemes

LEMMA SameKeysNode ==
    ASSUME NEW v, NEW w, Fine(v), Fine(w),
           FullKey(v) = FullKey(w) \/ (CoreKey(v) # NullCore /\ CoreKey(v) = CoreKey(w))
    PROVE  NodeOf(v) = NodeOf(w)
<1>0. v \in Uri /\ w \in Uri /\ v.scheme \in Schemes /\ w.scheme \in Schemes
  BY DEF Fine, Uri
<1>1. v.scheme = w.scheme /\ (v.scheme = "ss" => FullKey(v) = FullKey(w))
  <2>1. CASE FullKey(v) = FullKey(w)
    BY <2>1 DEF FullKey
  <2>2. CASE CoreKey(v) # NullCore /\ CoreKey(v) = CoreKey(w)
    <3>1. CoreKey(v).scheme = v.scheme /\ v.scheme # "ss"
      BY <1>0, <2>2 DEF CoreKey, VlessCore, ServerOnly, Schemes
    <3>2. CoreKey(w).scheme = w.scheme
      BY <1>0, <2>2 DEF CoreKey, VlessCore, ServerOnly, Schemes
    <3> QED BY <2>2, <3>1, <3>2
  <2> QED BY <2>1, <2>2
<1>2. CASE v.scheme = "ss"
  <2>1. FullKey(v) = FullKey(w)
    BY <1>1, <1>2
  <2>2. v.host = w.host /\ v.port = w.port /\ Canonical(v.query) = Canonical(w.query)
    BY <1>1, <1>2, <2>1 DEF FullKey
  <2>3. NodeOf(v).params = NodeOf(w).params
    BY <2>2, ParamsFrom
  <2> QED BY <1>1, <1>2, <2>2, <2>3 DEF NodeOf, PortOptional
<1>3. CASE v.scheme # "ss"
  <2>1. v.scheme = "vless" => CoreKey(v) = CoreKey(w)
    <3> SUFFICES ASSUME v.scheme = "vless" PROVE CoreKey(v) = CoreKey(w)
      OBVIOUS
    <3>1. IncomingKey(v) = IncomingKey(w) \/ CoreKey(v) = CoreKey(w)
      BY <1>0, SameKeys DEF SamePort
    <3>2. CoreKey(v) # NullCore /\ CoreKey(w) # NullCore
      <4>1. CoreKey(v).scheme = v.scheme /\ CoreKey(w).scheme = w.scheme
        BY <1>0, <1>1, <1>3 DEF CoreKey, VlessCore, ServerOnly, Schemes
      <4>2. NullCore.scheme = "none"
        BY DEF NullCore
      <4> QED BY <1>0, <4>1, <4>2 DEF Schemes
    <3> QED BY <3>1, <3>2 DEF IncomingKey
  <2>2. CASE v.scheme = "vless"
    <3>1. VlessCore(v) = VlessCore(w)
      BY <1>1, <2>1, <2>2 DEF CoreKey
    <3>2. /\ v.host = w.host /\ DefaultPort(v) = DefaultPort(w)
          /\ {x \in Canonical(v.query) : x.key \in CoreKeys \ {"sni", "servername", "sid"}}
               = {x \in Canonical(w.query) : x.key \in CoreKeys \ {"sni", "servername", "sid"}}
      BY <3>1 DEF VlessCore
    <3>3. CoreKeys \ {"sni", "servername", "sid"} = NodeKeys
      BY DEF CoreKeys, NodeKeys
    <3>4. NodeOf(v).params = NodeOf(w).params
      BY <3>2, <3>3, ParamsFrom
    <3> QED BY <1>1, <2>2, <3>2, <3>4 DEF NodeOf, PortOptional
  <2>3. CASE v.scheme # "vless" /\ FullKey(v) = FullKey(w)
    <3>1. v.host = w.host /\ DefaultPort(v) = DefaultPort(w) /\ Canonical(v.query) = Canonical(w.query)
      BY <1>1, <2>3 DEF FullKey, DefaultPort
    <3>2. v.scheme \in PortOptional
      BY <1>0, <1>3 DEF Schemes, PortOptional
    <3>3. NodeOf(v).params = NodeOf(w).params
      BY <3>1, ParamsFrom
    <3> QED BY <1>1, <3>1, <3>2, <3>3 DEF NodeOf
  <2>4. CASE v.scheme # "vless" /\ CoreKey(v) # NullCore /\ CoreKey(v) = CoreKey(w)
    <3>1. ServerOnly(v) = ServerOnly(w)
      BY <1>0, <1>1, <1>3, <2>4 DEF CoreKey, Schemes
    <3>2. /\ v.host = w.host /\ v.port = w.port
          /\ {x \in Canonical(v.query) : x.key \notin SecretKeys}
               = {x \in Canonical(w.query) : x.key \notin SecretKeys}
      BY <3>1 DEF ServerOnly
    <3>3. \A k \in NodeKeys : k \notin SecretKeys
      BY DEF NodeKeys, SecretKeys
    <3>4. NodeOf(v).params = NodeOf(w).params
      BY <3>2, <3>3, ParamsFrom
    <3> QED BY <1>1, <3>2, <3>4 DEF NodeOf, DefaultPort
  <2> QED BY <2>2, <2>3, <2>4
<1> QED BY <1>2, <1>3

-----------------------------------------------------------------------------
(* What the provider does to a URI leaves it one, and its rest as it is.   *)
Contribution(p) ==
    {y \in {Norm(p)} : p.word # Empty /\ p.key \notin NodeKeys \cup SecretKeys}

LEMMA RestOf ==
    ASSUME NEW v, v.query \in Seq(Param), NEW x
    PROVE  x \in Rest(v) <=> \E i \in 1 .. Len(v.query) : x \in Contribution(v.query[i])
BY DEF Rest, Contribution, Range

LEMMA FineWith ==
    ASSUME Fine(uri), NEW i \in Params, NEW p \in Param, Cased(p)
    PROVE  /\ Fine(With(i, p))
           /\ With(i, p).scheme = uri.scheme /\ With(i, p).pathname = uri.pathname
           /\ Contribution(p) = Contribution(uri.query[i]) => Rest(With(i, p)) = Rest(uri)
<1> DEFINE q == [uri.query EXCEPT ![i] = p]
           v == With(i, p)
<1>1. uri \in Uri /\ uri.query \in Seq(Param) /\ i \in 1 .. Len(uri.query)
  BY DEF Fine, Uri, Params
<1>2. /\ q \in Seq(Param) /\ Len(q) = Len(uri.query)
      /\ \A j \in 1 .. Len(uri.query) : q[j] = IF j = i THEN p ELSE uri.query[j]
  BY <1>1
<1>3. v = [uri EXCEPT !.query = q]
  BY DEF With
<1> HIDE DEF q, v
<1>4. /\ v \in Uri /\ v.query = q /\ v.scheme = uri.scheme /\ v.pathname = uri.pathname
      /\ v.port = uri.port /\ v.user = uri.user /\ v.userUpper = uri.userUpper
  BY <1>1, <1>2, <1>3 DEF Uri
<1>5. \A j \in DOMAIN uri.query : Cased(uri.query[j])
  BY DEF Fine, CaseGiven
<1>6. \A j \in DOMAIN v.query : Cased(v.query[j])
  BY <1>1, <1>2, <1>4, <1>5
<1>7. Fine(v)
  BY <1>4, <1>6 DEF Fine, CaseGiven
<1>8. ASSUME Contribution(p) = Contribution(uri.query[i]) PROVE Rest(v) = Rest(uri)
  <2>1. \A j \in 1 .. Len(uri.query) : Contribution(v.query[j]) = Contribution(uri.query[j])
    BY <1>2, <1>4, <1>8
  <2>2. \A x : x \in Rest(v) <=> \E j \in 1 .. Len(v.query) : x \in Contribution(v.query[j])
    BY <1>2, <1>4, RestOf
  <2>3. \A x : x \in Rest(uri) <=> \E j \in 1 .. Len(uri.query) : x \in Contribution(uri.query[j])
    BY <1>1, RestOf
  <2>4. \A x : x \in Rest(v) <=> x \in Rest(uri)
    BY <1>2, <1>4, <2>1, <2>2, <2>3
  <2> QED BY <2>4
<1> QED BY <1>4, <1>7, <1>8 DEF v

LEMMA FineAdded ==
    ASSUME Fine(uri), NEW p \in Param, Cased(p)
    PROVE  /\ Fine(Added(p))
           /\ Added(p).scheme = uri.scheme /\ Added(p).pathname = uri.pathname
           /\ p.word = Empty => Rest(Added(p)) = Rest(uri)
<1> DEFINE q == Append(uri.query, p)
           v == Added(p)
           n == Len(uri.query) + 1
<1>1. uri \in Uri /\ uri.query \in Seq(Param) /\ n \in Nat
  BY DEF Fine, Uri
<1>2. /\ q \in Seq(Param) /\ Len(q) = n
      /\ \A j \in 1 .. n : q[j] = IF j = n THEN p ELSE uri.query[j]
      /\ 1 .. n = (1 .. Len(uri.query)) \cup {n} /\ DOMAIN uri.query = 1 .. Len(uri.query)
      /\ n \notin 1 .. Len(uri.query) /\ DOMAIN q = 1 .. n
  BY <1>1
<1>3. v = [uri EXCEPT !.query = q]
  BY DEF Added
<1> HIDE DEF q, v, n
<1>4. /\ v \in Uri /\ v.query = q /\ v.scheme = uri.scheme /\ v.pathname = uri.pathname
      /\ v.port = uri.port /\ v.user = uri.user /\ v.userUpper = uri.userUpper
  BY <1>1, <1>2, <1>3 DEF Uri
<1>5. \A j \in DOMAIN uri.query : Cased(uri.query[j])
  BY DEF Fine, CaseGiven
<1>6. \A j \in DOMAIN v.query : Cased(v.query[j])
  BY <1>2, <1>4, <1>5
<1>7. Fine(v)
  BY <1>4, <1>6 DEF Fine, CaseGiven
<1>8. ASSUME p.word = Empty PROVE Rest(v) = Rest(uri)
  <2>1. Contribution(p) = {}
    BY <1>8 DEF Contribution
  <2>2. \A x : x \in Rest(v) <=> \E j \in 1 .. n : x \in Contribution(v.query[j])
    BY <1>2, <1>4, RestOf
  <2>3. \A x : x \in Rest(uri) <=> \E j \in 1 .. Len(uri.query) : x \in Contribution(uri.query[j])
    BY <1>1, RestOf
  <2>4. \A j \in 1 .. Len(uri.query) : v.query[j] = uri.query[j]
    BY <1>2, <1>4
  <2>5. v.query[n] = p /\ n \in 1 .. n
    BY <1>2, <1>4
  <2>6. \A x : x \in Rest(v) <=> x \in Rest(uri)
    BY <1>2, <2>1, <2>2, <2>3, <2>4, <2>5
  <2> QED BY <2>6
<1> QED BY <1>4, <1>7, <1>8 DEF v

LEMMA ParamType ==
    ASSUME Fine(uri), NEW i \in Params
    PROVE  /\ uri.query[i] \in Param /\ Cased(uri.query[i])
           /\ \A k \in Keys : [uri.query[i] EXCEPT !.key = k] \in Param
           /\ \A w \in Words : [uri.query[i] EXCEPT !.word = w, !.upper = FALSE] \in Param
           /\ \A w \in Words : Cased([uri.query[i] EXCEPT !.word = w, !.upper = FALSE])
<1>1. uri.query[i] \in Param /\ Cased(uri.query[i])
  BY DEF Fine, Uri, Params, CaseGiven
<1> QED BY <1>1 DEF Param, Cased

LEMMA RespeltType ==
    ASSUME NEW p \in Param, Cased(p), NEW q \in Respelt(p)
    PROVE  q \in Param /\ Cased(q) /\ Contribution(q) = Contribution(p)
<1>0. \A r \in Param : Cased(r) /\ r.key = p.key
          /\ (IF r.key \in BoolKeys THEN BoolWord(r.word) ELSE r.word)
               = (IF p.key \in BoolKeys THEN BoolWord(p.word) ELSE p.word)
          /\ (r.word = Empty <=> p.word = Empty)
          => Contribution(r) = Contribution(p)
  <2> SUFFICES ASSUME NEW r \in Param, Cased(r), r.key = p.key,
                      (IF r.key \in BoolKeys THEN BoolWord(r.word) ELSE r.word)
                        = (IF p.key \in BoolKeys THEN BoolWord(p.word) ELSE p.word),
                      r.word = Empty <=> p.word = Empty
               PROVE  Contribution(r) = Contribution(p)
    OBVIOUS
  <2>1. Norm(r) = Norm(p)
    BY NormOf
  <2> QED BY <2>1 DEF Contribution
<1>1. CASE q = [p EXCEPT !.capital = ~ @]
  <2>1. q \in Param /\ q.key = p.key /\ q.word = p.word /\ q.upper = p.upper
    BY <1>1 DEF Param
  <2>2. Cased(q)
    BY <2>1 DEF Cased
  <2> QED BY <1>0, <2>1, <2>2
<1>2. CASE q = [p EXCEPT !.layers = (@ + 1) % (Layers + 1)]
  <2>1. p.layers \in Nat /\ Layers \in Nat
    BY IdentityAssumption DEF Param
  <2>2. (p.layers + 1) % (Layers + 1) \in 0 .. Layers
    BY <2>1
  <2>3. q \in Param /\ q.key = p.key /\ q.word = p.word /\ q.upper = p.upper
    BY <1>2, <2>2 DEF Param
  <2>4. Cased(q)
    BY <2>3 DEF Cased
  <2> QED BY <1>0, <2>3, <2>4
<1>3. CASE q = [p EXCEPT !.upper = ~ @] /\ (p.word \notin Texts \/ p.key \in CaselessKeys)
  <2>1. q \in Param /\ q.key = p.key /\ q.word = p.word
    BY <1>3 DEF Param
  <2>2. Cased(q)
    BY <1>3, <2>1 DEF Cased
  <2> QED BY <1>0, <2>1, <2>2
<1>4. ASSUME NEW w \in Words, q = [p EXCEPT !.word = w], p.key \in BoolKeys, BoolWord(w) = BoolWord(p.word)
      PROVE  q \in Param /\ Cased(q) /\ Contribution(q) = Contribution(p)
  <2>1. q \in Param /\ q.key = p.key /\ q.word = w /\ q.upper = p.upper
    BY <1>4 DEF Param
  <2>2. w = p.word \/ (w \in {"true", "1", "false", "0"} /\ p.word \in {"true", "1", "false", "0"})
    BY <1>4 DEF BoolWord
  <2>3. w \notin Texts \/ w = p.word
    BY <2>2, IdentityAssumption
  <2>4. Cased(q)
    BY <2>1, <2>3 DEF Cased
  <2>5. w = Empty <=> p.word = Empty
    BY <2>2 DEF Empty
  <2> QED BY <1>0, <1>4, <2>1, <2>4, <2>5
<1> QED BY <1>1, <1>2, <1>3, <1>4 DEF Respelt

LEMMA RespellFine ==
    ASSUME Fine(uri), Respell
    PROVE  /\ Fine(uri') /\ Kept(uri', uri)
           /\ UNCHANGED <<connect, births>> /\ changes > 0 /\ changes' = changes - 1
<1> DEFINE Goal == /\ Fine(uri') /\ Kept(uri', uri)
                   /\ UNCHANGED <<connect, births>> /\ changes > 0 /\ changes' = changes - 1
<1>0. ASSUME NEW v, Fine(v), Kept(v, uri), Provide(v) PROVE Goal
  BY <1>0 DEF Provide
<1>1. ASSUME NEW i \in Params, RespellParam(i) PROVE Goal
  <2>1. PICK p \in Respelt(uri.query[i]) : Provide(With(i, p))
    BY <1>1 DEF RespellParam
  <2>2. p \in Param /\ Cased(p) /\ Contribution(p) = Contribution(uri.query[i])
    BY <1>1, ParamType, RespeltType
  <2>3. Fine(With(i, p)) /\ Kept(With(i, p), uri)
    BY <1>1, <2>2, FineWith DEF Kept
  <2> QED BY <1>0, <2>1, <2>3
<1>2. ASSUME NEW i \in Params, SwapParams(i) PROVE Goal
  <2> DEFINE q == [uri.query EXCEPT ![i] = uri.query[i + 1], ![i + 1] = uri.query[i]]
             v == [uri EXCEPT !.query = q]
  <2>1. uri \in Uri /\ uri.query \in Seq(Param) /\ i \in 1 .. Len(uri.query) /\ i + 1 \in 1 .. Len(uri.query)
    BY <1>2 DEF Fine, Uri, Params, SwapParams
  <2>2. /\ q \in Seq(Param) /\ Len(q) = Len(uri.query)
        /\ \A j \in 1 .. Len(uri.query) :
              q[j] = IF j = i THEN uri.query[i + 1] ELSE IF j = i + 1 THEN uri.query[i] ELSE uri.query[j]
    BY <2>1
  <2>3. Provide(v)
    BY <1>2 DEF SwapParams
  <2> HIDE DEF q
  <2>4. /\ v \in Uri /\ v.query = q /\ v.scheme = uri.scheme /\ v.pathname = uri.pathname
        /\ v.port = uri.port /\ v.user = uri.user /\ v.userUpper = uri.userUpper
    BY <2>1, <2>2 DEF Uri
  <2> HIDE DEF v
  <2>5. \A j \in DOMAIN v.query : Cased(v.query[j])
    BY <2>1, <2>2, <2>4 DEF Fine, CaseGiven
  <2>6. Range(q) = Range(uri.query)
    <3>1. \A j \in 1 .. Len(uri.query) : \E k \in 1 .. Len(uri.query) : q[j] = uri.query[k]
      BY <2>1, <2>2
    <3>2. \A j \in 1 .. Len(uri.query) : \E k \in 1 .. Len(uri.query) : uri.query[j] = q[k]
      BY <2>1, <2>2
    <3>3. DOMAIN q = 1 .. Len(uri.query) /\ DOMAIN uri.query = 1 .. Len(uri.query)
      BY <2>1, <2>2
    <3>4. Range(q) = {q[j] : j \in 1 .. Len(uri.query)} /\ Range(uri.query) = {uri.query[j] : j \in 1 .. Len(uri.query)}
      BY <3>3 DEF Range
    <3> HIDE DEF v
    <3>5. Range(q) \subseteq Range(uri.query)
      BY <3>1, <3>4
    <3>6. Range(uri.query) \subseteq Range(q)
      BY <3>2, <3>4
    <3> QED
      BY <3>5, <3>6
  <2>7. Rest(v) = Rest(uri)
    BY <2>4, <2>6 DEF Rest
  <2>8. Fine(v) /\ Kept(v, uri)
    BY <2>4, <2>5, <2>7 DEF Fine, CaseGiven, Kept
  <2> QED BY <1>0, <2>3, <2>8
<1>3. ASSUME NEW i \in Params, RenameSni(i) PROVE Goal
  <2> DEFINE p == [uri.query[i] EXCEPT !.key = "servername"]
             q == [uri.query[i] EXCEPT !.key = "sni"]
  <2>1. p \in Param /\ q \in Param
    BY ParamType DEF Keys
  <2>2. Cased(p) /\ Cased(q)
    BY <2>1, ParamType DEF Cased, CaselessKeys, Param
  <2>3. uri.scheme = "vless" /\ (Provide(With(i, p)) \/ Provide(With(i, q)) \/ Provide(Added(p)))
    BY <1>3 DEF RenameSni
  <2>4. /\ Fine(With(i, p)) /\ Kept(With(i, p), uri)
        /\ Fine(With(i, q)) /\ Kept(With(i, q), uri)
        /\ Fine(Added(p)) /\ Kept(Added(p), uri)
    BY <2>1, <2>2, <2>3, FineWith, FineAdded DEF Kept
  <2> QED BY <1>0, <2>3, <2>4
<1>4. ASSUME NEW v, v \in {[uri EXCEPT !.hostUpper = ~ @], [uri EXCEPT !.slash = ~ @]}
                       \cup {[uri EXCEPT !.userUpper = ~ @] : x \in {x \in {uri} : x.user \in Uuids}}
                       \cup {[uri EXCEPT !.port = p] : p \in {p \in {443, NoPort} : uri.scheme \in PortOptional}}
      PROVE  Fine(v) /\ Kept(v, uri)
  <2>1. /\ v \in Uri /\ v.query = uri.query /\ v.scheme = uri.scheme /\ v.pathname = uri.pathname
        /\ v.user = uri.user
        /\ v.userUpper = uri.userUpper \/ v.user \in Uuids
    <3>1. uri \in Uri /\ 443 \in Ports
      BY IdentityAssumption DEF Fine
    <3>2. CASE v = [uri EXCEPT !.hostUpper = ~ @] \/ v = [uri EXCEPT !.slash = ~ @]
      BY <3>1, <3>2, ZenonT(30) DEF Uri
    <3>3. CASE v = [uri EXCEPT !.userUpper = ~ @] /\ uri.user \in Uuids
      BY <3>1, <3>3, ZenonT(30) DEF Uri
    <3>4. CASE (v = [uri EXCEPT !.port = 443] \/ v = [uri EXCEPT !.port = NoPort]) /\ uri.scheme \in PortOptional
      BY <3>1, <3>4 DEF Uri
    <3> QED BY <1>4, <3>2, <3>3, <3>4
  <2>2. Rest(v) = Rest(uri)
    BY <2>1 DEF Rest
  <2> QED BY <2>1, <2>2 DEF Fine, CaseGiven, Kept
<1>5. ASSUME RespellHost \/ RespellPath \/ RespellUser \/ RespellPort PROVE Goal
  <2>1. PICK v : v \in {[uri EXCEPT !.hostUpper = ~ @], [uri EXCEPT !.slash = ~ @]}
                       \cup {[uri EXCEPT !.userUpper = ~ @] : x \in {x \in {uri} : x.user \in Uuids}}
                       \cup {[uri EXCEPT !.port = p] : p \in {p \in {443, NoPort} : uri.scheme \in PortOptional}}
                 /\ Provide(v)
    <3>1. CASE RespellHost
      BY <3>1 DEF RespellHost
    <3>2. CASE RespellPath
      BY <3>2 DEF RespellPath
    <3>3. CASE RespellUser
      BY <3>3 DEF RespellUser
    <3>4. CASE RespellPort
      <4>1. uri.scheme \in PortOptional
        BY <3>4 DEF RespellPort
      <4>2. Provide([uri EXCEPT !.port = 443]) \/ Provide([uri EXCEPT !.port = NoPort])
        BY <3>4 DEF RespellPort
      <4> QED BY <4>1, <4>2
    <3> QED BY <1>5, <3>1, <3>2, <3>3, <3>4
  <2> QED BY <1>0, <1>4, <2>1
<1>6. ASSUME NEW k \in Keys, NEW w \in {Empty, "none"}, AddIdle(Plain(k, w)) PROVE Goal
  <2> DEFINE p == Plain(k, w)
  <2>1. p \in Param /\ Cased(p) /\ p.word = w
    BY IdentityAssumption DEF Plain, Param, Cased
  <2>2. Provide(Added(p)) /\ (p.word = Empty \/ uri.scheme = "vless")
    BY <1>6 DEF AddIdle
  <2> HIDE DEF p
  <2>3. Fine(Added(p)) /\ Kept(Added(p), uri)
    BY <2>1, <2>2, FineAdded DEF Kept
  <2> QED BY <1>0, <2>2, <2>3
<1> HIDE DEF Goal
<1>7. Goal
  BY <1>1, <1>2, <1>3, <1>5, <1>6, Respell DEF Respell
<1> QED BY <1>7 DEF Goal

LEMMA RenewFine ==
    ASSUME Fine(uri), Renew \/ Move
    PROVE  /\ Fine(uri') /\ Kept(uri', uri)
           /\ UNCHANGED <<connect, births>> /\ changes > 0 /\ changes' = changes - 1
<1> DEFINE Goal == /\ Fine(uri') /\ Kept(uri', uri)
                   /\ UNCHANGED <<connect, births>> /\ changes > 0 /\ changes' = changes - 1
<1>0. ASSUME NEW v, Fine(v), Kept(v, uri), Provide(v) PROVE Goal
  BY <1>0 DEF Provide
<1> Fresh \subseteq Words /\ Ports \subseteq Nat \ {NoPort}
  BY IdentityAssumption
<1>1. ASSUME NEW w \in Fresh, RenewUser(w) \/ MoveHost(w) PROVE Goal
  <2>1. PICK v \in {[uri EXCEPT !.user = w, !.userUpper = FALSE], [uri EXCEPT !.host = w]} : Provide(v)
    BY <1>1 DEF RenewUser, MoveHost
  <2>2. /\ v \in Uri /\ v.query = uri.query /\ v.scheme = uri.scheme /\ v.pathname = uri.pathname
        /\ v.port = uri.port
        /\ (v.user = uri.user /\ v.userUpper = uri.userUpper) \/ v.userUpper = FALSE
    BY <2>1 DEF Fine, Uri
  <2>3. Fine(v) /\ Kept(v, uri)
    BY <2>2 DEF Fine, CaseGiven, Kept, Rest
  <2> QED BY <1>0, <2>1, <2>3
<1>2. ASSUME NEW w \in Fresh, NEW i \in Params, RenewParam(i, w) \/ MoveParam(i, w) PROVE Goal
  <2> DEFINE p == [uri.query[i] EXCEPT !.word = w, !.upper = FALSE]
  <2>1. p \in Param /\ Cased(p) /\ uri.query[i] \in Param
    BY ParamType
  <2>2. p.key = uri.query[i].key
    BY <2>1 DEF Param
  <2>3. Provide(With(i, p)) /\ (uri.scheme = "vless" \/ uri.query[i].key \in NodeKeys \cup SecretKeys)
    BY <1>2 DEF RenewParam, MoveParam, NodeKeys
  <2>4. uri.query[i].key \in NodeKeys \cup SecretKeys => Contribution(p) = Contribution(uri.query[i])
    BY <2>2 DEF Contribution
  <2> HIDE DEF p
  <2>5. Fine(With(i, p)) /\ Kept(With(i, p), uri)
    BY <2>1, <2>3, <2>4, FineWith DEF Kept
  <2> QED BY <1>0, <2>3, <2>5
<1>3. ASSUME NEW p \in Ports, MovePort(p) PROVE Goal
  <2> DEFINE v == [uri EXCEPT !.port = p]
  <2>1. /\ v \in Uri /\ v.query = uri.query /\ v.scheme = uri.scheme /\ v.pathname = uri.pathname
        /\ v.user = uri.user /\ v.userUpper = uri.userUpper
    BY DEF Fine, Uri
  <2>2. Fine(v) /\ Kept(v, uri)
    BY <2>1 DEF Fine, CaseGiven, Kept, Rest
  <2>3. Provide(v)
    BY <1>3 DEF MovePort
  <2> QED BY <1>0, <2>2, <2>3
<1> HIDE DEF Goal
<1>4. Goal
  BY <1>1, <1>2, <1>3, Renew \/ Move DEF Renew, Move
<1> QED BY <1>4 DEF Goal

-----------------------------------------------------------------------------
THEOREM InitInv == IdentityInit => IInv
<1> SUFFICES ASSUME IdentityInit PROVE IInv
  OBVIOUS
<1>1. Fine(uri)
  BY FirstUrisAssumption DEF IdentityInit, Fine, CaseGiven
<1>2. connect.raw = uri /\ connect.identityKey \in {<<>>, <<FullKey(uri)>>}
  BY DEF IdentityInit
<1>3. births \in Nat /\ changes \in Nat
  BY IdentityAssumption DEF IdentityInit
<1> QED BY <1>1, <1>2, <1>3 DEF IInv, IdentityTypeOK, Fine, Kept

THEOREM NextInv == IInv /\ [IdentityNext]_identityVars => IInv'
<1> SUFFICES ASSUME IInv, [IdentityNext]_identityVars PROVE IInv'
  OBVIOUS
<1>0. /\ Fine(uri) /\ Fine(connect.raw) /\ Kept(uri, connect.raw) /\ births \in Nat /\ changes \in Nat
      /\ connect.identityKey \in {<<>>, <<FullKey(connect.raw)>>}
  BY DEF IInv, IdentityTypeOK
<1>1. CASE Fetch
  <2>1. connect'.raw = uri /\ connect'.identityKey = <<FullKey(uri)>> /\ uri' = uri /\ changes' = changes
    BY <1>1 DEF Fetch
  <2>2. births' \in Nat
    BY <1>0, <1>1 DEF Fetch
  <2>3. Fine(uri') /\ Fine(connect'.raw) /\ Kept(uri', connect'.raw)
    BY <1>0, <2>1 DEF Kept
  <2>4. connect'.identityKey \in {<<>>, <<FullKey(connect'.raw)>>}
    BY <2>1
  <2> QED BY <1>0, <2>1, <2>2, <2>3, <2>4
          DEF IInv, IdentityTypeOK, Fine, CaseGiven, Kept, Rest, FullKey
<1>2. CASE Respell \/ Renew \/ Move
  <2>1. Fine(uri') /\ Kept(uri', uri) /\ UNCHANGED <<connect, births>> /\ changes > 0 /\ changes' = changes - 1
    BY <1>0, <1>2, RespellFine, RenewFine
  <2>2. changes' \in Nat /\ births' \in Nat /\ connect' = connect
    BY <1>0, <2>1
  <2>3. Kept(uri', connect.raw)
    BY <1>0, <2>1 DEF Kept
  <2> QED BY <1>0, <2>1, <2>2, <2>3
          DEF IInv, IdentityTypeOK, Fine, CaseGiven, Kept, Rest, FullKey
<1>3. CASE UNCHANGED identityVars
  <2>1. uri' = uri /\ connect' = connect /\ births' = births /\ changes' = changes
    BY <1>3 DEF identityVars
  <2> QED BY <1>0, <2>1 DEF IInv, IdentityTypeOK, Fine, CaseGiven, Kept, Rest, FullKey
<1> QED BY <1>1, <1>2, <1>3 DEF IdentityNext

THEOREM Invariant == IdentitySpec => []IInv
<1> QED BY InitInv, NextInv, PTL DEF IdentitySpec

(* The types, for any words, ports and URIs the feed may start with.       *)
THEOREM IdentityTypeCorrect == IdentitySpec => []IdentityTypeOK
<1>1. IInv => IdentityTypeOK
  BY DEF IInv
<1> QED BY <1>1, Invariant, PTL

(* A node, and two spellings with one full key, have one key for the       *)
(* removal of duplicates, after any number of respellings and renewals, if *)
(* and only if the port is written both times or neither; for vless always *)
(* (subscriptionIncomingDedupeKey).                                        *)
THEOREM ListedOnceCorrect == IdentitySpec => []ListedOnce
<1>1. IInv => ListedOnce
  <2>1. IInv /\ SamePort(uri, connect.raw) /\ SameNode(uri, connect.raw)
          => IncomingKey(uri) = IncomingKey(connect.raw)
    BY SameNodeKeys DEF IInv
  <2>2. IInv /\ SamePort(uri, connect.raw) /\ FullKey(uri) = FullKey(connect.raw)
          => IncomingKey(uri) = IncomingKey(connect.raw)
    BY SameKeys DEF IInv, Fine
  <2>3. IInv /\ IncomingKey(uri) = IncomingKey(connect.raw) => SamePort(uri, connect.raw)
    <3> SUFFICES ASSUME IInv, IncomingKey(uri) = IncomingKey(connect.raw), uri.scheme # "vless"
                 PROVE  (uri.port = NoPort) = (connect.raw.port = NoPort)
      BY DEF SamePort
    <3>1. uri \in Uri /\ connect.raw \in Uri /\ uri.scheme = connect.raw.scheme
      BY DEF IInv, Fine, Kept
    <3> QED BY <3>1, PortInKey
  <2> QED BY <2>1, <2>2, <2>3 DEF ListedOnce
<1> QED BY <1>1, Invariant, PTL

(* A fetch keeps the row of a node that was only respelled and renewed,    *)
(* and never passes it to one with another address or other settings       *)
(* (connectMatchesIdentity); the port of a hysteria2 node, and that of a   *)
(* trojan node with new credentials, has to stay written or unwritten.     *)
THEOREM RowPerNodeCorrect == IdentitySpec => RowPerNode
<1> DEFINE NewOnly ==
        births' # births /\ SameNode(uri, connect.raw) =>
            /\ ~ SamePort(uri, connect.raw)
            /\ uri.scheme = "trojan" => CredentialsOf(uri) # CredentialsOf(connect.raw)
<1>1. IInv /\ [IdentityNext]_identityVars => [NewOnly]_identityVars
  <2> SUFFICES ASSUME IInv, [IdentityNext]_identityVars, births' # births, SameNode(uri, connect.raw),
                      \/ SamePort(uri, connect.raw)
                      \/ uri.scheme = "trojan" /\ CredentialsOf(uri) = CredentialsOf(connect.raw)
               PROVE  FALSE
    OBVIOUS
  <2>1. CASE Fetch
    <3>1. ~ Recognises(connect, uri)
      BY <2>1 DEF Fetch
    <3>2. CASE SamePort(uri, connect.raw)
      <4>1. IncomingKey(uri) = IncomingKey(connect.raw)
        BY <3>2, SameNodeKeys DEF IInv
      <4>2. FullKey(uri) = FullKey(connect.raw) \/ (CoreKey(connect.raw) # NullCore /\ CoreKey(connect.raw) = CoreKey(uri))
        BY <4>1 DEF IncomingKey
      <4> QED BY <3>1, <4>2 DEF Recognises
    <3>3. CASE uri.scheme = "trojan" /\ CredentialsOf(uri) = CredentialsOf(connect.raw)
      <4>1. FullKey(uri) = FullKey(connect.raw)
        BY <3>3, SameFullKey DEF IInv, SameNode
      <4> QED BY <3>1, <4>1 DEF Recognises
    <3> QED BY <3>2, <3>3
  <2>2. CASE Respell \/ Renew \/ Move
    BY <2>2, RespellFine, RenewFine DEF IInv
  <2>3. CASE UNCHANGED identityVars
    BY <2>3 DEF identityVars
  <2> QED BY <2>1, <2>2, <2>3 DEF IdentityNext
<1>2. IInv /\ [IdentityNext]_identityVars => [NodeOf(connect'.raw) # NodeOf(connect.raw) => births' # births]_identityVars
  <2> SUFFICES ASSUME IInv, [IdentityNext]_identityVars, NodeOf(connect'.raw) # NodeOf(connect.raw), births' = births
               PROVE  FALSE
    OBVIOUS
  <2>1. CASE Fetch
    <3>1. Recognises(connect, uri)
      BY <2>1 DEF Fetch, IInv, IdentityTypeOK
    <3>2. connect.identityKey = <<FullKey(uri)>> => FullKey(connect.raw) = FullKey(uri)
      BY DEF IInv, IdentityTypeOK
    <3>3. NodeOf(connect.raw) = NodeOf(uri)
      BY <3>1, <3>2, SameKeysNode DEF Recognises, IInv
    <3>4. connect'.raw = uri
      BY <2>1 DEF Fetch
    <3> QED BY <3>3, <3>4
  <2>2. CASE Respell \/ Renew \/ Move
    <3>1. connect' = connect
      BY <2>2, RespellFine, RenewFine DEF IInv
    <3> QED BY <3>1
  <2>3. CASE UNCHANGED identityVars
    BY <2>3 DEF identityVars
  <2> QED BY <2>1, <2>2, <2>3 DEF IdentityNext
<1>3. IInv /\ [IdentityNext]_identityVars =>
        [/\ NewOnly
         /\ NodeOf(connect'.raw) # NodeOf(connect.raw) => births' # births]_identityVars
  BY <1>1, <1>2
<1> QED BY <1>3, Invariant, PTL DEF IdentitySpec, RowPerNode
=============================================================================
