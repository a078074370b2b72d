----------------------------- MODULE ConnectBoard -----------------------------
(***************************************************************************)
(* The page of connects (connects.vue) and the handlers it calls:          *)
(* ConnectsService and setConnectGroups, reorderGroups of                  *)
(* ManagementService.                                                      *)
(*                                                                         *)
(* A page holds a copy of the connects, read by GET /connects, and one of  *)
(* the groups, read when the page opens.  From these it builds a column of *)
(* ids per main group, and one for the connects that have none.  A gesture *)
(* of the administrator (a drag, a sort mode, a bulk change, a button)     *)
(* becomes a flow: some PATCH requests sent together, perhaps a request    *)
(* for the new order of all connects, then a GET whose answer replaces the *)
(* copy.  Several flows, of one page or of several, run at the same time,  *)
(* and nothing orders their requests and answers.                          *)
(*                                                                         *)
(* A drag is one step, from the copy the cards were drawn from; groups are *)
(* not renamed here (module Groups); PATCH :id/hide and POST :id/tags,     *)
(* which no page calls, are left out.  Names are not those of PublicFeed,  *)
(* so that the proofs about the two pages can share one module.            *)
(***************************************************************************)
EXTENDS Lists, SequencesExt

CONSTANTS
    Connects,     \* ids of connects: numbers that grow with createdAt
    GroupNames,   \* names of groups
    Ungrouped,    \* UNGROUPED_CONNECT_GROUP_NAME; also the key NO_MAIN_BUCKET
    InitGroups,   \* group -> [main, order, born]
    InitDocs,     \* connect -> stored document, which may lack fields
    SubTitle,     \* connect -> rank of the title of its subscription
    JsonConns,    \* connects of subscriptions read as JSON
    Labels,       \* display names, as ranks
    Filters,      \* filters an administrator may set
    Pages, FlowSlots,
    Gestures, Outside,       \* which gestures and which other changes occur
    MaxGestures, MaxOutside  \* bounds on their number

ASSUME BoardAssumption ==
    /\ Connects \subseteq Nat /\ IsFiniteSet(Connects)
    /\ Ungrouped \in GroupNames /\ IsFiniteSet(GroupNames)
    /\ SubTitle \in [Connects -> Nat] /\ Labels \subseteq Nat
    /\ DOMAIN InitGroups \subseteq GroupNames /\ Ungrouped \in DOMAIN InitGroups
    /\ InitGroups \in [DOMAIN InitGroups -> [main: BOOLEAN, order: Nat, born: Nat]]
    /\ \A m, n \in DOMAIN InitGroups : InitGroups[m].born = InitGroups[n].born => m = n
    /\ ~ InitGroups[Ungrouped].main
    /\ DOMAIN InitDocs \subseteq Connects
    /\ \A c \in DOMAIN InitDocs : LET d == InitDocs[c] IN
          /\ {"name", "json"} \subseteq DOMAIN d
          /\ d.name \in Labels /\ d.json \in {"feed", "edited"}
          /\ "order" \in DOMAIN d => d.order \in Nat
          /\ "on" \in DOMAIN d => d.on \in BOOLEAN
          /\ "tags" \in DOMAIN d => d.tags \subseteq GroupNames
    /\ MaxGestures \in Nat /\ MaxOutside \in Nat

VARIABLES
    row,     \* live connect -> [order, tags, on, name, json]
    group,   \* group -> [main, order, born]
    board,   \* page -> what the browser holds
    flow,    \* slot -> a gesture that is being carried out
    left,    \* gestures and other changes that may still come
    want     \* history: what the last gesture, undisturbed so far, asked for

boardVars == <<row, group, board, flow, left, want>>

Modes == {"panel", "name_az", "name_za", "subscription_az", "subscription_za"}

NoFilter == [on |-> BOOLEAN, subs |-> Range(SubTitle), names |-> Labels, tags |-> {}]

-----------------------------------------------------------------------------
(* What a page shows, as functions of what it holds.                       *)
MainsOf(groups) == {n \in DOMAIN groups : groups[n].main}

(* bucketKeysOrdered: a stable sort of the groups as GET /groups lists     *)
(* them, by order and age.                                                 *)
Keys(pg) ==
    LET gs == pg.groups
        shown == {n \in DOMAIN gs : gs[n].main \/ n = Ungrouped}
        ks == Sorted(shown, [n \in shown |->
                 {m \in shown : \/ gs[m].order < gs[n].order
                                \/ gs[m].order = gs[n].order /\ gs[m].born < gs[n].born}])
    IN IF Ungrouped \in DOMAIN gs THEN ks ELSE Append(ks, Ungrouped)

(* filteredConnects; the search is the set of names it matches.            *)
Visible(pg) ==
    {c \in DOMAIN pg.rows : /\ pg.rows[c].on \in pg.filter.on
                            /\ SubTitle[c] \in pg.filter.subs
                            /\ pg.rows[c].name \in pg.filter.names
                            /\ pg.filter.tags \subseteq pg.rows[c].tags}

InColumn(pg, c, key) ==
    IF key = Ungrouped THEN pg.rows[c].tags \cap MainsOf(pg.groups) = {}
                       ELSE key \in pg.rows[c].tags

(* compareConnectsForBucket: the newer connect first among equals.         *)
ByOrder(rows, ids) ==
    Sorted(ids, [b \in ids |-> {a \in ids : \/ rows[a].order < rows[b].order
                                            \/ rows[a].order = rows[b].order /\ a > b}])

(* cmpName and cmpSub, one way or the other.                               *)
Precedes(pg, mode, c, d) ==
    LET name(x) == pg.rows[x].name
        sub(x)  == SubTitle[x]
    IN CASE mode = "panel"   -> FALSE
         [] mode = "name_az" -> name(c) < name(d)
         [] mode = "name_za" -> name(c) > name(d)
         [] mode = "subscription_az" -> sub(c) < sub(d) \/ (sub(c) = sub(d) /\ name(c) < name(d))
         [] mode = "subscription_za" -> sub(c) > sub(d) \/ (sub(c) = sub(d) /\ name(c) > name(d))

(* sortConnectIdsForBucketMode, a stable sort.                             *)
Arranged(pg, ids, mode) ==
    LET at == Sorted(DOMAIN ids, [j \in DOMAIN ids |->
                 {i \in DOMAIN ids :
                     \/ Precedes(pg, mode, ids[i], ids[j])
                     \/ ~ Precedes(pg, mode, ids[j], ids[i]) /\ i < j}])
    IN [i \in DOMAIN ids |-> ids[at[i]]]

(* rebuildBucketOrder and applyBucketConnectSortModes, which a watcher     *)
(* runs whenever the copies or the filter change.                          *)
Rebuild(pg) ==
    [pg EXCEPT !.cols = [key \in Range(Keys(pg)) |->
        Arranged(pg, ByOrder(pg.rows, {c \in Visible(pg) : InColumn(pg, c, key)}),
                 pg.modes[key])]]

Without(ids, S) == Those(ids, Range(ids) \ S)

(* All cards, column by column.                                            *)
Cards(pg) == Joined([i \in DOMAIN Keys(pg) |-> pg.cols[Keys(pg)[i]]])

(* orderedSelectedIdsFromPre *)
Block(pg, S) == Those(Cards(pg), S)

(* The columns as Sortable leaves them in the document.                    *)
Dropped(pg, c, from, to, k) ==
    LET out == [pg.cols EXCEPT ![from] = Without(@, {c})]
    IN [out EXCEPT ![to] = InsertAt(@, k, c)]

(* mergeMultiDragIntoBuckets: k - 1 is evt.newIndex, an index among cards  *)
(* of which the selected ones have not been taken out.                     *)
Merged(pg, to, k) ==
    LET out  == [key \in DOMAIN pg.cols |-> Without(pg.cols[key], pg.sel)]
        at   == IF k - 1 <= Len(out[to]) THEN k - 1 ELSE Len(out[to])
    IN [out EXCEPT ![to] = SubSeq(@, 1, at) \o Block(pg, pg.sel) \o SubSeq(@, at + 1, Len(@))]

(* Slip: the main group the connect had stays.                             *)
TagsAdding(pg, c, to) ==
    pg.rows[c].tags \cup (IF to = Ungrouped THEN {} ELSE {to})

(* computeGroupNamesForBucket *)
TagsFor(pg, c, to) ==
    (pg.rows[c].tags \ MainsOf(pg.groups)) \cup (IF to = Ungrouped THEN {} ELSE {to})

(* Slip: a connect shown in two columns is sent twice.                     *)
AllIdsRepeated(pg) ==
    Cards(pg) \o ByOrder(pg.rows, DOMAIN pg.rows \ Range(Cards(pg)))

(* persistGlobalOrderFromBuckets: the ids of all columns, those the        *)
(* columns lack if the numbers differ, every id once.                      *)
AllIds(pg) ==
    LET ordered == Cards(pg)
        rest    == IF Len(ordered) # Cardinality(DOMAIN pg.rows)
                   THEN ByOrder(pg.rows, DOMAIN pg.rows \ Range(ordered)) ELSE <<>>
    IN Firsts(ordered \o rest, [c \in Connects |-> c])

(* normalizeConnectGroupNamesForStorage                                    *)
Normalized(names) ==
    IF names \subseteq {Ungrouped} THEN {Ungrouped} ELSE names \ {Ungrouped}

-----------------------------------------------------------------------------
(* normalizeLegacyConnects, which every handler of connects runs first:    *)
(* the fields a document lacks are filled in.                              *)
NormalizeLegacy(doc) ==
    LET stored(f, default) == IF f \in DOMAIN doc THEN doc[f] ELSE default
        tags == stored("tags", {})
    IN [order |-> stored("order", 0), on |-> stored("on", TRUE),
        tags |-> IF tags = {} THEN {Ungrouped} ELSE tags, name |-> doc.name, json |-> doc.json]

(* ensureGroupSortOrderBackfill: groups that all have one order get their  *)
(* places by age.                                                          *)
SortOrderBackfill(groups) ==
    IF \A m, n \in DOMAIN groups : groups[m].order = groups[n].order
    THEN [n \in DOMAIN groups |-> [groups[n] EXCEPT !.order =
            Cardinality({m \in DOMAIN groups : groups[m].born < groups[n].born})]]
    ELSE groups

BoardInit ==
    /\ row = [c \in DOMAIN InitDocs |-> NormalizeLegacy(InitDocs[c])]
    /\ group = SortOrderBackfill(InitGroups)
    /\ board = [p \in Pages |-> Rebuild(
                  [rows |-> row, groups |-> group, cols |-> <<>>,
                   modes |-> [n \in GroupNames |-> "panel"], sel |-> {}, filter |-> NoFilter,
                   loading |-> FALSE,
                   dirty |-> FALSE,      \* history: own changes that are not shown yet
                   tangled |-> FALSE])]  \* history: loads overlapped or a flow failed
    /\ flow = <<>>
    /\ left = [gestures |-> MaxGestures, outside |-> MaxOutside]
    /\ want = {}

-----------------------------------------------------------------------------
(* Flows.  "wire" are the PATCH requests the server has not handled yet.   *)
NewFlow(p, kind) ==
    [page |-> p, kind |-> kind, pc |-> "patch", wire |-> {}, failed |-> FALSE,
     quiet |-> FALSE, cols |-> <<>>, panel |-> {}, ids |-> <<>>, at |-> 1,
     snap |-> <<>>, old |-> FALSE]

Req(kind, c, val) == [kind |-> kind, id |-> c, val |-> val]

Loading(p) == \E s \in DOMAIN flow : flow[s].page = p /\ flow[s].pc \in {"load", "answer"}

Tangle(p, pg) == [pg EXCEPT !.tangled = @ \/ Loading(p)]

Fresh(p) == board[p].rows = row /\ board[p].groups = group

Begin(s, kind, p, pg, f, w) ==
    /\ s \in FlowSlots \ DOMAIN flow
    /\ kind \in Gestures /\ left.gestures > 0
    /\ flow' = [q \in DOMAIN flow \cup {s} |-> IF q = s THEN f ELSE flow[q]]
    /\ board' = [board EXCEPT ![p] = pg]
    /\ left' = [left EXCEPT !.gestures = @ - 1]
    /\ want' = IF DOMAIN flow = {} /\ Fresh(p) THEN w ELSE {}
    /\ UNCHANGED <<row, group>>

Goto(s, f) == flow' = [flow EXCEPT ![s] = f]

(* A flow the page is done with; its requests may still be on their way.   *)
Ended(s) == IF flow[s].wire = {} THEN Restrict(flow, DOMAIN flow \ {s})
                                 ELSE [flow EXCEPT ![s].pc = "gone"]

(* The columns are written down as the order of all connects.              *)
PersistOrder(p, kind, pg) ==
    [NewFlow(p, kind) EXCEPT !.pc = "reorder", !.quiet = TRUE, !.ids = AllIds(pg)]

(* What was asked for: tags, status, name and json of every connect, and   *)
(* the columns, if the gesture arranges them.  "plain": no card shown      *)
(* twice, and no other selected card in the way of the one dragged.        *)
Asked(p, rows, cols, plain) ==
    {[page |-> p, rows |-> [c \in DOMAIN rows |-> [rows[c] EXCEPT !.order = 0]],
      cols |-> cols, plain |-> plain]}

OneColumnEach(pg) ==
    \A c \in DOMAIN pg.rows : Cardinality(pg.rows[c].tags \cap MainsOf(pg.groups)) <= 1

(* The gesture changes fields of the connects in S.                        *)
Edited(pg, S, field, val(_)) ==
    [c \in DOMAIN pg.rows |->
        IF c \in S THEN [pg.rows[c] EXCEPT ![field] = val(c)] ELSE pg.rows[c]]

-----------------------------------------------------------------------------
(* toggleRowSelect, toggleSelectAllInBucket, toggleSelectAllFiltered,      *)
(* clearRowSelection                                                       *)
Select(p, ids, value) ==
    LET pg == board[p] IN
    /\ "select" \in Gestures /\ left.gestures > 0
    /\ ids \in {{c} : c \in Visible(pg)} \cup {Range(pg.cols[k]) : k \in DOMAIN pg.cols}
               \cup {Visible(pg), pg.sel}
    /\ board' = [board EXCEPT ![p].sel = IF value THEN @ \cup ids ELSE @ \ ids]
    /\ UNCHANGED <<row, group, flow, left, want>>

SetFilter(p, f) ==
    /\ "filter" \in Gestures /\ left.gestures > 0
    /\ f # board[p].filter
    /\ board' = [board EXCEPT ![p] = Rebuild([@ EXCEPT !.filter = f])]
    /\ left' = [left EXCEPT !.gestures = @ - 1]
    /\ want' = {}
    /\ UNCHANGED <<row, group, flow>>

(* onBucketSortEnd.  Within one column nothing but the order is saved,     *)
(* whatever columns the other selected cards come from.                    *)
Drag(s, p, c, from, to, k) ==
    LET pg    == board[p]
        multi == c \in pg.sel /\ Cardinality(pg.sel) > 1 /\ pg.sel \subseteq Visible(pg)
        moved == IF multi THEN pg.sel ELSE {c}
        seen  == Dropped(pg, c, from, to, k)
        cols  == IF multi THEN Merged(pg, to, k) ELSE seen
        show  == [pg EXCEPT !.cols = cols,
                            !.modes = [n \in GroupNames |->
                                          IF n \in {from, to} THEN "panel" ELSE @[n]]]
        \* the selected cards, together, where the one dragged was let go
        goal  == [key \in DOMAIN pg.cols |->
                    IF key # to THEN Without(pg.cols[key], moved)
                    ELSE LET i == CHOOSE i \in DOMAIN seen[to] : seen[to][i] = c IN
                         Without(SubSeq(seen[to], 1, i - 1), moved)
                         \o (IF multi THEN Block(pg, moved) ELSE <<c>>)
                         \o Without(SubSeq(seen[to], i + 1, Len(seen[to])), moved)]
        tags(d) == Normalized((pg.rows[d].tags \ MainsOf(pg.groups))
                              \cup (IF to = Ungrouped THEN {} ELSE {to}))
        plain == /\ OneColumnEach(pg)
                 /\ multi => from # to /\ moved \cap Range(pg.cols[to]) = {}
    IN
    /\ pg.filter = NoFilter /\ ~ pg.loading
    /\ c \in Range(pg.cols[from]) /\ seen # pg.cols
    /\ Begin(s, "drag", p, IF from = to THEN show ELSE pg,
             IF from = to THEN PersistOrder(p, "drag", show)
             ELSE [NewFlow(p, "drag") EXCEPT !.quiet = TRUE, !.cols = cols, !.panel = {from, to},
                       !.wire = {Req("tags", d, TagsFor(pg, d, to)) : d \in moved}],
             Asked(p, IF from = to THEN pg.rows ELSE Edited(pg, moved, "tags", tags), goal, plain))

(* onConnectBucketSortPick: a mode, or an order drawn by lot.  The columns *)
(* are drawn while there are connects to show.                             *)
SortPick(s, p, key, mode) ==
    LET pg == Rebuild([board[p] EXCEPT !.modes[key] = mode]) IN
    /\ board[p].filter = NoFilter /\ Visible(board[p]) # {}
    /\ Begin(s, "sort", p, pg, PersistOrder(p, "sort", pg),
             Asked(p, pg.rows, pg.cols, OneColumnEach(pg)))

Shuffle(s, p, key, ids) ==
    LET pg == [board[p] EXCEPT !.cols[key] = ids, !.modes[key] = "panel"] IN
    /\ board[p].filter = NoFilter
    /\ Len(ids) >= 2 /\ Len(ids) = Len(board[p].cols[key])
    /\ Range(ids) = Range(board[p].cols[key])
    /\ Begin(s, "sort", p, pg, PersistOrder(p, "sort", pg),
             Asked(p, pg.rows, pg.cols, OneColumnEach(pg)))

BulkTags(pg, c, names, adding) ==
    LET tags == IF c \in DOMAIN pg.rows THEN pg.rows[c].tags ELSE {}
    IN IF adding THEN tags \cup names ELSE tags \ names

(* bulkAddGroupsToSelection, which refuses a second main group, and        *)
(* bulkRemoveGroupsFromSelection; selected cards need not be visible.      *)
Bulk(s, p, names, adding) ==
    LET pg == board[p] IN
    /\ pg.sel # {} /\ names # {} /\ names \subseteq DOMAIN pg.groups
    /\ ~ \E q \in DOMAIN flow : flow[q].page = p /\ flow[q].kind = "bulk" /\ flow[q].pc # "gone"
    /\ adding => \A c \in pg.sel :
          Cardinality(BulkTags(pg, c, names, TRUE) \cap MainsOf(pg.groups)) <= 1
    /\ Begin(s, "bulk", p, pg,
             [NewFlow(p, "bulk") EXCEPT
                 !.wire = {Req("tags", c, BulkTags(pg, c, names, adding)) : c \in pg.sel}],
             Asked(p, Edited(pg, pg.sel, "tags", LAMBDA c :
                         Normalized(IF adding THEN pg.rows[c].tags \cup names
                                              ELSE pg.rows[c].tags \ names)), <<>>,
                   /\ pg.sel \subseteq DOMAIN pg.rows
                   /\ \A c \in pg.sel :
                         Cardinality(BulkTags(pg, c, names, adding) \cap MainsOf(pg.groups)) <= 1))

(* toggleStatus, saveConnectName, saveConnectRawJson, confirmRemoveConnect *)
ChangeCard(s, p, c, field, val) ==
    LET pg == board[p]
        as(g, v(_)) == Asked(p, Edited(pg, {c}, g, v), <<>>, TRUE)
    IN
    /\ c \in Visible(pg)
    /\ field = "json" => c \in JsonConns
    /\ Begin(s, field, p, pg, [NewFlow(p, field) EXCEPT !.wire = {Req(field, c, val)}],
             CASE field = "toggle" -> as("on", LAMBDA d : ~ pg.rows[d].on)
               [] field = "remove" -> Asked(p, Restrict(pg.rows, DOMAIN pg.rows \ {c}), <<>>, TRUE)
               [] OTHER            -> as(field, LAMBDA d : val))

(* The refresh button.                                                     *)
Refresh(s, p) ==
    /\ ~ board[p].loading
    /\ Begin(s, "refresh", p, Tangle(p, [board[p] EXCEPT !.loading = TRUE]),
             [NewFlow(p, "refresh") EXCEPT !.pc = "load"], {})

(* The page is opened anew: loadConnects and loadGroups, whose answer is   *)
(* taken to arrive at once.                                                *)
Open(s, p) ==
    /\ \A q \in DOMAIN flow : flow[q].page # p
    /\ Begin(s, "open", p,
             Rebuild([board[p] EXCEPT !.rows = <<>>, !.groups = group, !.sel = {},
                         !.filter = NoFilter, !.modes = [n \in GroupNames |-> "panel"],
                         !.loading = TRUE]),
             [NewFlow(p, "open") EXCEPT !.pc = "load"], {})

-----------------------------------------------------------------------------
(* History: a page that waits for the answer to a GET will not see in it   *)
(* what the server writes for it now.                                      *)
Older(fs, p) ==
    [q \in DOMAIN fs |-> IF fs[q].page = p /\ fs[q].pc = "answer"
                         THEN [fs[q] EXCEPT !.old = TRUE] ELSE fs[q]]

(* The server answers a request, and perhaps sends another to itself.      *)
Handled(s, r, ok, more) ==
    LET f  == [flow[s] EXCEPT !.wire = (@ \ {r}) \cup more, !.failed = @ \/ ~ ok]
        fs == [flow EXCEPT ![s] = f]
    IN
    /\ flow' = IF f.pc = "gone" /\ f.wire = {} THEN Restrict(flow, DOMAIN flow \ {s})
               ELSE IF ok /\ more = {} THEN Older(fs, f.page) ELSE fs
    /\ board' = [board EXCEPT ![f.page].dirty = @ \/ (ok /\ more = {})]
    /\ UNCHANGED <<group, left, want>>

(* setConnectGroups; module Groups takes it apart.                         *)
SetConnectGroups(s, r) ==
    LET names == Normalized(r.val)
        ok    == r.id \in DOMAIN row /\ Cardinality(names \cap MainsOf(group)) <= 1
    IN
    /\ r.kind = "tags"
    /\ row' = IF ok THEN [row EXCEPT ![r.id].tags = names] ELSE row
    /\ Handled(s, r, ok, {})

(* toggleStatus reads the status, and then writes its opposite.            *)
ReadStatus(s, r) ==
    LET ok == r.id \in DOMAIN row IN
    /\ r.kind = "toggle"
    /\ Handled(s, r, ok, IF ok THEN {Req("on", r.id, ~ row[r.id].on)} ELSE {})
    /\ UNCHANGED row

(* connect.update of toggleStatus, updateName and updateRawJson            *)
WriteField(s, r) ==
    LET ok == r.id \in DOMAIN row IN
    /\ r.kind \in {"on", "name", "json"}
    /\ row' = IF ok THEN [row EXCEPT ![r.id][r.kind] = r.val] ELSE row
    /\ Handled(s, r, ok, {})

(* remove; the balancers are left first (module Balancers).                *)
RemoveConnect(s, r) ==
    /\ r.kind = "remove"
    /\ row' = Restrict(row, DOMAIN row \ {r.id})
    /\ Handled(s, r, r.id \in DOMAIN row, {})

(* reorder: one updateMany per id; ids that are gone are passed over.      *)
(* After the last one the page has the answer and asks for the list.       *)
WriteOrder(s) ==
    LET f    == flow[s]
        c    == f.ids[f.at]
        last == f.at = Len(f.ids)
        on   == [f EXCEPT !.at = @ + 1, !.pc = IF last THEN "load" ELSE @]
        pg   == IF last THEN Tangle(f.page, board[f.page]) ELSE board[f.page]
    IN
    /\ f.pc = "reorder"
    /\ row' = IF c \in DOMAIN row THEN [row EXCEPT ![c].order = f.at] ELSE row
    /\ flow' = Older([flow EXCEPT ![s] = on], f.page)
    /\ board' = [board EXCEPT ![f.page] = [pg EXCEPT !.dirty = TRUE]]
    /\ UNCHANGED <<group, left, want>>

(* findAll *)
AnswerLoad(s) ==
    /\ flow[s].pc = "load"
    /\ flow' = [flow EXCEPT ![s].pc = "answer", ![s].snap = row]
    /\ UNCHANGED <<row, group, board, left, want>>

-----------------------------------------------------------------------------
(* Slip: the list is not asked for again after a bulk change.              *)
PatchedNoReload(s) ==
    LET f == flow[s] IN
    /\ f.pc = "patch" /\ f.wire = {} /\ ~ f.failed
    /\ flow' = Ended(s)
    /\ UNCHANGED <<row, group, board, left, want>>

(* The page goes on when every request of a flow is answered.              *)
Patched(s) ==
    LET f  == flow[s]
        pg == board[f.page]
        arranged == [pg EXCEPT !.cols = f.cols,
                               !.modes = [n \in GroupNames |->
                                             IF n \in f.panel THEN "panel" ELSE @[n]]]
    IN
    /\ f.pc = "patch" /\ f.wire = {} /\ ~ f.failed
    /\ IF f.kind = "drag"
       THEN /\ board' = [board EXCEPT ![f.page] = arranged]
            /\ flow' = [flow EXCEPT ![s] = PersistOrder(f.page, "drag", arranged)]
       ELSE /\ board' = [board EXCEPT ![f.page] =
                   [Tangle(f.page, pg) EXCEPT !.loading = TRUE,
                                              !.sel = IF f.kind = "bulk" THEN {} ELSE @]]
            /\ flow' = [flow EXCEPT ![s].pc = "load"]
    /\ UNCHANGED <<row, group, left, want>>

(* One request is refused: Promise.all rejects at once, while the others   *)
(* of the same gesture may still be on their way.  A drag asks for the     *)
(* list, the others do not.                                                *)
PatchFailed(s) ==
    LET f == flow[s] IN
    /\ f.pc = "patch" /\ f.failed
    /\ board' = [board EXCEPT ![f.page].tangled = TRUE]
    /\ flow' = IF f.kind = "drag" THEN [flow EXCEPT ![s].pc = "load"] ELSE Ended(s)
    /\ UNCHANGED <<row, group, left, want>>

(* loadConnects has its answer; the watcher rebuilds the columns.          *)
ApplyLoad(s) ==
    LET f  == flow[s]
        pg == board[f.page]
    IN
    /\ f.pc = "answer"
    /\ board' = [board EXCEPT ![f.page] =
                  Rebuild([pg EXCEPT !.rows = f.snap, !.dirty = f.old,
                                     !.loading = @ /\ f.quiet])]
    /\ flow' = Ended(s)
    /\ UNCHANGED <<row, group, left, want>>

-----------------------------------------------------------------------------
(* Meanwhile, elsewhere: a synchronisation adds or deletes a connect, the  *)
(* groups page makes a group main or reorders the groups.                  *)
Elsewhere(kind) ==
    /\ kind \in Outside /\ left.outside > 0
    /\ left' = [left EXCEPT !.outside = @ - 1]
    /\ want' = {}
    /\ UNCHANGED board

SyncAdds(c) ==
    /\ Elsewhere("add")
    /\ c \in Connects /\ \A d \in DOMAIN row : d < c
    /\ \E l \in Labels :
          row' = [d \in DOMAIN row \cup {c} |->
                    IF d \in DOMAIN row THEN row[d]
                    ELSE [order |-> 0, tags |-> {Ungrouped}, on |-> TRUE, name |-> l,
                          json |-> "feed"]]
    /\ UNCHANGED <<group, flow>>

SyncDeletes(c) ==
    /\ Elsewhere("delete")
    /\ c \in DOMAIN row
    /\ row' = Restrict(row, DOMAIN row \ {c})
    /\ UNCHANGED <<group, flow>>

SetMain(n, main) ==
    /\ Elsewhere("main")
    /\ n \in DOMAIN group \ {Ungrouped} /\ group[n].main # main
    /\ group' = [group EXCEPT ![n].main = main]
    /\ UNCHANGED <<row, flow>>

(* reorderGroups: every group once, then one update per group.             *)
ReorderGroups(s, p, ids) ==
    /\ Elsewhere("groups")
    /\ s \in FlowSlots \ DOMAIN flow
    /\ Len(ids) = Cardinality(DOMAIN group) /\ Range(ids) = DOMAIN group
    /\ flow' = [q \in DOMAIN flow \cup {s} |->
                  IF q = s THEN [NewFlow(p, "groups") EXCEPT !.pc = "groups", !.ids = ids]
                  ELSE flow[q]]
    /\ UNCHANGED <<row, group>>

WriteGroupOrder(s) ==
    LET f == flow[s] IN
    /\ f.pc = "groups"
    /\ group' = [group EXCEPT ![f.ids[f.at]].order = f.at - 1]
    /\ flow' = IF f.at = Len(f.ids) THEN Ended(s) ELSE [flow EXCEPT ![s].at = @ + 1]
    /\ UNCHANGED <<row, board, left, want>>

-----------------------------------------------------------------------------
MayBegin(s) == left.gestures > 0 /\ s \notin DOMAIN flow

Gesture(s, p) ==
    \/ \E c \in DOMAIN board[p].rows, from, to \in DOMAIN board[p].cols :
          \E k \in 1..(Len(Without(board[p].cols[to], {c})) + 1) :
              Drag(s, p, c, from, to, k)
    \/ \E key \in DOMAIN board[p].cols :
          \/ \E mode \in Modes : SortPick(s, p, key, mode)
          \/ \E ids \in SetToSeqs(Range(board[p].cols[key])) : Shuffle(s, p, key, ids)
    \/ \E n \in GroupNames, adding \in BOOLEAN : Bulk(s, p, {n}, adding)
    \/ \E c \in Connects :
          \/ ChangeCard(s, p, c, "toggle", TRUE)
          \/ \E l \in Labels : ChangeCard(s, p, c, "name", l)
          \/ ChangeCard(s, p, c, "json", "edited")
          \/ ChangeCard(s, p, c, "remove", TRUE)
    \/ Refresh(s, p)
    \/ Open(s, p)

Server(s) ==
    \/ \E r \in flow[s].wire : \/ SetConnectGroups(s, r) \/ ReadStatus(s, r)
                               \/ WriteField(s, r) \/ RemoveConnect(s, r)
    \/ WriteOrder(s)
    \/ AnswerLoad(s)
    \/ WriteGroupOrder(s)

Others ==
    \/ \E c \in Connects : SyncAdds(c) \/ SyncDeletes(c)
    \/ \E n \in GroupNames, main \in BOOLEAN : SetMain(n, main)
    \/ \E s \in FlowSlots, p \in Pages, ids \in SetToSeqs(DOMAIN group) : ReorderGroups(s, p, ids)

BoardNext ==
    \/ \E s \in FlowSlots, p \in Pages : MayBegin(s) /\ Gesture(s, p)
    \/ \E p \in Pages, value \in BOOLEAN :
          \E ids \in SUBSET DOMAIN board[p].rows : Select(p, ids, value)
    \/ \E p \in Pages, f \in Filters : SetFilter(p, f)
    \/ \E s \in DOMAIN flow : Server(s) \/ Patched(s) \/ PatchFailed(s) \/ ApplyLoad(s)
    \/ left.outside > 0 /\ Others

BoardSpec == BoardInit /\ [][BoardNext]_boardVars

-----------------------------------------------------------------------------
Rows == [order: Nat, tags: (SUBSET GroupNames) \ {{}}, on: BOOLEAN, name: Labels,
         json: {"feed", "edited"}]

(* The types; a column for every main group of the page; an order is sent  *)
(* without repetitions.                                                    *)
BoardTypeOK ==
    /\ DOMAIN row \subseteq Connects /\ \A c \in DOMAIN row : row[c] \in Rows
    /\ \A p \in Pages :
          /\ \A c \in DOMAIN board[p].rows : board[p].rows[c] \in Rows
          /\ DOMAIN board[p].cols = Range(Keys(board[p]))
          /\ board[p].sel \subseteq Connects
    /\ DOMAIN flow \subseteq FlowSlots
    /\ \A s \in DOMAIN flow : IsInjective(flow[s].ids)

(* A gesture made on an up-to-date page, and disturbed by nothing, does    *)
(* what it shows: in the end the connects have the tags, status, name and  *)
(* json asked for, the page holds what the database holds, and the columns *)
(* are those the administrator saw when letting go.                        *)
SoloSticks ==
    \A w \in want : DOMAIN flow = {} /\ w.plain =>
        /\ w.rows = [c \in DOMAIN row |-> [row[c] EXCEPT !.order = 0]]
        /\ board[w.page].rows = row
        /\ w.cols # <<>> => board[w.page].cols = w.cols

(* A page that has no flow in progress shows all its own changes, unless   *)
(* two of its loads overlapped or a request failed: every flow asks for    *)
(* the list after its last request was answered.                           *)
ShowsOwnChanges ==
    \A p \in Pages :
        board[p].dirty /\ (\A s \in DOMAIN flow : flow[s].page # p) => board[p].tangled
=============================================================================
