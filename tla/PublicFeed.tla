------------------------------ MODULE PublicFeed ------------------------------
(***************************************************************************)
(* What one panel user receives from public/sub/:code, and the page where  *)
(* he orders his groups and leaves some of them out.                       *)
(*                                                                         *)
(* A request for the feed reads the user, then the groups, then the        *)
(* connects of one group after another, while synchronisations and the     *)
(* operator change connects and the user's groups.  The page keeps a copy  *)
(* of the list of groups, edits it, and saves it whole half a second after *)
(* the last edit; a save reads the user, checks the list and writes it,    *)
(* and saves may overtake one another.                                     *)
(*                                                                         *)
(* Who may have the feed is FeedAccess, the links to it are AccessLink,    *)
(* how connects come to their groups and order Groups and ConnectBoard,    *)
(* and what is in the copies a balancer keeps Balancers.  The wording of   *)
(* titles and announcements is left out: of each only the source is kept.  *)
(***************************************************************************)
EXTENDS Outbound, Lists, SequencesExt

CONSTANTS
    Names, Key,    \* names of groups; the place in the alphabet of what
                   \* remains of one when case is dropped
    Conns, Rank,   \* ids of connects; their place by sortOrder, then createdAt desc
    Sources,       \* what a subscription may list for a connect
    Memberships,   \* groupNames an operator may give the user
    Slots,         \* saves in progress at the same time
    Scenarios      \* where a behaviour starts, and its budgets

NoPrefs == << >>
NoCall == [pc |-> "idle"]
NoFeed == [format |-> "none"]
Formats == {"base64", "json", "refused"}

Entry == [name: Names, include: BOOLEAN]
IsFree(ns) == \A i, j \in DOMAIN ns : Key[ns[i]] = Key[ns[j]] => i = j

ASSUME FeedAssumption ==
    /\ IsFiniteSet(Names) /\ IsFiniteSet(Conns) /\ IsFiniteSet(Slots)
    /\ Key \in [Names -> Nat]
    /\ Rank \in [Conns -> Nat] /\ IsInjective(Rank)
    /\ Memberships \subseteq Seq(Names)
    /\ \A s \in Scenarios :
          /\ s.user \in [groups: Seq(Names), prefs: Seq(Entry)]
          /\ DOMAIN s.rows \subseteq Names
          /\ \A c \in Conns : s.tags[c] \subseteq Names

VARIABLES
    user,      \* PanelUser: [groups, prefs]
    rows,      \* existing groups -> which settings they have of their own
    conn,      \* connect -> [active, tags, mode, raw, json, mixed]
    page,      \* [local, timer, saving, error], and history: the groups of
               \* the user when it loaded
    saves,     \* slot -> a PATCH of this or an earlier page
    call,      \* the request for the feed in progress
    feed,      \* the last feed sent
    budget,
    steady,    \* history: nothing the call reads has changed since it began
    settled    \* history: since the page loaded, no two saves and no other
               \* change of the user have been under way

vars == <<user, rows, conn, page, saves, call, feed, budget, steady, settled>>


-----------------------------------------------------------------------------
(* Lists of groups.                                                        *)
(* Slip: A and a count as two groups.                                      *)
OrderedUniqueExact(ns) == Firsts(ns, [n \in Names |-> n])

(* orderedUniquePanelUserGroupNames and its kin: the first of names that   *)
(* agree but for case.                                                     *)
OrderedUnique(ns) == Firsts(ns, Key)

EntryKey == [e \in Entry |-> Key[e.name]]
NamesOf(es) == [i \in DOMAIN es |-> es[i].name]
IncludedOf(es) == NamesOf(Those(es, {e \in Entry : e.include}))

(* getEffectiveSubscriptionGroupEntries: the stored choice as far as it is *)
(* about groups of the user, then the other groups, included.              *)
Effective(u) ==
    LET members == OrderedUnique(u.groups)
        chosen == Those(u.prefs, {e \in Entry : e.name \in Range(members)})
        all == [i \in DOMAIN members |-> [name |-> members[i], include |-> TRUE]]
    IN Firsts(chosen \o all, EntryKey)

(* countActiveConnectsByGroupNames, for one name.                          *)
ActiveIn(n) == {c \in Conns : conn[c].active /\ n \in conn[c].tags}

(* findGroupRowByPanelGroupName and resolveGroupNamesToCanonical: the row  *)
(* of that name, else one that differs in case.                            *)
RowsLike(n) ==
    IF n \in DOMAIN rows THEN {n} ELSE {m \in DOMAIN rows : Key[m] = Key[n]}

Canonical(n) == IF RowsLike(n) = {} THEN n ELSE CHOOSE m \in RowsLike(n) : TRUE

(* collectPublicDisplayGroupNames: the groups of the user and every tag of *)
(* their active connects, in the order of the alphabet.                    *)
Displayed(members) ==
    LET tags == UNION {conn[c].tags : c \in UNION {ActiveIn(n) : n \in Range(members)}}
        shown == {Canonical(n) : n \in Range(members) \cup tags}
    IN InOrder({CHOOSE n \in shown : Key[n] = k : k \in {Key[n] : n \in shown}}, Key)

(* getOrderedPanelUserGroupNames                                           *)
PanelOrder(u) ==
    LET members == OrderedUnique(u.groups)
    IN OrderedUnique(members \o Displayed(members))

(* getOrderedNamesForPublicSubMeta                                         *)
MetaOrder(u) == OrderedUnique(IncludedOf(Effective(u)) \o PanelOrder(u))

Origin(g, setting) == IF setting \in rows[g] THEN g ELSE "global"

(* getSubscriptionMetaForPublicSub: of the first name that has a row, for  *)
(* what it does not set the global settings.                               *)
MetaFrom(u, setting) ==
    LET found == Those(MetaOrder(u), {n \in Names : RowsLike(n) # {}})
    IN IF found = << >> THEN "global" ELSE Origin(Canonical(found[1]), setting)

(* resolveSubscriptionDisplayNameForUserGroup *)
TitleOf(n) == IF RowsLike(n) # {} /\ "title" \in rows[Canonical(n)] THEN {Canonical(n)} ELSE {}

(* resolveSubscriptionProfileTitleForPanelUser: of the first group that is *)
(* included, else of the first group, else the name of the user.           *)
Title(u) ==
    LET included == IncludedOf(Effective(u))
        members == OrderedUnique(u.groups)
        first == IF included = << >> THEN {} ELSE TitleOf(included[1])
        other == IF members = << >> THEN {} ELSE TitleOf(members[1])
    IN IF first \cup other = {} THEN "user"
       ELSE CHOOSE n \in (IF first # {} THEN first ELSE other) : TRUE

(* buildSubscriptionGroupAnnounceSuffixAsync, with the counts.             *)
GroupLists(u) == [i \in DOMAIN Effective(u) |->
                [entry |-> Effective(u)[i],
                 count |-> Cardinality(ActiveIn(Effective(u)[i].name))]]

-----------------------------------------------------------------------------
(* Rows of connects.                                                       *)
NoJson == [kind |-> "none"]
JsonKey == [scheme |-> "json"]     \* the synthetic json:// key
OfBalancer == [scheme |-> "balancer"]

IsUri(raw) == raw.scheme \notin {"json", "balancer"}

AsOutbound(o) == IF o = NoOutbound THEN NoJson ELSE [kind |-> "outbound", out |-> o]

(* raw and rawJson of an entry: a URI of a BASE64 feed; of a JSON feed a   *)
(* URI, an object with a link in it, a config, or a bare outbound, which   *)
(* only the tag proxy makes known as one; or a balancer.                   *)
Proxy(s) ==
    CASE s.kind = "config" -> ExtractProxyOutbound(s.outs)
      [] s.kind = "bare" -> s.out
      [] OTHER -> NoOutbound

RawOf(s) ==
    CASE s.kind \in {"uri", "item", "link"} -> s.uri
      [] s.kind = "balancer" -> OfBalancer
      [] OTHER -> LET uri == IF Proxy(s) = NoOutbound THEN NoUri ELSE OutboundToUri(Proxy(s))
                  IN IF uri = NoUri THEN JsonKey ELSE uri

JsonOf(s) ==
    CASE s.kind = "uri" -> AsOutbound(UriToOutbound(s.uri))
      [] s.kind = "item" -> NoJson
      [] s.kind = "link" -> [kind |-> "object"]
      [] s.kind = "bare" -> IF s.tag = "proxy" THEN AsOutbound(s.out) ELSE [kind |-> "object"]
      [] OTHER -> s

Mode(s) == IF s.kind = "uri" THEN "BASE64" ELSE "JSON"

Created(s, tags) ==
    [active |-> TRUE, tags |-> tags, mode |-> Mode(s), raw |-> RawOf(s), json |-> JsonOf(s),
     mixed |-> FALSE]

(* Slip: a BASE64 synchronisation leaves rawJson as it is.                 *)
RenewedRawOnly(r, s) ==
    IF Mode(s) = "BASE64"
    THEN [r EXCEPT !.mode = "BASE64", !.raw = RawOf(s)]
    ELSE [r EXCEPT !.mode = "JSON", !.raw = RawOf(s), !.json = JsonOf(s),
                 !.mixed = FALSE]

(* What a synchronisation writes over a row it recognises: in BASE64 mode  *)
(* rawJson only with a new raw, or where there was none.  History: mixed   *)
(* while rawJson is one the operator wrote, or was kept when the mode of   *)
(* the subscription changed.                                               *)
Renewed(r, s) ==
    LET keeps == Mode(s) = "BASE64" /\ r.raw = RawOf(s) /\ r.json # NoJson
    IN [r EXCEPT !.mode = Mode(s), !.raw = RawOf(s),
                 !.json = IF keeps THEN @ ELSE JsonOf(s),
                 !.mixed = keeps /\ (@ \/ r.mode # Mode(s))]

(* outboundToHappConfig *)
HappConfig(o) ==
    <<[tag |-> "proxy", out |-> o],
      [tag |-> "direct", out |-> [protocol |-> "freedom"]],
      [tag |-> "block", out |-> [protocol |-> "blackhole"]]>>

(* processConnect: the outbounds in the item of a row in the JSON feed; an *)
(* object that is no config has none.  << >> when there is no item.        *)
Item(r) ==
    CASE r.json.kind = "outbound" -> <<HappConfig(r.json.out)>>
      [] r.json.kind = "config" -> <<r.json.outs>>
      [] r.json.kind = "object" -> <<<< >>>>
      [] r.json.kind = "array" -> << >>
      [] OTHER -> IF IsUri(r.raw) /\ UriToOutbound(r.raw) # NoOutbound
                  THEN <<HappConfig(UriToOutbound(r.raw))>> ELSE << >>

(* The line of a connect in the feed of that format, given the connects in *)
(* the groups of the user.  A balancer keeps its reachable members         *)
(* (filterBalancerForUser) and has no line in a BASE64 feed.               *)
Line(c, format, reach) ==
    LET r == conn[c] IN
    IF r.raw = OfBalancer
    THEN IF format = "json" /\ r.json.pool \cap reach # {} THEN <<[of |-> c, gives |-> << >>]>>
         ELSE << >>
    ELSE IF format = "base64" THEN <<[of |-> c, gives |-> <<r.raw>>]>>
    ELSE IF Item(r) = << >> THEN << >> ELSE <<[of |-> c, gives |-> Item(r)]>>

(* The lines of the connects in S, in the operator's order.                *)
Lines(S, format, reach) ==
    LET cs == InOrder({c \in S : Line(c, format, reach) # << >>}, Rank)
    IN [i \in DOMAIN cs |-> Line(cs[i], format, reach)[1]]

-----------------------------------------------------------------------------
Loaded(u) == [local |-> Effective(u), timer |-> FALSE, saving |-> FALSE, error |-> "none",
              members |-> u.groups]

Init ==
    \E s \in Scenarios :
        /\ user = s.user
        /\ rows = s.rows
        /\ conn = [c \in Conns |-> Created(s.source[c], s.tags[c])]
        /\ budget = s.budget
        /\ page = Loaded(s.user)
        /\ saves = << >>
        /\ call = NoCall
        /\ feed = NoFeed
        /\ steady = TRUE /\ settled = TRUE

Spend(what) == budget[what] > 0 /\ budget' = [budget EXCEPT ![what] = @ - 1]

-----------------------------------------------------------------------------
(* GET public/sub/:code.  The request that is refused gets the placeholder *)
(* feed, with the same title and meta (FeedAccess says when).              *)
FeedStart(format) ==
    /\ call.pc = "idle"
    /\ Spend("calls")
    /\ call' = [pc |-> "meta", format |-> format, user |-> user, todo |-> << >>,
                seen |-> {}, reach |-> {}, items |-> << >>, meta |-> << >>]
    /\ feed' = NoFeed
    /\ steady' = TRUE
    /\ UNCHANGED <<user, rows, conn, page, saves, settled>>

FeedMeta ==
    /\ call.pc = "meta"
    /\ LET u == call.user IN
       call' = [call EXCEPT
                   !.pc = IF @ = "meta" /\ call.format = "json" THEN "reach" ELSE "batch",
                   !.todo = IF call.format = "refused" THEN << >> ELSE IncludedOf(Effective(u)),
                   !.meta = [title |-> Title(u), announce |-> MetaFrom(u, "announce"),
                             interval |-> MetaFrom(u, "interval"), lists |-> GroupLists(u)]]
    /\ UNCHANGED <<user, rows, conn, page, saves, feed, budget, steady, settled>>

(* accessibleConnectIds: of all the groups of the user, included or not.   *)
FeedReach ==
    /\ call.pc = "reach"
    /\ call' = [call EXCEPT
                   !.pc = "batch",
                   !.reach = {c \in UNION {ActiveIn(n) : n \in Range(NamesOf(Effective(call.user)))} :
                                 conn[c].raw # OfBalancer}]
    /\ UNCHANGED <<user, rows, conn, page, saves, feed, budget, steady, settled>>

(* Slip: a connect in two groups is sent with either.                      *)
FeedBatchAgain ==
    /\ call.pc = "batch" /\ call.todo # << >>
    /\ LET batch == ActiveIn(Head(call.todo))
       IN call' = [call EXCEPT !.todo = Tail(@),
                               !.items = @ \o Lines(batch, call.format, call.reach)]
    /\ UNCHANGED <<user, rows, conn, page, saves, feed, budget, steady, settled>>

(* The loop of buildPublicFeedForPanelUser and buildJsonFeedForPanelUser.  *)
FeedBatch ==
    /\ call.pc = "batch" /\ call.todo # << >>
    /\ LET batch == ActiveIn(Head(call.todo)) \ call.seen
       IN call' = [call EXCEPT !.todo = Tail(@), !.seen = @ \cup batch,
                               !.items = @ \o Lines(batch, call.format, call.reach)]
    /\ UNCHANGED <<user, rows, conn, page, saves, feed, budget, steady, settled>>

FeedSend ==
    /\ call.pc = "batch" /\ call.todo = << >>
    /\ feed' = [format |-> call.format, meta |-> call.meta, items |-> call.items]
    /\ call' = NoCall
    /\ UNCHANGED <<user, rows, conn, page, saves, budget, steady, settled>>

-----------------------------------------------------------------------------
(* The page.  Nuxt keeps what it fetched in a shallow ref: that a save     *)
(* assigns data.value.subscriptionGroups does not run the watch, so the    *)
(* list is set by loading only.                                            *)
Edit(local) ==
    /\ Spend("edits")
    /\ local # page.local
    /\ page' = [page EXCEPT !.local = local, !.timer = TRUE]
    /\ UNCHANGED <<user, rows, conn, saves, call, feed, steady, settled>>

(* Slip: the dragged group stays where it was as well.                     *)
MovedCopied(i, j) == Edit(InsertAt(page.local, j, page.local[i]))

(* A group dragged from one place to another, a box ticked or cleared.     *)
Moved(i, j) == Edit(InsertAt(RemoveAt(page.local, i), j, page.local[i]))
Toggled(i) == Edit([page.local EXCEPT ![i].include = ~ @])

(* The timer of useDebounceFn: persistGroupPrefs.                          *)
Persist(x) ==
    /\ page.timer
    /\ IF page.local = << >>
       THEN page' = [page EXCEPT !.timer = FALSE] /\ UNCHANGED <<saves, settled>>
       ELSE /\ x \notin DOMAIN saves
            /\ saves' = [y \in DOMAIN saves \cup {x} |->
                  IF y = x THEN [pc |-> "sent", list |-> page.local, own |-> TRUE] ELSE saves[y]]
            /\ page' = [page EXCEPT !.timer = FALSE, !.saving = TRUE, !.error = "none"]
            /\ settled' = (settled /\ DOMAIN saves = {})
    /\ UNCHANGED <<user, rows, conn, call, feed, budget, steady>>

Finished(x, error) ==
    /\ saves' = Restrict(saves, DOMAIN saves \ {x})
    /\ page' = IF saves[x].own
               THEN [page EXCEPT !.saving = FALSE, !.error = IF error = "none" THEN @ ELSE error]
               ELSE page

(* The list is refused unless it names every group of the user once.       *)
Acceptable(list, u) ==
    LET members == OrderedUnique(u.groups) IN
    /\ members # << >>
    /\ Len(list) = Len(members)
    /\ \A i \in DOMAIN list : list[i].name \in Range(members)
    /\ IsFree(NamesOf(list))
    /\ Range(members) \subseteq Range(NamesOf(list))

(* savePublicSubscriptionGroupPrefs: reads and checks, ...                 *)
SaveCheck(x) ==
    /\ saves[x].pc = "sent"
    /\ IF Acceptable(saves[x].list, user)
       THEN saves' = [saves EXCEPT ![x].pc = "write"] /\ UNCHANGED page
       ELSE Finished(x, "refused")
    /\ UNCHANGED <<user, rows, conn, call, feed, budget, steady, settled>>

(* Slip: only the flags are stored.                                        *)
SaveWriteFlags(x) ==
    LET flag(n) == \E i \in DOMAIN saves[x].list :
                      saves[x].list[i].name = n /\ saves[x].list[i].include
        es == Effective(user)
    IN
    /\ saves[x].pc = "write"
    /\ user' = [user EXCEPT !.prefs =
                   [i \in DOMAIN es |-> [es[i] EXCEPT !.include = flag(es[i].name)]]]
    /\ saves' = [saves EXCEPT ![x].pc = "answer"]
    /\ steady' = FALSE
    /\ UNCHANGED <<rows, conn, page, call, feed, budget, settled>>

(* ... writes, ...                                                         *)
SaveWrite(x) ==
    /\ saves[x].pc = "write"
    /\ user' = [user EXCEPT !.prefs = saves[x].list]
    /\ saves' = [saves EXCEPT ![x].pc = "answer"]
    /\ steady' = FALSE
    /\ UNCHANGED <<rows, conn, page, call, feed, budget, settled>>

(* ... and answers.                                                        *)
SaveAnswer(x) ==
    /\ saves[x].pc = "answer"
    /\ Finished(x, "none")
    /\ UNCHANGED <<user, rows, conn, call, feed, budget, steady, settled>>

(* The request or its answer is lost.                                      *)
SaveLost(x) ==
    /\ saves[x].pc \in {"sent", "answer"}
    /\ Spend("losses")
    /\ Finished(x, "failed")
    /\ UNCHANGED <<user, rows, conn, call, feed, steady, settled>>

(* The page is loaded again (getPublicUserByCode); a save of the page      *)
(* before may still be on its way.                                         *)
Load ==
    /\ Spend("loads")
    /\ page' = Loaded(user)
    /\ saves' = [x \in DOMAIN saves |-> [saves[x] EXCEPT !.own = FALSE]]
    /\ settled' = (DOMAIN saves = {})
    /\ UNCHANGED <<user, rows, conn, call, feed, steady>>

-----------------------------------------------------------------------------
(* updatePanelUser *)
SetGroups(groups) ==
    /\ groups # user.groups
    /\ Spend("members")
    /\ user' = [user EXCEPT !.groups = groups]
    /\ steady' = FALSE /\ settled' = FALSE
    /\ UNCHANGED <<rows, conn, page, saves, call, feed>>

Change(c, r, what) ==
    /\ Spend(what)
    /\ r # conn[c]
    /\ conn' = [conn EXCEPT ![c] = r]
    /\ steady' = FALSE
    /\ UNCHANGED <<user, rows, page, saves, call, feed, settled>>

(* A connect is moved between groups (updateGroups), or switched           *)
(* (toggleStatus).                                                         *)
Retag(c, tags) == Change(c, [conn[c] EXCEPT !.tags = tags], "moves")
Toggle(c) == Change(c, [conn[c] EXCEPT !.active = ~ @], "moves")

(* A synchronisation finds the connect again.                              *)
Synchronise(c, s) ==
    /\ conn[c].raw # OfBalancer
    /\ Change(c, Renewed(conn[c], s), "entries")

(* updateRawJson: an object or an array, which the feed cannot use.        *)
UpdateRawJson(c, kind) ==
    /\ conn[c].raw # OfBalancer
    /\ conn[c].mode = "JSON"
    /\ Change(c, [conn[c] EXCEPT !.json = [kind |-> kind], !.mixed = TRUE], "entries")

-----------------------------------------------------------------------------
Next ==
    \/ \E f \in Formats : FeedStart(f)
    \/ FeedMeta \/ FeedReach \/ FeedBatch \/ FeedSend
    \/ \E i, j \in DOMAIN page.local : Moved(i, j)
    \/ \E i \in DOMAIN page.local : Toggled(i)
    \/ \E x \in Slots : Persist(x)
    \/ \E x \in DOMAIN saves : SaveCheck(x) \/ SaveWrite(x) \/ SaveAnswer(x) \/ SaveLost(x)
    \/ Load
    \/ \E g \in Memberships : SetGroups(g)
    \/ \E c \in Conns, tags \in SUBSET Names : Retag(c, tags)
    \/ \E c \in Conns : Toggle(c)
    \/ \E c \in Conns, s \in Sources : Synchronise(c, s)
    \/ \E c \in Conns, kind \in {"object", "array"} : UpdateRawJson(c, kind)

Spec == Init /\ [][Next]_vars

-----------------------------------------------------------------------------
Save == [pc: {"sent", "write", "answer"}, list: Seq(Entry), own: BOOLEAN]

TypeOK ==
    /\ user.groups \in Seq(Names) /\ user.prefs \in Seq(Entry)
    /\ DOMAIN rows \subseteq Names
    /\ DOMAIN conn = Conns
    /\ \A c \in Conns : conn[c].active \in BOOLEAN /\ conn[c].tags \subseteq Names
    /\ page.local \in Seq(Entry) /\ IsFree(NamesOf(page.local))
    /\ page.timer \in BOOLEAN /\ page.saving \in BOOLEAN
    /\ page.error \in {"none", "refused", "failed"}
    /\ saves \in [DOMAIN saves -> Save] /\ DOMAIN saves \subseteq Slots
    /\ call.pc \in {"idle", "meta", "reach", "batch"}
    /\ feed.format \in Formats \cup {"none"}
    /\ steady \in BOOLEAN /\ settled \in BOOLEAN

(* A feed during which nothing changed has every deliverable active        *)
(* connect of an included group once, those of the group the subscriber    *)
(* put first before the others and each group in the operator's order; a   *)
(* refused one has none.  Title, announcement and interval are those of    *)
(* the first included group that exists or, failing that, the global ones  *)
(* (buildPublicFeedForPanelUser, buildJsonFeedForPanelUser).               *)
FirstIn(c, ns) ==
    CHOOSE i \in DOMAIN ns : ns[i] \in conn[c].tags /\ \A j \in 1 .. i - 1 : ns[j] \notin conn[c].tags

ExactFeed ==
    LET es == Effective(user)
        ns == IncludedOf(es)
        reach == {c \in UNION {ActiveIn(e.name) : e \in Range(es)} : conn[c].raw # OfBalancer}
        due == IF feed.format = "refused" THEN {}
               ELSE {c \in Conns : /\ conn[c].active
                                   /\ conn[c].tags \cap Range(ns) # {}
                                   /\ Line(c, feed.format, reach) # << >>}
        of(i) == feed.items[i].of
    IN
    /\ {of(i) : i \in DOMAIN feed.items} = due
    /\ \A i, j \in DOMAIN feed.items : i < j =>
          \/ FirstIn(of(i), ns) < FirstIn(of(j), ns)
          \/ FirstIn(of(i), ns) = FirstIn(of(j), ns) /\ Rank[of(i)] < Rank[of(j)]
    /\ \A i \in DOMAIN ns :
          (ns[i] \in DOMAIN rows /\ \A j \in 1 .. i - 1 : RowsLike(ns[j]) = {}) =>
             /\ feed.meta.announce = Origin(ns[i], "announce")
             /\ feed.meta.interval = Origin(ns[i], "interval")

SteadyFeedExact == feed.format # "none" /\ steady => ExactFeed

(* The page at rest shows what the feed follows: with no save of its own   *)
(* or an earlier page overtaken, no other change of the user and no error  *)
(* on the screen, the list on the page is the choice in force.             *)
RestingPageTrue ==
    settled /\ ~ page.timer /\ DOMAIN saves = {} /\ page.error = "none"
        => page.local = Effective(user)

(* A save is refused only when the groups of the user have changed under   *)
(* the page: whatever choice is stored, of whatever earlier membership,    *)
(* the list the page gets can be sent back (getEffectiveSubscriptionGroup- *)
(* Entries and the checks of savePublicSubscriptionGroupPrefs agree).      *)
RefusedOnlyIfStale ==
    [][page'.error = "refused" /\ page.error # "refused" => user.groups # page.members]_vars

(* Of a URI of a known scheme that can be read, and whose authority ends   *)
(* where it should and whose host URL does not rewrite, comes an outbound  *)
(* that leads to the host, the port and, with TLS, the server name the URI *)
(* gives.                                                                  *)
Reads(u, o) ==
    /\ o # NoOutbound
    /\ o.address = u.host
    /\ u.port # NoPort => o.port = u.port
    /\ "sni" \in DOMAIN u.query /\ Stream(o, "security") = Plain("tls")
          => u.query["sni"] \in {Empty, Stream(o, "sni")}

Broken(u) ==
    \/ Unreadable(u) \/ Query(u, "peer") # Empty
    \/ u.scheme # "vmess" /\ (NameEnds(u) \/ HostEnds(u) \/ Bare(u.host, Escaped))

JsonLeadsWhereUriDoes ==
    \A c \in Conns :
        LET r == conn[c] IN
        ~ r.mixed /\ r.mode = "BASE64" /\ r.raw.scheme \in Schemes /\ ~ Broken(r.raw)
            => Item(r) # << >> /\ Reads(r.raw, ExtractProxyOutbound(Item(r)[1]))

(* Outbounds whose URI cannot be read back, but for vmess: with an address *)
(* that does not stand as it is for a host (IPv6 without brackets, a slash *)
(* or a blank, letters beyond ASCII), a port there is not, a path with a % *)
(* in it, bare or of an encoding, which is decoded twice, a vless id URL   *)
(* ends, parts or encodes, or a Shadowsocks password with which base64 is  *)
(* padded or has a slash.                                                  *)
Portable(o) ==
    \/ Protocol(o) = "vmess"
    \/ /\ ~ Bare(o.address, Hostless \cup Ending \cup Escaped) /\ o.port \in 0 .. MaxPort
       /\ IF Protocol(o) = "shadowsocks" THEN Cred(o, "password")[1] \notin Padded \cup Slashed
          ELSE Stream(o, "path")[2] = 0 /\ ~ Throws(Stream(o, "path"))
       /\ Protocol(o) = "vless" => ~ Bare(Cred(o, "id"), Ending \cup Parted \cup Escaped)

(* Outbounds that ask for nothing the URI of their protocol has no place   *)
(* for: keys of the credentials and the stream, and the values some of     *)
(* them must have.                                                         *)
IsText(t) == t = <<t[1], t[2]>> /\ t[2] \in Nat /\ (t[1] \in Special \/ t[2] = 0)
IsFilled(f) == \A k \in DOMAIN f : IsText(f[k]) /\ f[k] # Empty

CredPlaces ==
    [vless |-> {"id", "encryption", "flow"}, vmess |-> {"id", "alterId", "scy"},
     trojan |-> {"password"}, shadowsocks |-> {"method", "password"},
     hysteria |-> {"auth", "streamAuth", "up", "down"},
     hysteria2 |-> {"auth", "streamAuth", "version", "obfs", "obfsPassword"},
     tuic |-> {"uuid", "password", "congestion"}]

StreamPlaces(network, security) ==
    {"network", "security"}
        \cup (CASE HasPath(network) -> {"path", "host"}
                [] network = Plain("grpc") -> {"service"}
                [] network = Plain("tcp") -> {"header"}
                [] OTHER -> {})
        \cup (CASE security = Plain("tls") -> {"sni", "fp", "alpn"}
                [] security = Plain("reality") -> {"sni", "pbk", "fp", "sid", "spx"}
                [] OTHER -> {})

Expressible(o) ==
    LET p == Protocol(o)
        network == Or(Stream(o, "network"), Plain("tcp"))
        security == Stream(o, "security")
        places == StreamPlaces(network, security)
    IN
    /\ IsFilled(o.cred) /\ IsFilled(o.stream)
    /\ DOMAIN o.cred \subseteq CredPlaces[p]
    /\ {"auth", "streamAuth"} \subseteq DOMAIN o.cred => o.cred.auth = o.cred.streamAuth
    /\ p = "hysteria2" => Cred(o, "version") \in {Empty, Plain("2")}
    /\ p \in {"vless", "trojan"} =>
          DOMAIN o.stream \subseteq places /\ Stream(o, "header") # Plain("none")
    /\ p = "vmess" =>
          /\ DOMAIN o.stream \subseteq places \ {"header"}
          /\ HasPath(network) => \E n \in {"ws", "h2", "http"} : network = Plain(n)
          /\ security \in {Empty, Plain("none"), Plain("tls")}
    /\ p \in {"hysteria", "hysteria2", "tuic"} =>
          /\ DOMAIN o.stream \subseteq {"network", "security", "sni", "alpn"}
          /\ Stream(o, "network") \in {Empty, Plain(IF p = "tuic" THEN "quic" ELSE "hysteria")}
          /\ security \in {Empty, Plain("tls")}
          /\ p = "tuic" \/ Stream(o, "alpn") \in {Empty, Plain("h3")}

(* Shadowsocks links carry no stream settings.                             *)
Carried(o) == IF Protocol(o) = "shadowsocks" THEN {} ELSE DOMAIN o.stream

(* The other way, of a config that has a URI, the URI names the server and *)
(* everything the config gives, and the credentials above all: a client of *)
(* the BASE64 feed reaches what a client of the JSON feed does             *)
(* (outboundToUri, extractProxyOutbound).                                  *)
UriLeadsWhereJsonDoes ==
    \A c \in Conns :
        LET r == conn[c]
            o == ExtractProxyOutbound(Item(r)[1])
            back == UriToOutbound(r.raw)
        IN (~ r.mixed /\ r.mode = "JSON" /\ r.json.kind \in {"config", "outbound"}
            /\ r.raw # JsonKey) =>
              (Expressible(o) /\ Portable(o) =>
                  /\ back # NoOutbound
                  /\ Protocol(back) = Protocol(o) /\ back.address = o.address
                  /\ o.port # NoPort => back.port = o.port
                  /\ \A k \in DOMAIN o.cred : Cred(back, k) = o.cred[k]
                  /\ \A k \in Carried(o) : Stream(back, k) = o.stream[k])
=============================================================================
