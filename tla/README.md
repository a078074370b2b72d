# Subscribe Panel in TLA+

A verification project kept beside the code of the Subscribe Panel: a NestJS back end
(`src/backend`), MongoDB through Prisma, BullMQ queues over Redis, and a Nuxt front end
(`src/frontend`). Source paths below are relative to `src/backend/src/` unless they start
with `src/`. `SS` is `subscriptions/subscriptions.service.ts`, `BS`
`balancers/balancers.service.ts`, `CS` `connects/connects.service.ts`, `MS`
`management/management.service.ts`, `MC` `management/management.controller.ts`, `UT`
`subscriptions/uri-to-outbound.util.ts`; `board` is `src/frontend/app/pages/connects.vue`.

## 1. The system

An operator registers **subscriptions** (URLs of remote feeds). The panel fetches each of
them again and again and keeps one **connect** (a row with the URI or JSON of a proxy node)
per node a feed lists. Connects carry tags, the names of **groups**. **Panel users** belong to
groups, by name as well. A public address, one per user, serves the user the connects of his
groups. **Balancers** pool connects; each appears among the connects through a row of its own
whose JSON holds copies of the pool's outbounds.

Four things make the code hard to get right, and they return in every module:

* **No transactions, no locks.** Every handler is a sequence of awaited database calls. Between
  two of them any other request, queue job or timer may run, and the process may stop.
* **References by value.** Groups are referred to by name from connects and users, connects by
  id from the pools of balancers, and outbounds are copied. There are no foreign keys between
  these; each service keeps its copies in step by hand.
* **No mutual exclusion of jobs.** The queue worker has concurrency 4, repeated jobs carry no
  `jobId`, and `POST /subscriptions/:id/fetch` calls the same routine.
* **Copies in the browser.** Two pages build what they show from a copy, change it before the
  server knows, and send whole lists back; nothing orders the answers of requests under way.

### Inventory

| Component | State | Operations | What is hard | What makes it correct |
|---|---|---|---|---|
| Subscription synchronisation (SS) | Subscription, Connect rows | `fetchConnects`, `fetchConnectsFromJson`, `create`, `update`, `remove` | overlapping runs for one subscription, each with its own snapshot; stop half-way; feed empty or changing | rows mirror the list; nobody else's row is deleted; the next run repairs |
| Connect identity (`subscriptions/connect-identity.util.ts`) | none (pure) | full identity, stable core, dedupe key | which spellings of a URI are the same node | respelling keeps the key; different endpoints have different keys |
| URI conversion (UT) | none (pure) | URI to outbound and back, for every scheme | layers of percent-encoding, defaults on either side, fields one form has and the other not | both forms of one row lead to the same server with the same credentials |
| Connects (CS) and the board of connects (`src/frontend/app/pages/connects.vue`) | Connect rows; in the browser a copy, columns of ids, a selection, sort modes | `toggleStatus`, `updateName`, `updateRawJson`, `remove`, `reorder`, legacy backfill; drags of one card or many, sort modes, bulk tags | lists written back whole; a gesture is several requests and a reload, and gestures overlap | what an undisturbed gesture shows is stored and shown in the end; own changes are read back; pools lose a connect before its row goes |
| Balancers (BS; `filterBalancerForUser` in MS) | Balancer rows, copies in the balancer's connect | `create`, `update`, `remove`, `removeConnectFromAllBalancers` | read-modify-write of pools, copy written by a later call | pools never empty, copy in step, a user gets only what he has access to |
| Fetch queue (`subscription-fetch/`), expiry warning (SS) | BullMQ jobs, `lastFetchedAt`, `telegramExpiryWarningSentForExpiresAt` | 60 s tick, enqueue due, process with 5 attempts, warn of a near end | both columns are written at the end of a fetch, jobs pile up, stale marks are written back | every due subscription is fetched, every near end is warned of, a mark tells the truth |
| Groups and users (MS) | Group, Connect.groupNames, PanelUser.groupNames, `subscriptionGroupPrefs` | create, rename, flag, delete groups; tag connects; create, edit, bulk-edit users; save choices | renaming rewrites copies one by one; check-then-act over an HTTP call | no user without a group, no trace of an old name, choices follow a rename |
| Addresses of users (MS, MC) | PanelUser code, `subscriptionAccessToken`, `happCryptoUrl`, `cryptoOnlySubscription` | draw the token, make the link, change the code, check `t=` | check-then-set of the token; the link is made by an HTTP call between read and write | a link opens its owner's feed and no other; stored links are current |
| Public feed and access log (MC, MS) | PanelUser switches, PanelUserAccessLog | `GET public/sub/:code`, edits of switches, deletion of log rows | limit counted before the row is written; the feed is read group by group | limit of devices, one announcement per device; every connect of an included group once, in the subscriber's order |
| Subscriber's page (`src/frontend/app/pages/[subSegment]/[code].vue`, MS) | a copy of the list of groups; `subscriptionGroupPrefs` | reorder, include or leave out, save half a second later, reload | saves overtake one another and the operator | the page at rest shows the choice in force; what the page got can be sent back |
| Access notifications and Telegram (`subscription-access-notify/`, `telegram/`) | queue jobs | send with 3 attempts | failures are swallowed | one message per announcement, chunks in order |
| Authentication (`auth/`) | one administrator | login, seed | none of ours | (not modelled) |
| Infrastructure (`prisma/`, `redis/`, `main.ts`) | connections | start-up | none of ours | (not modelled) |
| Other pages (`src/frontend`) | the form being filled | one request per form, forwarding of feed requests | none of ours | (not modelled) |

How they interact: the fetch queue calls `fetchConnects`; `fetchConnects`, `SS.remove` and
`CS.remove` call `removeConnectFromAllBalancers`; the feed reads users, groups' names, connects
and the copies in balancers, writes the access log and adds a job to the notification queue,
whose worker calls Telegram. Everything else is shared state in MongoDB.

The hazards of the code, each at its line with the properties that watch it, are listed under
`hazards` in `PROJECT.json`.

## 2. Modules

| Module | What it is |
|---|---|
| `ConnectSync` | synchronisation and deletion of connects, with the pools of balancers |
| `Membership` | abstract: groups with identities, users who belong to groups |
| `Groups` | the same with names copied about, call by call; implements `Membership` |
| `FeedAccess` | who gets the feed, the limit of devices, announcements |
| `Balancers` | pools, the copies of outbounds, and what a JSON feed makes of them |
| `ConnectIdentity` | the keys by which a node is found again, and a provider who respells, renews and moves it |
| `AccessLink` | code, token and path of a user's address, and the link made of it |
| `FetchCycle` | the tick, the queue and its attempts, and the warning that a subscription ends soon |
| `Lists` | sorting, selecting and joining lists without recursion: an order is told by what goes before each element, what is left of a list by the places that are kept |
| `ConnectBoard` | the page of connects, its gestures and the handlers they call |
| `Outbound` | the conversions between URIs and outbounds, as functions |
| `PublicFeed` | on top of it: rows in both forms, the feed made of them, and the subscriber's page |
| `MC...` | instances for TLC |
| `..._proofs` | theorems and their proofs, those of `ConnectIdentity` in `ConnectSync_proofs`, those of `Outbound` and `Lists` in `PublicFeed_proofs`, which `ConnectBoard_proofs` extends |

All modules share one shape. A request in progress is a record of its local variables in a
function from **slots** (as many requests as may run at once) to records; `pc` names the next
awaited call; a step performs one call and the computation up to the next one. A request that
returns or throws leaves the function. A request that stops half-way (a rejected call, the end
of the process) is the action `Throw` or `Fail`: the locals are gone, what was written stays.
There is no restart action because nothing is kept in memory between requests: a restart is
all requests in progress throwing. **History variables** (`serial`, `solo`, `crashed`, `peak`,
`free`) record whether requests have overlapped, so that properties that are only true of
requests that run alone can be stated, next to those true always.

### ConnectSync

State: `subs`, `conn` (id to row: subscription, raw, identityKey, sortOrder, has rawJson),
`nextId` (ObjectIds grow and are never reused), `bal` (balancer to pool), `remote` (what each
feed serves now), `runs` (invocations). Actions follow the awaits of `fetchConnects` (SS 132-422)
and `fetchConnectsFromJson` (SS 430-731): `BeginSync`, `Receive` (the answer; deduplication, and
the return on an empty list), `ReadExisting`, `ReadMaxSortOrder`, `CreateRow`/`UpdateRow` for
each incoming entry, `SelectStale`, `FindAffected`/`Detach` for each stale row and balancer,
`DeleteRows`, `Finish`. `SS.remove` and `CS.remove` are two more kinds of invocation that share
`FindAffected`, `Detach` and `DeleteRows`. Entries of a feed are model values with an
`Identity`, a `Stable` core (or `NoCore`) and the property of being convertible; the keys
themselves are in `ConnectIdentity`.

Simplifications: entries of one list are processed in any order (the code's order is one of
them; the order of names is visible only in `sortOrder`); creating or editing a balancer is one
step here and several in `Balancers`; fields only the operator writes (name, groups, tags,
status) live and die with the row and are left out; the message about changed connects at the end of
a run is left out; the expiry warning is in `FetchCycle`.

### ConnectIdentity

The keys of `subscriptions/connect-identity.util.ts` as functions of a URI: `FullKey`
(`normalizedConnectIdentity`: all that says something, in one spelling), `CoreKey`
(`stableMatchIdentity`: without credentials and, for vless, without what providers rotate),
`IncomingKey` (`subscriptionIncomingDedupeKey`), and `Recognises`, the test of
`fetchConnects`. In `ConnectSync` the first two are the constants `Identity` and `Stable`;
they have names of their own here so that one module of proofs extends both. A URI is a
record of its parts; parameters are a sequence. Of a text the model keeps its word, whether
it is written in capitals and how many times it is percent-encoded. `Texts` are the words
with characters outside `[A-Za-z0-9._~-]`, whose case the code keeps; a word stands for its
own case there.

Around the functions stands the life of one row: a provider who respells (`Respell`), renews
credentials (`Renew`) or moves the node to another address or other settings (`Move`), and the
synchronisation that looks for the row (`Fetch`). `NodeOf` and `CredentialsOf` say what a client
connects to and as whom; the keys are held against them, so the properties are not about the
keys' own definition.

A port may be missing from any URI. Clients of vless, trojan and hysteria2 then use 443
(`PortOptional`, `NodeOf`), and a provider may write it out or leave it out (`RespellPort`). The
full key takes a missing port for 443 for vless and trojan, the core for vless only: `SamePort`
says when a respelling does not touch this; `ListedOnce` says that there are two entries exactly
when it does, `RowPerNode` in which of these cases a new row may be made.

`FirstUrisAssumption` confines the URIs a feed starts with in one respect: where the code keeps
case, a word is written in one case, which is part of the word (`Cased`; user names in capitals
are UUIDs).

Simplifications: fragments, which every key cuts
off first, parameters given twice, bodies of vmess and texts `URL` cannot parse are left out;
of keys treated alike one stands for all (`pbk` for `flow`, `alpn`, `mode` and others).

### Groups and Membership

State: `group` (id to name and main flag), `tags` (connect to names), `user` (names and saved
choices), `ops`. One action per database call of `createGroup`, `updateGroupSettings` with
`renameGroupTagEverywhere` and `syncSubscriptionPrefsAfterGroupRename`, `deleteGroup`,
`setConnectGroups`, `createUser`, `updatePanelUser` (group change), the group modes of
`bulkUpdatePanelUsers`, `savePublicSubscriptionGroupPrefs`, `deleteUser`.

`Membership` says what the handlers amount to: groups have identities, users are members of
groups and choose which to include; a rename changes a name and nothing else. `Groups`
implements it (`ImplementsMembership`, checked and proved) for requests that do not overlap, with names mapped back
to ids; the name a rename is going to give stands for the group from the check of its being free
until the group is written.

Simplifications: the order of names in lists and of groups, display settings and announcements
of groups, and the backfills at start are left out; connects are fixed (they come and go in
`ConnectSync`).

### FeedAccess

State: the switches and limit of one panel user, the access log, the requests. `Arrive` reads
the user and decides on the refusals (MC 429-573); `Count` is `isUniqueHwidLimitExceeded`;
`WriteLog`, `LookForPrior` and `Announce` are `logPanelUserSubscriptionAccess`. `UpdateUser`
covers single and bulk edits of the switches, `DeleteLogs` both deletions. One user is enough:
requests of different users share nothing. The token `t=`, the contents of the feed and the
deletion of the user are left out (the token is in `AccessLink`).

### AccessLink

State: `user` (live users: code, token, whether only the crypto page serves them, link),
`unborn` (ids not used yet), `drawn` (token to the user it was drawn for, a history), `held`
(a link copied to a device, with its owner), `reqs`. An address is its data: code, token, path;
the happ:// link is the address it was made of, since the outside service only encrypts it.
`BeginCreate`, `BeginLink`, `BeginEdit` and `BeginFeed` start `createUser`,
`createHappCryptoUrlForPanelUser`, `updatePanelUser` (code and `cryptoOnlySubscription`) and
`getPublicSubscription`; they share `ReadToken` and `SetToken` (`ensureSubscriptionAccessToken`)
and `FetchLink` (`fetchHappCryptoLink`). A write that would give two users one code throws, by
the unique index. `SetCryptoOnly` is the bulk change, `Copy` the public page that shows a link.

Simplifications: the token is drawn in the step that finds none; the look-up of groups in
`createUser` and other fields are in `Groups` and `FeedAccess`; one copied link is followed, made
at any time (each is checked by itself); the front end adds `via=crypto-page` to requests on the
secret path, so the path stands for it.

### Balancers

State: `conn` (ordinary connects: version of the outbound, active, groups), `pool`
(`Balancer.connectIds`), `entry` (the balancer's own connect: active, groups, and `cfg`, its
rawJson), `ops`. `cfg` is `[ids, outs]`: `balancerConnectIds` and the proxy outbounds, both in
the order of `_id` in which the rows were read. `Build` is `buildSelectorOutbound`: every id is
listed, an outbound only for a row that can be converted. `Kept` is `filterBalancerForUser`: the
outbound at place k is taken for that of the k-th id. The feed reads the accessible ids group by
group (`Access`) and then the balancers group by group (`Batch`).

Simplifications: names, tags of outbounds (their places stand for them) and the fixed part of
the config; the read and the write of `toggleStatus` are one step (either status may be the
result of a race, and both are reachable); `findMany` with a list of ids is taken to return rows
in the order of `_id`, the order of the index MongoDB uses.

### FetchCycle

State: `subs` (live subscription to [auto, due, marker]: whether it has an interval, whether the
interval has passed, the end the last warning was sent for), `feed` (the end each feed reports),
`now`, `chat` (Telegram is configured), the queue (`waiting` in order, `delayed` jobs by attempts
made, `failed`), and `runs`: the worker's slots and requests. `TickComes`, `BeginTick`,
`Enqueue`/`EnqueueFails`, `TickDone` are the scheduler and `enqueueDueSubscriptions`; `Take`,
`Retried`, `Promote`, `Stop` are BullMQ, external; `BeginFetch`, `Receive`, `Check`,
`Send`/`SendFails`/`AnswerLost`, `Write`, `Report`, `Fail` are `fetchConnects` as far as
`lastFetchedAt` and the mark go: the subscription is read in the first and written in `Write`.

Simplifications: instants are numbers; the interval is abstracted to the flag `due`, which
`Write` clears and `DueAgain` sets whenever it likes; the rows are in `ConnectSync`; the message
about changed connects comes after the write and changes nothing; subscriptions are not created
while the model runs; local variables are reset once the code no longer reads them.

### ConnectBoard

State: `row` (connects as stored), `group` (main flag, order, age), `board` (what a browser holds:
copies of both, columns of ids, sort modes, selection, filter), `flow` (gestures being carried
out), and the history `want`: what the last gesture asked for, as long as nothing disturbs it.
The functions first, in the page's terms: `Keys` (the columns), `Arranged` and `Rebuild` (what
the watcher makes of the copies), `Dropped` and `Merged` (what a drag leaves in the columns),
`TagsFor`, `AllIds` (the order sent to the server). Then one action per gesture: `Select`,
`SetFilter`, `Drag`, `SortPick`, `Shuffle`, `Bulk`, `ChangeCard` (status, name, JSON, deletion),
`Refresh`, `Open`. A gesture puts requests on the wire; the server takes them in any order
(`SetConnectGroups`, `ReadStatus`, `WriteField`, `RemoveConnect`, `WriteOrder` id by id,
`AnswerLoad`), and the page goes on with `Patched`, `PatchFailed` and `ApplyLoad`. Meanwhile a
synchronisation adds or deletes a row and the groups page changes main groups or the order of
groups (`WriteGroupOrder`, one update per group).

Simplifications: a drag is one step, from the copy the cards were drawn from; groups are not
renamed (see `Groups`); the groups a page holds arrive with `Open`; `PATCH :id/hide` and `POST
:id/tags`, which no page calls, are left out; names and titles are ranks.

### Outbound and PublicFeed

`Outbound` has no state: `UriToOutbound` with one operator per scheme, `OutboundToUri` likewise,
`ExtractProxyOutbound`. A URI is a record of its parts, its query a function; an outbound has a
protocol, an address, a port, `cred` (who) and `stream` (how). A text is a word and the number
of percent-encodings laid over it, so that an encoding too many or too few shows; words on which
`decodeURIComponent` throws, and passwords whose base64 is padded or has a slash, are constants.
So are the words `new URL` does not leave as they are: those that end the authority (`Ending`),
contain a colon (`Parted`), are percent-encoded (`Escaped`), or cannot be a host (`Hostless`, an
IPv6 address without brackets among them). Address and vless id are written bare (`Link`,
`VlessToUri`); `Rejected` says which URIs `URL` refuses, `AsRead` what it makes of the others, and
the parsers get `AsRead`.

`PublicFeed` puts the functions to use. `Created` and `Renewed` say what a synchronisation writes
into `raw` and `rawJson` for each kind of entry (a URI, a string, link object, config or bare
outbound of a JSON feed), `UpdateRawJson` what the operator may write. `FeedStart`, `FeedMeta`,
`FeedReach`, `FeedBatch`, `FeedSend` are `getPublicSubscription` query by query: the user is
read once, then titles and announcements, then the connects of one group after another, while
`Retag`, `Toggle`, `Synchronise` and `SetGroups` change what is still to be read. The page has
the list of groups on the screen (`page.local`), a debounce timer and saves in progress:
`Moved`, `Toggled`, `Persist`, `SaveCheck`, `SaveWrite`, `SaveAnswer`, `SaveLost`, `Load`.
Names of groups are compared without case where the code does so (`Key`, `OrderedUnique`,
`Canonical`) and with case where it does not. `steady` and `settled` are histories: nothing the
call reads has changed; no two saves and no other change of the user have been under way.

Simplifications: wording of titles and announcements, of which only the source is kept; upper
case and names of nodes; that a `?` or `#` in a host or a user name takes the parameters with it,
and that an `@` in an address moves the end of the user name; a save that refuses is one step with its read; the page's list
comes from loading only (in the Nuxt version that `src/frontend/package-lock.json` fixes, `data`
is a shallow ref and an assignment to a field of it runs no watcher).

## 3. Runs

| Run | Instance | Question |
|---|---|---|
| `sync_overlap` | 2 slots, 2 subscriptions (one per feed mode), 3 entries, budget 2 | what stays true when runs interleave; does a run leave exactly the list, after any history of half-finished ones; is nothing dangling between the steps of runs that take turns |
| `sync_converge` | 2 slots, one node in two versions, JSON feed, budget 2, fairness | is every mess repaired in the end |
| `groups_overlap` | 2 slots, 2 groups, 1 user, 1 connect, crashes, every request but saves of choices (they are in `groups_membership`) | reserved tag; users keep a group; a rename repairs an earlier one that stopped |
| `groups_membership` | 1 slot, 3 groups, 1 user, 1 connect, every request | the refinement; main groups |
| `board` | 1 page, 3 connects, 3 groups, 2 gestures at a time, 1 change from outside | does a gesture do what it shows; does the page read its own changes |
| `feed_overlap` | 2 slots, 3 devices, 3 log rows, failures | limit and announcements |
| `feed_page` | 3 groups (two alike but for case), 2 connects and a balancer, 2 saves at a time | what is in the feed, when the page shows what the feed follows, do both forms of a row lead to one server |
| `access_overlap` | 2 slots, 2 users (one without a token), 2 codes, 2 tokens, failures | whose feed does a link open, and is the stored one current |
| `identity_drift` | seven URIs of four schemes, with and without a port, three changes | does the row stay with its node, and only with it |
| `balancers_feed` | 2 slots (one may build a feed), 2 connects, 1 balancer, one edit, crashes | what reaches a user |
| `fetch_cycle` | 1 worker slot, 1 request, 1 subscription, 2 ends, 2 attempts, budget 2, fairness | are due subscriptions fetched and near ends warned of, and is the mark right |
| `balancers_opaque` (violation) | 1 slot, 3 connects, one of them not convertible | what a gap in the outbounds does |

### Bounds, and why they are enough

* **Two slots.** All hazards listed are between two requests: one that read and one that wrote.
  A third adds combinations of the same pairs.
* **Entries of a feed.** `a1`, `a2` are two versions of a node with a stable core (matched by
  the core after its UUID changed), `b` a node without one (matched by full identity only). The
  lists contain an empty answer, a renewed node, a node that comes and goes and a list that
  names a node twice (`MCLists`, `MCOneNode`).
* **`Budget`** bounds the environment: feed changes, faults, operators' writes. Two are enough
  for a fault in the middle of a repair of an earlier fault.
* **`OverlapInOne`** (a state constraint of `sync_overlap`) lets invocations overlap only while
  the second subscription has served nothing, and bounds new ids: four rows may be made with
  overlap, five without. Two subscriptions that both have rows take turns; what they share
  (balancers, `sortOrder`) is then seen by whole invocations, which may stop anywhere. States
  just outside are still checked, their successors are not. `sync_converge` has no constraint.
* **`Apart`** (a state constraint of `groups_overlap`) explores tags of connects while there is
  no user and membership while the connect has no tag: no request touches both a user and a
  connect except renaming and deletion of a group, which treat them one after the other.
  `groups_membership` has both at once.
* **`board`**: two gestures and one change from outside, of every kind, in every interleaving of
  their requests; columns of up to three cards, so that a drag of two has a third to pass; one
  row stored before the fields existed; the filter may hide a card.
* **`feed_page`** has three kinds of beginning (`MCScenarios`), each with a budget for what it is
  about: three edits, one reload, one loss and one change of membership on the page; one call
  during which one connect moves, for every membership, choice and table of groups; and two
  entries or edits of one row, over some fifty entries in all forms, followed by a feed; among
  them an IPv6 address, a host and an id with a blank and with a slash, and a port out of range, in
  URIs and in configurations. The
  first does not call the feed and the last does not touch the user: they share no state but
  what is constant there.
* **`fetch_cycle`**: one worker slot and one request give the overlap of two fetches; a second
  worker slot adds nothing the pair has not. `Ends` {1, 2} with `Warn` 2 and `Horizon` 1 give an
  end that is near from the start, one that becomes near, one that passes, and moves between
  them; `MaxJobs` 1 lets a tick come only when the queue is short (jobs still pile up to three:
  tick, job, repeated job). Budget 2 allows a fault and a change, or two faults.
* **`identity_drift`**: three changes between, before and after fetches are enough for a
  respelling, a renewal and a move to meet, or for a parameter to be added, renamed and encoded
  (four changes, 3 million states, were checked once and hold too). Every part of a URI and every
  class of parameter (boolean, caseless, text, idle, secret, in the core or not) occurs.
* **`access_overlap`**: two users and two codes let a code be given up and taken by the other
  user; two tokens are enough for two draws for one user, or one for each. When they are used up
  requests that need another cannot go on (they can still throw); no property is about that.
* **`MaxFeeds`**: feeds write nothing, so two at once cannot disturb one another.
* **`LogIds`** bounds the log at three rows, limits are 0 and 1 (0 means unlimited): with three
  devices and two slots the limit can be exceeded by more than the property allows.
* **Symmetry** is used over slots, devices, log ids, versions of outbounds, codes and tokens, none of which the
  modules order or name; never together with liveness.
* **`CHECK_DEADLOCK FALSE`** is set where the bounds stop the system: in `ConnectSync` after
  all subscriptions are removed and the budget is spent, in `FeedAccess` when requests could go
  on only with a new log id, in `AccessLink` when all users are deleted and no id is left, in
  `ConnectBoard` and `PublicFeed` when the gestures or the budget of the scenario are used up and
  nothing is under way. The runs of the other modules check for deadlock.

### Fairness

Two runs need any (`FairSpec`). `sync_converge` assumes weak fairness of the steps of each slot,
which the event loop gives (an awaited call ends, with an answer or an error), and of starting a
synchronisation of each subscription, which the scheduler's 60 s tick gives for subscriptions
that have an interval; `Converges` is about these, or about one an operator keeps fetching. Faults and feed
changes are bounded by `Budget`: convergence is claimed once they stop.

`fetch_cycle` assumes weak fairness of the repeated tick, of promoting each delayed job, of the
worker taking a job (Redis and BullMQ at work), of the steps of each slot, and of intervals
passing again. Nothing is assumed of the clock, of feeds or of the operator.

### Properties

Always true, however requests interleave and fail: `OnlyOwnRowsDeleted`,
`StaleIsUnlistedOrDuplicate` (sync); `AnnouncedOnce`, `LimitKept` (the limit of devices is
exceeded by no more than the requests that run at once, and by none as long as nothing has
overlapped); `OwnFeedOnly` (addresses); `WholePoolFiltered` (balancers); `MarkTruthful`
(warnings); `ListedOnce` (a node, however respelled and renewed, is one entry of a list, and so
are two spellings with one full key, if and only if the port is written in both or in neither, or
it is vless),
`RowPerNode` (a fetch finds the row of the same node again, unless the port of a hysteria2 URI, or
of a trojan URI with new credentials, was written out or left out; and never the row of another
node); `JsonLeadsWhereUriDoes`, `UriLeadsWhereJsonDoes`
(the two forms of a row); `RefusedOnlyIfStale` (the page's list); `ShowsOwnChanges` (the board,
unless loads overlapped or a request failed). `TypeOK` of three modules says more than types:
`PoolNeverEmpty` (no stored pool is empty), `UngroupedAlone` and `UserHasGroup` (the reserved
name stands alone, every user has a group), `OneItemEach` (a feed in progress has no balancer
twice).

True of a request nothing overlaps with, whatever happened before: `SoloSyncMirrors`,
`RenameLeavesNoTrace`, `NoSecondMainByTags`, `SoloFeedExact`, `SoloRebuild`, `SoloRelinks`,
`SoloSticks` (a gesture), `SteadyFeedExact` (a feed), `RestingPageTrue` (a page and its saves).

True as long as nothing has overlapped: `SerialIntegrity`, `ImplementsMembership`,
`SerialHeralded`, `SerialInStep`, `SerialWarnedOnce`, `SerialLinkCurrent`.

True in the end: `Converges` (a feed that stays is mirrored), `Refreshed` (a due subscription is
fetched, whatever job failed before, and jobs of a deleted subscription leave the queue),
`SoonWarned` (a near end is warned of unless clock, feed or operator move on first).

Every property of a passing run has a mutant, a slip in the code's manner defined next to the
definition it replaces (comments `Slip:`), under which TLC finds the property violated.

## 4. Disagreements found

Shown by a violation run:

* `balancers_opaque`: MS 1881 says connects of groups not assigned to the user do not get into a
  balancer. Positions of outbounds and ids differ once a connect of the pool could not be
  converted.

Met while reading, without a run of their own:

* An empty pool is said to delete its balancer (BS 157). Two overlapping removals each write
  back the pool they read; ids of deleted connects return, and the balancer is left with a pool
  of connects none of which exists. It holds for removals that do not overlap
  (`SerialIntegrity`).
* `nextSortOrder` is said to make positions unique over all subscriptions (SS 282-285); it does
  for runs that do not overlap (`SerialIntegrity`).
* A first access of a device is said to queue a notification (MC 417). Two overlapping first
  requests of a device each count the other's row as a prior one, and none is queued;
  `SerialHeralded` holds for requests that do not overlap.
* An empty list of groups is stored as the reserved group
  (`common/ungrouped-connect-group.ts` 11), but `deleteGroup` pulls the last tag out (MS 963) and
  leaves the empty list until the next start of the process.
* The expiry warning is said to be sent once per end (SS 1175, `subscriptions.controller.ts` 55).
  `SerialWarnedOnce` names what that takes: no overlapping fetches, no failure between sending
  and marking, and a feed that does not move back to an end warned of before.
* At most one main group per connect (`src/backend/prisma/schema.prisma` 104) is checked where
  tags change; `createGroup` and `updateGroupSettings` set the flag without looking at connects.
* Groups of a new user must exist (`management/dto/create-group.dto.ts` 19); a group deleted
  during the HTTP call of `createUser` leaves a user with a name nothing has.
* The limit of devices (`src/backend/prisma/schema.prisma` 133) can be exceeded by overlapping
  first requests, by no more than their number (`LimitKept`).
* For a user marked `cryptoOnlySubscription` the link is said to be registered for the alternative
  address (`src/backend/prisma/schema.prisma` 139). Setting the mark without changing the code (MS 1326,
  1498) keeps the link made for `/sub`, which from then on gets a placeholder;
  `SerialLinkCurrent` therefore speaks of code and token only.
* The link is said to be reset when the token is first drawn, so that it is made again with it
  (MS 1008). Two overlapping first uses draw two tokens, and the request whose token is lost may
  store its link last: it is refused, and as a stored link it is returned until the code changes.
* Without the right token a feed is said to be refused (`src/backend/prisma/schema.prisma` 137);
  a request without `t=` is served (MC 454).
* `balancerConnectIds` is said not to be sent to clients (BS 315); the feed returns it
  (MS 1943, 2007).
* An implicit port 443 and `:443` are said to give one key for vless, vmess and trojan
  (`connect-identity.util.ts` 8). They do in the full identity; the stable key of a trojan URI
  (499), which also removes duplicates from a list, keeps them apart, so that a list with both
  spellings has two entries for one row. A hysteria2 URI keeps them apart in either key and gets a
  new row. `ListedOnce` says so: keys agree if and only if the port is spelled alike
  (`identity_drift` has URIs of each kind with and without a port).
* For schemes other than vless the key against duplicates is said to be the full identity
  (`connect-identity.util.spec.ts` 171, with a trojan URI); trojan and hysteria2 URIs have a stable
  key (488), which is used instead (546), and URIs of two users of one server are one entry.
* `ss` is named among the protocols with a stable key (`connect-identity.util.ts` 480); the code
  gives it none (488).
* The case of a base64 body is said to be kept when `URL` does not parse it
  (`connect-identity.util.ts` 18); when `URL` does, the body is a host and is lower-cased (67).

About the two forms of a row (`Broken`, `Portable`, `Expressible` and `Carried` in `PublicFeed`
name the cases the properties leave out):

* The base64 part of an `ss://` link comes from `URL`, which writes `=` as `%3D`;
  `Buffer.from` decodes the digits too, and the password read differs from the one meant
  (UT 290-296). A slash in the base64 ends the authority, and host and port are lost.
* A path with a bare `%` makes `uriToOutbound` return null: the connect is in the BASE64 feed
  and missing from the JSON one. A config with such a path gets a URI that cannot be read back. A path with an encoding in
  it, `/a%2Fb`, comes back as `/a/b`: `URLSearchParams` has decoded it once, the parsers of all
  schemes but vmess decode it again (the trojan outbound of `Foreign` in `MCPublicFeed`).
* An address is written into a URI as it is (UT 579, 678, 696, 721, 750, 775). An IPv6 address of a
  config or an outbound has no brackets there: `URL` rejects the URI, `uriToOutbound` returns
  null, and clients of the BASE64 feed get a link they cannot read. An address with a slash is cut
  off at it; one with a blank is rejected; one with letters beyond ASCII comes back in another
  form. A port above 65535 is rejected as well.
* The id of a vless outbound is the only credential written without `encodeURIComponent` (UT 579),
  and `parseVless` reads it without decoding it (UT 166). An id with a slash, `?` or `#` ends the
  authority and is read as the host; what follows a colon is lost as a password; a blank, an `@`
  or a letter beyond ASCII comes back percent-encoded. UUIDs have none of these.
* A URI has no place for everything an outbound may have: the http header of a vmess outbound over
  tcp, its path when the network is `httpupgrade` or `xhttp`, reality under vmess, the transport of
  a Shadowsocks one, a fingerprint in a hysteria one are lost in the BASE64 feed.
* `outboundSsToUri` writes no stream settings, although `parseShadowsocks` reads them.
* A vmess body with `"sni": ""` gives an empty server name, where the other schemes fall back on
  the host (`??` against `||`).
* `rawJson` is renewed in BASE64 mode only with a new `raw` (SS 337-343): after a subscription
  changes from JSON to BASE64, a row keeps what the JSON feed gave it, an object with a name and a
  link for instance, and the JSON feed delivers it as it is.
* Of the bare outbounds of a JSON feed only one tagged `proxy` is known as an outbound; others
  are delivered as they are. An operator may save an array as `rawJson`; the connect then drops
  out of the JSON feed.
* A feed is read group by group: a connect that moves between two included groups in between
  may be in it twice or not at all, hence `steady` in `SteadyFeedExact`. The counts in
  announcements include balancers and count a connect once in each group.
* A save of the subscriber's page that was under way when the page was loaded again is written
  after that, and the page shows the earlier choice (`settled` in `RestingPageTrue`).

About the board:

* Dragging several selected cards is said to move them as a block (`src/frontend/app/pages/connects.vue`
  1154). Dropped in the column they came from, cards of other columns move there on the screen,
  but no request changes their groups; and the place of the drop is counted among cards of which
  the selected ones have not been taken out (585), so that the block may land further down. The
  part `plain` of `want` keeps `SoloSticks` to the other drags.
* A card that has two main groups is in two columns; a drag moves it in one of them. A failed
  request of several (`Promise.all`) leaves the others under way while the page goes on.

## 5. Proofs

TLAPS proves the following for every value of the constants that meets each module's named
`ASSUME`, that is for any number of slots, connects, groups, users, devices and entries. They
say that bounds are numbers, sets of slots finite, special values (no token, the reserved group)
in or outside a set, and that the tables, lists and URIs a behaviour starts with are of their
types. Three say more about the data: `BoardAssumption` (`ConnectBoard`) that groups were created
at different instants and the reserved one is not a main group; `FirstUrisAssumption` (`ConnectIdentity`) that a word is written in one case where the code
keeps case, and user names in capitals are UUIDs; and `TextsAssumption` (`Outbound`) that words
`URL` treats in a way of its own are among those `encodeURIComponent` changes, and the empty one is
not.

| Module | Theorems | Argument |
|---|---|---|
| `ConnectSync_proofs`, of `ConnectSync` | `TypeCorrect` (with `TypesCorrect`, `PoolNeverEmptyCorrect`), `OnlyOwnRowsDeletedCorrect`, `StaleIsUnlistedOrDuplicateCorrect`, `SoloSyncMirrorsCorrect`, `SerialIntegrityCorrect` | The invariant adds to the types of the tables what each invocation holds at each `pc`: a synchronisation's doomed ids are rows it read, of its own subscription, unmatched, and its list is not empty. The step that deletes then has the right to. A pool is written only after it was seen not to be empty. `AllFaithful`: the matched rows of a synchronisation came first in the order of the pool (`Placed`); if nothing overlaps, the entries it is done with have one row each, as listed, and what it read of the others is still so (`Mirrored`, `AsRead`). `SerialInv`: while invocations take turns, the largest position read is still the largest, the pools read are still so, and an id about to be deleted is in no pool already passed (`Careful`). |
| `ConnectSync_proofs`, of `ConnectIdentity` | `IdentityTypeCorrect`, `ListedOnceCorrect`, `RowPerNodeCorrect` | The invariant `Kept` ties the URI listed now to the one stored: same scheme and pathname, and, except for vless, the same `Rest`, the parameters neither the reference sees nor the provider changes. The keys, stripped of spelling, are functions of what `NodeOf` and `CredentialsOf` see, of `Kept` and of whether the port is written (`SameNodeKeys`, `SameKeys`); where that changes, a trojan node with its old credentials still has its full key (`SameFullKey`), and keys that agree have the same port (`PortInKey`); every respelling, renewal and move preserves `Kept`. `CoreWithinIdentity`: what is stripped of the full key is no part of the core. |
| `Groups_proofs` | `TypeCorrect` (with `UngroupedAlone` and `UserHasGroup`), `RenameLeavesNoTraceCorrect`, `NoSecondMainByTagsCorrect`, `ImplementsMembershipCorrect` | `IInv == Tables /\ OpsOK`. The invariant concerns copies as well as tables: lists read before a loop and written back whole are themselves normalised or not empty, so a stale one does no harm. A rename never concerns the reserved name on either side. A request nothing has overlapped is the only one (`SoloInv`), and what it read or checked is still so (`Known`): each document with the old name is still to be written by the loop that looks for it, no group has the new name, and the tags to be written have at most one main group. `ImplementsMembershipCorrect` assumes `TakeTurns`: one slot, no stopping half-way. `TurnInv` says what the tables look like at each place of the request in progress; between requests every user belongs to groups there are and has choices for these only. While a rename is in progress its new name stands for the group as well, so rows that go from one name to the other are mapped to the same; the last step is the rename of `Membership`. A deletion is the deletion of `Membership` at its first step, its members being mapped to nobody from then on. |
| `FeedAccess_proofs` | `TypeCorrect`, `AnnouncedOnceCorrect`, `LimitKeptCorrect`, `SerialHeraldedCorrect` | `ElectedOnce`: of the rows of a device at most one can still be announced, because the row is written before others are looked for. `WithinRoom`: the devices known together with those promised a place by a count number at most the limit plus the other slots. `Heard`: as long as requests take turns and none fails, a device with a row has been announced, unless that row belongs to the request in progress. |
| `FetchCycle_proofs` | `TypeCorrect`, `MarkTruthfulCorrect`, `SerialWarnedOnceCorrect` | `IInv` ties each fetch at `write` to the history: the mark it carries is null, or the warning for it arrived or was skipped for want of a chat, or it is the mark it read, of which that held when it was read; history only grows. `WInv`: as long as fetches take turns, an end that was warned of is either out of the question, past or replaced by a later one, or kept by the mark, stored or as the fetch in progress read it. |
| `AccessLink_proofs` | `TypeCorrect`, `OwnFeedOnlyCorrect`, `SerialLinkCurrentCorrect`, `SoloRelinksCorrect` | Every token, stored, copied or held by a request, is traced to the user it was drawn for (`Own`); as none is drawn twice, a link that passes the comparison is the user's own. A request that nothing has overlapped is the only one, and what it read of its user is still so (`Synced`); hence what it writes fits what it does not write. |
| `Balancers_proofs` | `TypeCorrect` (with `OneItemEach`), `WholePoolFilteredCorrect`, `SoloFeedExactCorrect`, `SerialInStepCorrect`, `SoloRebuildCorrect` | `IInv == Tables /\ OpsOK`. A config never has two outbounds of one id, and none of an id it does not list. If it lists no other, both lists are the same set in the same order, `Place` is injective on it, and an outbound kept by place is that of an accessible id. Balancers of items are always among those seen. `SoloInv`: what a request that nothing overlaps with holds is still so (`Fresh`). `TurnsInv`: as long as requests take turns, the one in progress fits the tables (`Aligned`) and only the balancers it will still rebuild are behind their pools (`InStepBut`). |
| `PublicFeed_proofs` | `TypeCorrect`, `RefusedOnlyIfStaleCorrect`, `RestingPageTrueCorrect`, `SteadyFeedExactCorrect`, `JsonLeadsWhereUriDoesCorrect`, `UriLeadsWhereJsonDoesCorrect` | Lemmas about lists first: of what is kept of a list the order is that of the places, the first of equal keys keep their places (`FirstsOfConcat`), a drag is a permutation (`MovedList`). `EachOnce`: the list on the page, and with it the list of every save of this page, names every group the user had when the page was loaded once, which is what `savePublicSubscriptionGroupPrefs` asks for; whatever is stored, `Effective` has it (`EffectiveNames`). `SettledInv`: while settled there is at most one save, it has the list on the page unless that was edited since, and once it has written its list is the choice in force, because a stored list that names every group once is left as it is (`StoredInForce`). `SteadyCall`: a call during which nothing changed has covered a number of the included groups, and has sent for every connect of those one line, by first group and place (`Sent`); the included groups are the first of the order of the meta. `RowsTrue`: of a row that is not mixed, `rawJson` is what `uriToOutbound` makes of the URI in BASE64 mode, because a synchronisation that keeps it has found the same URI; in JSON mode the URI is what `outboundToUri` makes of the outbound the feed delivers. The rest is about the functions: the stream settings and the query of a link, key by key (`StreamValues`, `QueryValues`), show that what one conversion writes the other reads back (`StreamBack`, `VmessStreamBack`, `TlsStreamBack`), and a text encoded once more is decoded to itself (`TextRead`); a link with a host that stands as it is, a port in range and encoded user and password is read by `URL` as written (`ReadAsWritten`, `LinkReads`); `UriReads` and `OutboundBack` put the schemes together. |
| `ConnectBoard_proofs` | `BoardTypeCorrect`, `ShowsOwnChangesCorrect`, `SoloSticksCorrect` | `BoardType`: the columns of a page are those of its main groups; the pending columns of a drag fit the page they will be put on, groups and all, because while a drag has requests to be answered the page is not opened anew; and ids sent as an order are all different (`AllIdsOnce`, from `JoinedPlaces`, `ByOrderProperties` and the lemmas on `Firsts`). `OwnChanges`: a page that is not tangled has at most one list on its way, an old one only while another flow still has requests to be answered, and a change the page does not show belongs to a flow that has not read the list yet. `Shelf`: a page without filter, unless its flow is about to build them anew, has whole columns, each card where its tags put it, in the order of the sort mode (`Shelved`). `Solo` follows the flow of an undisturbed gesture stage by stage: the requests on the wire lead from the table to what was asked and none will be refused (`Leads`); the ids, which go through each column in its order (`CardsInTurn`), are numbered up to the one to be written (`Sends`); the orders stored are those of the columns (`Placed`). A page rebuilt from these has the same columns (`RebuiltAs`: there is only one way to sort, and a stable sort leaves what is sorted). For drags: what Sortable leaves, what `mergeMultiDragIntoBuckets` makes of it and what was shown are the same lists (`DragGoalIs`), and the tags sent put the cards where they were dropped (`DragDropsInto`). |

Model-checked only:

* liveness (`Converges`, `Refreshed`, `SoonWarned`), which is beyond the prover with ENABLED and fairness.

## 6. Plan

What is left, in this order:

1. Creation of subscriptions and the message about changed connects, in `ConnectSync`.
2. The backfills of users and groups at the start of the process, in `Groups`.

Not modelled: authentication (password check and JWT issue of a library), infrastructure
(connection set-up), the worker that sends notifications of first accesses (no state; it
swallows failures), the wording of messages, announcements and placeholders, the pages that
send one request per form and show the answer, and the listing of logs.

## 7. Running

    tlc -workers 2 -config Balancers_feed.cfg MCBalancers.tla
    tlapm Balancers_proofs.tla

Each run of `PROJECT.json` names its module and configuration. None takes more than a few
minutes; the proofs take some minutes per module.
