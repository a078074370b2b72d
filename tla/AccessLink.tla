------------------------------ MODULE AccessLink ------------------------------
(***************************************************************************)
(* The address at which a panel user gets the feed, and the happ:// link   *)
(* an outside service makes of it.  The address holds the code of the      *)
(* user, the access token, and the path: /sub, or the crypto page, which   *)
(* is the only one that serves a user marked so.  The token of an old user *)
(* is drawn when it is first needed; the link is made by an HTTP call      *)
(* between reading the user and writing it back.                           *)
(*                                                                         *)
(* A request in progress is a record of its local variables; "pc" names    *)
(* the next awaited call.                                                  *)
(***************************************************************************)
EXTENDS FiniteSets, Functions

CONSTANTS
    Users,      \* ids, never reused
    OldUsers,   \* those created before there were tokens
    Codes,
    Tokens,     \* random values: none is drawn twice
    NoToken,
    NoLink,
    Slots       \* requests that may be in progress at once

Link == [code: Codes, token: Tokens \cup {NoToken}, crypto: BOOLEAN]

ASSUME AccessAssumption ==
    /\ OldUsers \subseteq Users
    /\ NoToken \notin Tokens /\ NoLink \notin Link
    /\ IsFiniteSet(Slots)

VARIABLES
    user,    \* live user -> [code, token, cryptoOnly, link]
    unborn,  \* ids not used yet
    drawn,   \* token drawn -> the user for whom
    held,    \* at most one link copied to a device, with its owner
    reqs,    \* slot -> local variables
    serial   \* history: no two requests have overlapped

vars == <<user, unborn, drawn, held, reqs, serial>>

Live == DOMAIN user

(* Slip: the crypto page is forgotten.                                     *)
AddressOfPage(code, token, cryptoOnly) == [code |-> code, token |-> token, crypto |-> FALSE]

(* buildAbsoluteSubscriptionPageUrlForCrypto                               *)
Address(code, token, cryptoOnly) == [code |-> code, token |-> token, crypto |-> cryptoOnly]

(* The unique index on PanelUser.code.                                     *)
Taken(code, u) == \E v \in Live \ {u} : user[v].code = code

Init ==
    /\ \E code \in [OldUsers -> Codes], linked \in SUBSET OldUsers :
          /\ \A u, v \in OldUsers : code[u] = code[v] => u = v
          /\ user = [u \in OldUsers |->
                        [code |-> code[u], token |-> NoToken, cryptoOnly |-> FALSE,
                         link |-> IF u \in linked THEN Address(code[u], NoToken, FALSE)
                                                  ELSE NoLink]]
    /\ unborn = Users \ OldUsers
    /\ drawn = [t \in {} |-> 0]
    /\ held = {}
    /\ reqs = [s \in {} |-> 0]
    /\ serial = TRUE

-----------------------------------------------------------------------------
(* Requests.                                                               *)
Alone == DOMAIN reqs = {}
Disturbed == [s \in DOMAIN reqs |-> [reqs[s] EXCEPT !.solo = FALSE]]

Begin(s, r) ==
    /\ s \in Slots \ DOMAIN reqs
    /\ reqs' = [q \in DOMAIN reqs \cup {s} |-> IF q = s THEN r ELSE Disturbed[q]]
    /\ serial' = (serial /\ Alone)

(* A handler of a single write.                                            *)
AtOnce == reqs' = Disturbed /\ serial' = (serial /\ Alone)

Goto(s, r) == reqs' = [reqs EXCEPT ![s] = r] /\ UNCHANGED serial
End(s) == reqs' = Restrict(reqs, DOMAIN reqs \ {s}) /\ UNCHANGED serial

Draw(t, u) ==
    /\ t \in Tokens \ DOMAIN drawn
    /\ drawn' = [x \in DOMAIN drawn \cup {t} |-> IF x = t THEN u ELSE drawn[x]]

(* createUser: the groups are looked up and the token is drawn.            *)
BeginCreate(s, u, code, cryptoOnly, t) ==
    /\ u \in unborn
    /\ unborn' = unborn \ {u}
    /\ Draw(t, u)
    /\ Begin(s, [kind |-> "create", pc |-> "fetch", user |-> u, owner |-> u,
                 code |-> code, crypto |-> cryptoOnly, token |-> t, link |-> NoLink,
                 data |-> {}, solo |-> Alone])
    /\ UNCHANGED <<user, held>>

(* createHappCryptoUrlForPanelUser: ensureUser                             *)
BeginLink(s, u) ==
    /\ u \in Live
    /\ Begin(s, [kind |-> "link", pc |-> "token", user |-> u, owner |-> u,
                 code |-> user[u].code, crypto |-> FALSE, token |-> NoToken, link |-> NoLink,
                 data |-> {"link"}, solo |-> Alone])
    /\ UNCHANGED <<user, unborn, drawn, held>>

EffectiveCrypto(v, given) == IF given = {} THEN v.cryptoOnly ELSE TRUE \in given

(* updatePanelUser: code and cryptoOnlySubscription; the latter is a set   *)
(* of one value, or empty when it is not given.                            *)
BeginEdit(s, u, code, given) ==
    LET changed == u \in Live /\ code # user[u].code
        data == (IF changed THEN {"code", "link"} ELSE {})
                  \cup (IF given # {} THEN {"crypto"} ELSE {})
    IN
    /\ u \in Live
    /\ data # {}
    /\ Begin(s, [kind |-> "edit", pc |-> IF changed THEN "taken" ELSE "write",
                 user |-> u, owner |-> u, code |-> code,
                 crypto |-> EffectiveCrypto(user[u], given), token |-> NoToken,
                 link |-> NoLink, data |-> data, solo |-> Alone])
    /\ UNCHANGED <<user, unborn, drawn, held>>

(* getPublicSubscription: findPanelUserByCode                              *)
BeginFeed(s, owner, l) ==
    /\ \E u \in Live :
          /\ user[u].code = l.code
          /\ Begin(s, [kind |-> "feed", pc |-> "token", user |-> u, owner |-> owner,
                       code |-> l.code, crypto |-> user[u].cryptoOnly, token |-> NoToken,
                       link |-> l, data |-> {}, solo |-> Alone])
    /\ UNCHANGED <<user, unborn, drawn, held>>

LookForTaken(s) ==
    LET r == reqs[s] IN
    /\ r.pc = "taken"
    /\ IF Taken(r.code, r.user) THEN End(s) ELSE Goto(s, [r EXCEPT !.pc = "token"])
    /\ UNCHANGED <<user, unborn, drawn, held>>

-----------------------------------------------------------------------------
(* ensureSubscriptionAccessToken                                           *)
AfterToken(kind) == CASE kind = "feed" -> "serve" [] kind = "link" -> "read" [] OTHER -> "fetch"

ReadToken(s) ==
    LET r == reqs[s] IN
    /\ r.pc = "token"
    /\ \/ /\ r.user \in Live /\ user[r.user].token # NoToken
          /\ Goto(s, [r EXCEPT !.pc = AfterToken(r.kind), !.token = user[r.user].token])
          /\ UNCHANGED drawn
       \/ /\ r.user \in Live => user[r.user].token = NoToken
          /\ \E t \in Tokens : Draw(t, r.user) /\ Goto(s, [r EXCEPT !.pc = "setToken", !.token = t])
    /\ UNCHANGED <<user, unborn, held>>

(* Slip: the link without the token is kept.                               *)
SetTokenOnly(s) ==
    LET r == reqs[s] IN
    /\ r.pc = "setToken"
    /\ IF r.user \in Live
       THEN /\ user' = [user EXCEPT ![r.user].token = r.token]
            /\ Goto(s, [r EXCEPT !.pc = AfterToken(r.kind)])
       ELSE End(s) /\ UNCHANGED user
    /\ UNCHANGED <<unborn, drawn, held>>

SetToken(s) ==
    LET r == reqs[s] IN
    /\ r.pc = "setToken"
    /\ IF r.user \in Live
       THEN /\ user' = [user EXCEPT ![r.user].token = r.token, ![r.user].link = NoLink]
            /\ Goto(s, [r EXCEPT !.pc = AfterToken(r.kind)])
       ELSE End(s) /\ UNCHANGED user
    /\ UNCHANGED <<unborn, drawn, held>>

(* createHappCryptoUrlForPanelUser: a link there is, is returned.          *)
ReadUser(s) ==
    LET r == reqs[s] IN
    /\ r.pc = "read"
    /\ IF r.user \in Live /\ user[r.user].link = NoLink
       THEN Goto(s, [r EXCEPT !.pc = "fetch", !.code = user[r.user].code,
                              !.crypto = user[r.user].cryptoOnly])
       ELSE End(s)
    /\ UNCHANGED <<user, unborn, drawn, held>>

(* Slip: the answer is not looked at.                                      *)
FetchLinkUnchecked(s) ==
    LET r == reqs[s] IN
    /\ r.pc = "fetch"
    /\ \E l \in {NoLink, Address(r.code, r.token, r.crypto)} :
          Goto(s, [r EXCEPT !.pc = "write", !.link = l])
    /\ UNCHANGED <<user, unborn, drawn, held>>

(* fetchHappCryptoLink: no link on any failure, and a new user can do      *)
(* without.                                                                *)
FetchLink(s) ==
    LET r == reqs[s] IN
    /\ r.pc = "fetch"
    /\ \/ Goto(s, [r EXCEPT !.pc = "write", !.link = Address(r.code, r.token, r.crypto)])
       \/ r.kind = "create" /\ Goto(s, [r EXCEPT !.pc = "write"])
       \/ r.kind # "create" /\ End(s)
    /\ UNCHANGED <<user, unborn, drawn, held>>

Written(v, r) ==
    [v EXCEPT !.code = IF "code" \in r.data THEN r.code ELSE @,
              !.cryptoOnly = IF "crypto" \in r.data THEN r.crypto ELSE @,
              !.link = IF "link" \in r.data THEN r.link ELSE @]

(* The last write; a code that is taken by now makes it throw.             *)
Create(s) ==
    LET r == reqs[s]
        row == [code |-> r.code, token |-> r.token, cryptoOnly |-> r.crypto, link |-> r.link]
    IN
    /\ r.pc = "write" /\ r.kind = "create"
    /\ user' = IF Taken(r.code, r.user) THEN user
               ELSE [u \in Live \cup {r.user} |-> IF u = r.user THEN row ELSE user[u]]
    /\ End(s)
    /\ UNCHANGED <<unborn, drawn, held>>

Update(s) ==
    LET r == reqs[s] IN
    /\ r.pc = "write" /\ r.kind # "create"
    /\ user' = IF r.user \notin Live \/ ("code" \in r.data /\ Taken(r.code, r.user)) THEN user
               ELSE [user EXCEPT ![r.user] = Written(@, r)]
    /\ End(s)
    /\ UNCHANGED <<unborn, drawn, held>>

(* Slip: the token of the address is not compared.                         *)
DeliveredUnchecked(r) == r.crypto => r.link.crypto

(* getPublicSubscription: t= is right or not given, and so is the page.    *)
Delivered(r) ==
    /\ r.link.token \in {NoToken, r.token}
    /\ r.crypto => r.link.crypto

Serve(s) ==
    /\ reqs[s].pc = "serve"
    /\ End(s)
    /\ UNCHANGED <<user, unborn, drawn, held>>

(* A call is rejected, or the process stops.                               *)
Throw(s) ==
    /\ End(s)
    /\ UNCHANGED <<user, unborn, drawn, held>>

-----------------------------------------------------------------------------
(* deleteUser, bulkUpdatePanelUsers                                        *)
DeleteUser(u) ==
    /\ u \in Live
    /\ user' = Restrict(user, Live \ {u})
    /\ AtOnce
    /\ UNCHANGED <<unborn, drawn, held>>

SetCryptoOnly(u, cryptoOnly) ==
    /\ u \in Live /\ user[u].cryptoOnly # cryptoOnly
    /\ user' = [user EXCEPT ![u].cryptoOnly = cryptoOnly]
    /\ AtOnce
    /\ UNCHANGED <<unborn, drawn, held>>

(* A user copies the link (getPublicUserByCode) to a device; one such link *)
(* is enough, whenever it is made.                                         *)
Copy(u) ==
    /\ u \in Live /\ user[u].link # NoLink
    /\ held = {}
    /\ held' = {[owner |-> u, link |-> user[u].link]}
    /\ UNCHANGED <<user, unborn, drawn, reqs, serial>>

Step(s) ==
    /\ s \in DOMAIN reqs
    /\ \/ LookForTaken(s) \/ ReadToken(s) \/ SetToken(s) \/ ReadUser(s)
       \/ FetchLink(s) \/ Create(s) \/ Update(s) \/ Serve(s)

Request(s) ==
    \/ \E u \in Users, code \in Codes, cryptoOnly \in BOOLEAN, t \in Tokens :
          BeginCreate(s, u, code, cryptoOnly, t)
    \/ \E u \in Users : BeginLink(s, u)
    \/ \E u \in Users, code \in Codes, given \in {{}, {TRUE}, {FALSE}} : BeginEdit(s, u, code, given)
    \/ \E h \in held : BeginFeed(s, h.owner, h.link)
    \/ \E u \in Live : BeginFeed(s, u, Address(user[u].code, NoToken, FALSE))

Operator ==
    \/ \E u \in Users : DeleteUser(u) \/ Copy(u)
    \/ \E u \in Users, cryptoOnly \in BOOLEAN : SetCryptoOnly(u, cryptoOnly)

Next ==
    \/ \E s \in Slots : Request(s) \/ Step(s)
    \/ \E s \in DOMAIN reqs : Throw(s)
    \/ Operator

Spec == Init /\ [][Next]_vars

-----------------------------------------------------------------------------
Row == [code: Codes, token: Tokens \cup {NoToken}, cryptoOnly: BOOLEAN, link: Link \cup {NoLink}]

LocalState ==
    [kind: {"create", "link", "edit", "feed"},
     pc: {"taken", "token", "setToken", "read", "fetch", "write", "serve"},
     user: Users, owner: Users, code: Codes, crypto: BOOLEAN, token: Tokens \cup {NoToken},
     link: Link \cup {NoLink}, data: SUBSET {"code", "crypto", "link"}, solo: BOOLEAN]

Tables ==
    /\ Live \subseteq Users \ unborn /\ user \in [Live -> Row]
    /\ unborn \subseteq Users
    /\ DOMAIN drawn \subseteq Tokens /\ drawn \in [DOMAIN drawn -> Users]
    /\ held \subseteq [owner: Users, link: Link]
    /\ serial \in BOOLEAN
    /\ \A u, v \in Live : user[u].code = user[v].code => u = v

(* A code is changed with a link for it, or not at all.                    *)
RequestOK(r) ==
    /\ r \in LocalState
    /\ r.pc = "write" /\ "link" \in r.data => r.link = Address(r.code, r.token, r.crypto)

TypeOK ==
    /\ Tables
    /\ DOMAIN reqs \subseteq Slots
    /\ \A s \in DOMAIN reqs : RequestOK(reqs[s])

(* A link with a token never opens the feed of another user, whatever      *)
(* codes have changed hands since it was made.                             *)
OwnFeedOnly ==
    \A s \in DOMAIN reqs :
        LET r == reqs[s] IN
        r.kind = "feed" /\ r.pc = "serve" /\ r.link.token # NoToken /\ Delivered(r) => r.user = r.owner

(* What the stored link must match for the feed to be given.               *)
Opens(v, l) ==
    /\ v.code = l.code
    /\ l.token \in {NoToken, v.token}
    /\ v.cryptoOnly => l.crypto

(* As long as requests have not overlapped, a stored link names the code   *)
(* and the token the user has (ensureSubscriptionAccessToken resets it for *)
(* that), wherever a request may have stopped.                             *)
SerialLinkCurrent ==
    serial => \A u \in Live : LET v == user[u] IN
        v.link # NoLink => v.link.code = v.code /\ v.link.token = v.token

(* A request that makes a link, overlapped by none, leaves one that opens  *)
(* the feed, whatever overlapping requests have left behind before.        *)
SoloRelinks ==
    [][\A s \in DOMAIN reqs \ DOMAIN reqs' :
          LET r == reqs[s] IN
          r.solo /\ r.link # NoLink /\ user' # user => Opens(user'[r.user], r.link)]_vars
=============================================================================
